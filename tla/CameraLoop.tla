----------------------------- MODULE CameraLoop -----------------------------
(***************************************************************************)
(* The camera task's outer loop (src/camera/mod.rs): poll for a camera,    *)
(* run one session per plug-in cycle, retry a session that failed, and     *)
(* show each popup once per cycle.  A camera is known by its port string;  *)
(* it may be plugged in and out between any two steps of the loop, and the *)
(* loop sees only what is plugged in when it polls.  The session and the   *)
(* barrier that follows it are one step each: what they do is in Pipeline. *)
(***************************************************************************)
EXTENDS Naturals

CONSTANTS Port, NoPort   \* port strings, and None

ASSUME NoPortAssumption == NoPort \notin Port

VARIABLES
  plugged,        \* the port of the camera that is plugged in
  loop,           \* where the loop stands
  port,           \* descriptor.port of the camera last listed, None once none is
  first,          \* first_attempt_this_cycle
  result,         \* session_result
  alreadySynced,  \* already_synced
  notifiedFor,    \* notified_for
  shutdown,       \* the flag the signal handler sets
  cycle           \* history: what happened since the loop last saw the camera change

vars == <<plugged, loop, port, first, result, alreadySynced, notifiedFor, shutdown, cycle>>
memory == <<alreadySynced, notifiedFor>>
session == <<port, first, result>>

OptionalPort == Port \cup {NoPort}
Busy == {"opening", "syncing", "ending"}
NewCycle(empty) == [connected |-> 0, failed |-> 0, synced |-> 0, afterEmpty |-> empty]
\* The cycle a listed camera belongs to: the same port is taken for the same cycle.
CycleOf(p) == IF p = port THEN cycle ELSE NewCycle(port = NoPort)

TypeOK ==
  /\ plugged \in OptionalPort /\ port \in OptionalPort
  /\ alreadySynced \in OptionalPort /\ notifiedFor \in OptionalPort
  /\ loop \in {"polling", "sleeping", "exited"} \cup Busy
  /\ first \in BOOLEAN /\ shutdown \in BOOLEAN
  /\ result \in {"none", "ok", "error"}
  /\ cycle \in [connected : Nat, failed : Nat, synced : Nat, afterEmpty : BOOLEAN]

Init ==
  /\ plugged \in OptionalPort /\ port = NoPort
  /\ alreadySynced = NoPort /\ notifiedFor = NoPort
  /\ loop = "polling" /\ first = FALSE /\ shutdown = FALSE /\ result = "none"
  /\ cycle = NewCycle(TRUE)

-----------------------------------------------------------------------------
(* The world: the user's hands and the signal handler of src/main.rs.      *)

Plug(p) == /\ plugged = NoPort
           /\ plugged' = p
           /\ UNCHANGED <<loop, shutdown, cycle>> /\ UNCHANGED session /\ UNCHANGED memory

Unplug == /\ plugged # NoPort
          /\ plugged' = NoPort
          /\ UNCHANGED <<loop, shutdown, cycle>> /\ UNCHANGED session /\ UNCHANGED memory

Signal == /\ ~shutdown
          /\ shutdown' = TRUE
          /\ UNCHANGED <<plugged, loop, cycle>> /\ UNCHANGED session /\ UNCHANGED memory

-----------------------------------------------------------------------------
(* One iteration of the loop.                                              *)

Poll_IgnoresShutdown == loop = "polling" /\ UNCHANGED <<plugged, shutdown>>

\* while !shutdown { list_cameras() ... }
Poll == loop = "polling" /\ ~shutdown /\ UNCHANGED <<plugged, shutdown>>

ListFails == /\ Poll
             /\ loop' = "sleeping"
             /\ UNCHANGED cycle /\ UNCHANGED session /\ UNCHANGED memory

Forget_KeepsSynced == alreadySynced' = alreadySynced /\ notifiedFor' = NoPort

\* already_synced.take().is_some() || notified_for.take().is_some(): the right
\* side runs only if the left side was None.
Forget == /\ alreadySynced' = NoPort
          /\ notifiedFor' = IF alreadySynced # NoPort THEN notifiedFor ELSE NoPort

NoCamera == /\ Poll /\ plugged = NoPort
            /\ Forget
            /\ loop' = "sleeping"
            /\ cycle' = NewCycle(TRUE)
            /\ port' = NoPort
            /\ UNCHANGED <<first, result>>

StillSynced == /\ Poll /\ plugged # NoPort /\ plugged = alreadySynced
               /\ loop' = "sleeping"
               /\ cycle' = CycleOf(plugged)
               /\ port' = plugged
               /\ UNCHANGED <<first, result>> /\ UNCHANGED memory

Detect_AlwaysFirst ==
  /\ Poll /\ plugged \notin {NoPort, alreadySynced}
  /\ port' = plugged
  /\ first' = TRUE
  /\ loop' = "opening"
  /\ cycle' = CycleOf(plugged)
  /\ UNCHANGED result /\ UNCHANGED memory

Detect == /\ Poll /\ plugged \notin {NoPort, alreadySynced}
          /\ port' = plugged
          /\ first' = (notifiedFor # plugged)
          /\ loop' = "opening"
          /\ cycle' = CycleOf(plugged)
          /\ UNCHANGED result /\ UNCHANGED memory

OpenFails == /\ loop = "opening"
             /\ loop' = "sleeping"
             /\ UNCHANGED <<plugged, shutdown, cycle>> /\ UNCHANGED session /\ UNCHANGED memory

\* get_camera answered; "Camera connected".
Open == /\ loop = "opening" /\ plugged = port
        /\ loop' = "syncing"
        /\ notifiedFor' = IF first THEN port ELSE notifiedFor
        /\ cycle' = IF first THEN [cycle EXCEPT !.connected = @ + 1] ELSE cycle
        /\ UNCHANGED <<plugged, alreadySynced, shutdown>> /\ UNCHANGED session

\* session::run returned.  It answers Ok also when it broke off at the shutdown
\* flag or after three failures in a row, and an error for the rest.
EndSession == /\ loop = "syncing"
              /\ result' \in {"ok", "error"}
              /\ loop' = "ending"
              /\ UNCHANGED <<plugged, port, first, shutdown, cycle>> /\ UNCHANGED memory

SettleOk_Forgets ==
  /\ loop = "ending" /\ result = "ok"
  /\ loop' = "polling"
  /\ cycle' = [cycle EXCEPT !.synced = @ + 1]
  /\ UNCHANGED <<plugged, shutdown>> /\ UNCHANGED session /\ UNCHANGED memory

\* The barrier is answered and the camera dropped; no pause before the next poll.
SettleOk == /\ loop = "ending" /\ result = "ok"
            /\ alreadySynced' = port
            /\ loop' = "polling"
            /\ cycle' = [cycle EXCEPT !.synced = @ + 1]
            /\ UNCHANGED <<plugged, notifiedFor, shutdown>> /\ UNCHANGED session

\* "Sync failed" on the first attempt; then the back-off.
SettleError == /\ loop = "ending" /\ result = "error"
               /\ loop' = "sleeping"
               /\ cycle' = IF first THEN [cycle EXCEPT !.failed = @ + 1] ELSE cycle
               /\ UNCHANGED <<plugged, shutdown>> /\ UNCHANGED session /\ UNCHANGED memory

Wake == /\ loop = "sleeping"
        /\ loop' = "polling"
        /\ UNCHANGED <<plugged, shutdown, cycle>> /\ UNCHANGED session /\ UNCHANGED memory

Exit == /\ loop = "polling" /\ shutdown
        /\ loop' = "exited"
        /\ UNCHANGED <<plugged, shutdown, cycle>> /\ UNCHANGED session /\ UNCHANGED memory

LoopStep == ListFails \/ NoCamera \/ StillSynced \/ Detect \/ OpenFails \/ Open
            \/ EndSession \/ SettleOk \/ SettleError \/ Wake \/ Exit

World == (\E p \in Port : Plug(p)) \/ Unplug \/ Signal

\* The task has returned; the world goes on.
Exited == loop = "exited" /\ UNCHANGED vars

Next == LoopStep \/ World \/ Exited

\* The loop runs on: sleeps end, every request of a session has a timeout and the
\* pipeline answers every barrier.  A camera that stays plugged in is listed and
\* opened sooner or later: this much is assumed of libgphoto2.
Fairness == WF_vars(LoopStep) /\ SF_vars(Detect) /\ SF_vars(Open)

Spec == Init /\ [][Next]_vars /\ Fairness

-----------------------------------------------------------------------------
(* Properties.                                                             *)

\* One "Camera connected" and one "Sync failed" per plug-in cycle however often a
\* session is retried (src/camera/mod.rs 45-48).
OnePopupPerCycle == cycle.connected <= 1 /\ cycle.failed <= 1

\* A synced camera is not synced again before the loop saw it change.
OneSyncPerCycle == cycle.synced <= 1

\* "Camera connected fires once when a camera is detected", "the flags reset when the
\* camera unplugs" (README.md): a session runs only in a cycle that was announced.
EverySessionAnnounced == loop = "syncing" => cycle.connected = 1
=============================================================================
