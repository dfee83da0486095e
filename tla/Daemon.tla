------------------------------- MODULE Daemon -------------------------------
(***************************************************************************)
(* The process (src/main.rs): the camera task, which is CameraLoop, and    *)
(* the pipeline task, seen as SessionBarrier, from start to exit, with the *)
(* signal handler, crashes, and the systemd unit that starts it again      *)
(* (packaging/systemd/gphoto2immich.service).  A step of the camera task   *)
(* is one of CameraLoop joined to what it does to the channel.             *)
(***************************************************************************)
EXTENDS CameraLoop

CONSTANT Job   \* messages one run of the process may send to the pipeline

VARIABLES
  process,   \* starting, running, or how it ended: exited (status 0), failed (status 1),
             \* stopped (by a signal it did not handle), killed
  camera,    \* the camera task: starting, running, failed, panicked; it may also have
             \* returned, when loop = "exited"
  handler,   \* the signal handler: unset, set, refused
  asked,     \* the user has asked for a stop
  phase, pending, settled   \* the pipeline task, of SessionBarrier

P == INSTANCE SessionBarrier

task     == <<loop, port, first, result, alreadySynced, notifiedFor, cycle>>
pipeline == <<phase, pending, settled>>
dvars    == <<plugged, shutdown, process, camera, handler, asked, task, pipeline>>

Up    == process = "running"
Alive == Up /\ camera = "running"
Gone  == Up /\ (camera \in {"failed", "panicked"} \/ loop = "exited")

DTypeOK ==
  /\ TypeOK /\ P!BTypeOK
  /\ process \in {"starting", "running", "exited", "failed", "stopped", "killed"}
  /\ camera \in {"starting", "running", "failed", "panicked"}
  /\ handler \in {"unset", "set", "refused"} /\ asked \in BOOLEAN

DInit ==
  /\ Init /\ P!Init
  /\ process = "starting" /\ camera = "starting" /\ handler = "unset" /\ asked = FALSE

-----------------------------------------------------------------------------
(* main and run.                                                           *)

\* The configuration or the client cannot be built: main returns the error.
StartFails ==
  /\ process = "starting"
  /\ process' = "failed"
  /\ UNCHANGED <<plugged, shutdown, camera, handler, asked>> /\ UNCHANGED task /\ UNCHANGED pipeline

Launch ==
  /\ process = "starting"
  /\ process' = "running"
  /\ UNCHANGED <<plugged, shutdown, camera, handler, asked>> /\ UNCHANGED task /\ UNCHANGED pipeline

\* The task of install_signal_handler gets to register.  If only SIGINT is refused its
\* branch of the select answers at once, and the flag is raised for nothing.
Arm ==
  /\ Up /\ handler = "unset"
  /\ \/ handler' = "refused" /\ UNCHANGED vars
     \/ handler' = "set" /\ (Signal \/ UNCHANGED vars)
  /\ UNCHANGED <<process, camera, asked>> /\ UNCHANGED pipeline

\* The sender went with the camera task; the pipeline sees the channel closed.
SenderDropped_OnReturn == Up /\ loop = "exited"

SenderDropped == Gone

DropSender ==
  /\ SenderDropped /\ P!Close
  /\ UNCHANGED <<plugged, shutdown, process, camera, handler, asked>> /\ UNCHANGED task

BothEnded_CameraOnly == Gone

\* Both handles are awaited; how the camera task ended is only logged.
BothEnded == Gone /\ phase = "finished"

Return ==
  /\ BothEnded
  /\ process' = "exited"
  /\ UNCHANGED <<plugged, shutdown, camera, handler, asked>> /\ UNCHANGED task /\ UNCHANGED pipeline

-----------------------------------------------------------------------------
(* The camera task.                                                        *)

\* gphoto2::Context::new answers, or its error ends the task.
OpenContext ==
  /\ Up /\ camera = "starting"
  /\ camera' \in {"running", "failed"}
  /\ UNCHANGED <<plugged, shutdown, process, handler, asked>> /\ UNCHANGED task /\ UNCHANGED pipeline

\* Steps of the loop that touch nothing else.
Watch ==
  /\ Alive
  /\ ListFails \/ NoCamera \/ StillSynced \/ Detect \/ OpenFails \/ Open \/ Wake \/ Exit
  /\ UNCHANGED <<process, camera, handler, asked>> /\ UNCHANGED pipeline

SendJob ==
  /\ Alive /\ loop = "syncing"
  /\ \E j \in Job : P!Accept(j)
  /\ UNCHANGED <<plugged, shutdown, process, camera, handler, asked>> /\ UNCHANGED task

\* The session is over, well or badly, and the barrier is sent.
AskBarrier ==
  /\ Alive /\ EndSession /\ P!Ask
  /\ UNCHANGED <<process, camera, handler, asked>>

Settle_WithoutAck ==
  /\ Alive
  /\ SettleOk \/ SettleError
  /\ phase' = "open" /\ UNCHANGED <<pending, settled>>
  /\ UNCHANGED <<process, camera, handler, asked>>

\* The barrier is answered; the count is shown and the result of the session looked at.
Settle ==
  /\ Alive
  /\ SettleOk \/ SettleError
  /\ P!Resume
  /\ UNCHANGED <<process, camera, handler, asked>>

\* The search for the snapshot is refused with a long error body, and truncate
\* (src/immich/mod.rs 93-99) panics on the character across its byte 500.  The step is
\* left open to the whole session, for a panic below it in the gphoto2 crate too.
SessionPanics ==
  /\ Alive /\ loop = "syncing"
  /\ camera' = "panicked"
  /\ UNCHANGED <<plugged, shutdown, process, handler, asked>> /\ UNCHANGED task /\ UNCHANGED pipeline

CameraStep == OpenContext \/ Watch \/ AskBarrier \/ Settle

-----------------------------------------------------------------------------
(* The pipeline task.                                                      *)

PipelineSettles(j) ==
  /\ Up /\ P!Settle(j)
  /\ UNCHANGED <<plugged, shutdown, process, camera, handler, asked>> /\ UNCHANGED task

PipelineAnswers ==
  /\ Up /\ P!Answer
  /\ UNCHANGED <<plugged, shutdown, process, camera, handler, asked>> /\ UNCHANGED task

PipelineEnds ==
  /\ Up /\ P!Finish
  /\ UNCHANGED <<plugged, shutdown, process, camera, handler, asked>> /\ UNCHANGED task

-----------------------------------------------------------------------------
(* The world.                                                              *)

Hands ==
  /\ (\E p \in Port : Plug(p)) \/ Unplug
  /\ UNCHANGED <<process, camera, handler, asked>> /\ UNCHANGED pipeline

\* SIGTERM or SIGINT.  The first one that finds the handler set raises the flag, further
\* ones are swallowed; without a handler the process ends where it stands.
Stop ==
  /\ process \in {"starting", "running"}
  /\ asked' = TRUE
  /\ \/ handler = "set" /\ Signal /\ UNCHANGED process
     \/ handler = "set" /\ shutdown /\ UNCHANGED <<plugged, shutdown, process>> /\ UNCHANGED task
     \/ /\ handler # "set"
        /\ process' = "stopped"
        /\ UNCHANGED <<plugged, shutdown>> /\ UNCHANGED task
  /\ UNCHANGED <<camera, handler>> /\ UNCHANGED pipeline

\* SIGKILL, the end of memory, a loss of power.
Kill ==
  /\ process \in {"starting", "running"}
  /\ process' = "killed"
  /\ UNCHANGED <<plugged, shutdown, camera, handler, asked>> /\ UNCHANGED task /\ UNCHANGED pipeline

\* A new process knows nothing of the old one; what is plugged in stays.
StartAgain ==
  /\ process' = "starting" /\ camera' = "starting" /\ handler' = "unset" /\ asked' = FALSE
  /\ port' = NoPort /\ alreadySynced' = NoPort /\ notifiedFor' = NoPort
  /\ loop' = "polling" /\ first' = FALSE /\ shutdown' = FALSE /\ result' = "none"
  /\ cycle' = NewCycle(TRUE)
  /\ phase' = "open" /\ pending' = {} /\ settled' = {}
  /\ UNCHANGED plugged

\* Restart=on-failure: not after status 0, and not when a stop was asked for.
Restart == process \in {"failed", "killed"} /\ ~asked /\ StartAgain

StartByHand == process \notin {"starting", "running"} /\ StartAgain

Outside == Hands \/ Stop \/ Kill \/ StartByHand

DNext ==
  \/ StartFails \/ Launch \/ Arm \/ DropSender \/ Return
  \/ CameraStep \/ SendJob \/ SessionPanics
  \/ (\E j \in Job : PipelineSettles(j)) \/ PipelineAnswers \/ PipelineEnds
  \/ Outside \/ Restart

\* Tasks that can run do; sleeps and requests end; a camera that stays plugged in is
\* listed and opened sooner or later; systemd does its part.
DFairness ==
  /\ WF_dvars(StartFails \/ Launch) /\ WF_dvars(Arm) /\ WF_dvars(DropSender) /\ WF_dvars(Return)
  /\ WF_dvars(CameraStep) /\ SF_dvars(Watch /\ Detect) /\ SF_dvars(Watch /\ Open)
  /\ \A j \in Job : WF_dvars(PipelineSettles(j))
  /\ WF_dvars(PipelineAnswers) /\ WF_dvars(PipelineEnds)
  /\ WF_dvars(Restart)

DSpec == DInit /\ [][DNext]_dvars /\ DFairness

-----------------------------------------------------------------------------
(* Properties.                                                             *)

\* A process that ends with status 0 has left nothing undone in the pipeline, also when
\* the camera task failed or panicked (src/main.rs 59-66).
ExitDrains == process = "exited" => pending = {}

\* Between sessions nothing is in flight: what an earlier session sent has settled before
\* the loop polls, sleeps or opens a camera again (src/camera/mod.rs 99-112).
IdleIsDrained == Alive /\ loop \notin {"syncing", "ending"} => pending = {}

\* A stop that is asked for ends the process wherever it finds it.
StopEnds == asked ~> process \notin {"starting", "running"}

\* The process does not outlive its camera task.
EndsWithCameraTask == Gone ~> ~Up

Synced(p) == port = p /\ cycle.synced >= 1

\* A camera plugged in after the loop saw none is tried, and tried again after every
\* failure, until a session of this cycle succeeds, as long as the camera task lives.
PluggedIsTried ==
  \A p \in Port : Alive /\ plugged = p /\ cycle.afterEmpty ~>
    \/ loop = "syncing" /\ port = p
    \/ Synced(p) \/ plugged # p \/ ~cycle.afterEmpty \/ shutdown \/ ~Alive

\* "It restarts on failure (10s backoff)" (README.md), "Restart on libgphoto2/IO errors"
\* (the unit file): when the camera task fails and nobody asked for a stop, the daemon is
\* started again.
RestartsOnFailure ==
  Up /\ camera \in {"failed", "panicked"} ~> process = "starting" \/ asked
=============================================================================
