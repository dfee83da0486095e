------------------------------ MODULE Pipeline ------------------------------
(***************************************************************************)
(* The upload pipeline (src/pipeline.rs) between the bounded channel of    *)
(* src/main.rs and the Immich server.  The receive loop spawns one task    *)
(* per message; tasks run concurrently, each calling the server, which     *)
(* may answer, refuse, answer too late or not at all.  The camera task is  *)
(* reduced to the order in which it uses the channel: messages of a        *)
(* session, a barrier, the count, the next session, and the drop of the    *)
(* sender.                                                                 *)
(*                                                                         *)
(* A job stands for one UploadJob or KnownAsset message and for the task   *)
(* spawned for it.  The channel carries job names; the payload and the     *)
(* task's locals are in task[j].                                           *)
(***************************************************************************)
EXTENDS Integers, Sequences, FiniteSets, StackTracker

CONSTANTS
  Job, Basename,
  Base,               \* [Job -> Basename]: file name without its extension
  Kind,               \* [Job -> AssetKind]
  Sha,                \* [Job -> Asset]: checksum; the server keeps one asset per checksum
  Barrier,            \* PipelineMessage::Barrier
  ChannelCapacity,    \* 64 in src/main.rs
  UploadMaxAttempts,  \* 4 in src/pipeline.rs
  StackEnabled,       \* STACK_JPEG_RAF
  CardRepeats         \* whether a card may hold one basename and kind twice

ASSUME PipelineAssumption ==
  /\ IsFiniteSet(Job)
  /\ Base \in [Job -> Basename] /\ Kind \in [Job -> AssetKind] /\ Sha \in [Job -> Asset]
  /\ Barrier \notin Job
  /\ ChannelCapacity \in Nat \ {0} /\ UploadMaxAttempts \in Nat \ {0}
  /\ StackEnabled \in BOOLEAN /\ CardRepeats \in BOOLEAN

VARIABLES
  chan,      \* the mpsc channel
  cam,       \* camera task: sending, waiting (for the ack), acked, gone (sender dropped)
  mode,      \* receive loop: receiving, draining (in a barrier), closing, returned
  task,      \* [Job -> Task]
  tracker,   \* the StackTracker behind the mutex
  stats,     \* SyncStats.uploaded
  library,   \* server: assets it holds
  stacks,    \* server: stacks it was told to create
  late,      \* requests the client gave up on that may still reach the server
  sent,      \* history: jobs sent since the camera task last took the count
  created    \* history: assets the server created since then

vars == <<chan, cam, mode, task, tracker, stats, library, stacks, late, sent, created>>
server == <<library, stacks, late, created>>

Ended    == {"done", "failed", "panicked"}
InFlight == {"posting", "answered", "observing", "checking", "stacking"}
PC       == {"idle", "queued"} \cup InFlight \cup Ended
Outcome  == {"none", "Created", "Duplicate"}

Task == [pc : PC, attempt : 0..UploadMaxAttempts, outcome : Outcome,
         asset : Asset \cup {NoAsset}, pair : StackEntry]
NewTask == [pc |-> "idle", attempt |-> 0, outcome |-> "none",
            asset |-> NoAsset, pair |-> EmptyEntry]

Stack == [pair : StackEntry, by : Job, onTime : BOOLEAN]

TypeOK ==
  /\ chan \in Seq(Job \cup {Barrier})
  /\ cam \in {"sending", "waiting", "acked", "gone"}
  /\ mode \in {"receiving", "draining", "closing", "returned"}
  /\ task \in [Job -> Task]
  /\ DOMAIN tracker \subseteq Basename
  /\ tracker \in [DOMAIN tracker -> StackEntry]
  /\ stats \in Nat
  /\ library \subseteq Asset
  /\ stacks \subseteq Stack
  /\ late \subseteq Job \X {"upload", "stack"}
  /\ sent \subseteq Job
  /\ created \subseteq library

Init ==
  /\ chan = <<>> /\ cam = "sending" /\ mode = "receiving"
  /\ task = [j \in Job |-> NewTask]
  /\ tracker = EmptyTable
  /\ stats = 0
  /\ library \in SUBSET {Sha[j] : j \in Job}
  /\ stacks = {} /\ late = {} /\ sent = {} /\ created = {}

-----------------------------------------------------------------------------
(* The camera task's side of the channel.                                  *)

SameSlot(j, k) == Base[j] = Base[k] /\ Kind[j] = Kind[k]

\* The files of one session; without repeats a basename has one file per kind.
MaySend(j) == task[j].pc = "idle" /\ (CardRepeats \/ \A k \in sent : ~SameSlot(j, k))

Send(m) == /\ cam = "sending"
           /\ Len(chan) < ChannelCapacity
           /\ chan' = Append(chan, m)

EnqueueUpload(j) ==
  /\ MaySend(j)
  /\ Send(j)
  /\ task' = [task EXCEPT ![j].pc = "queued"]
  /\ sent' = sent \cup {j}
  /\ UNCHANGED <<cam, mode, tracker, stats, library, stacks, late, created>>

\* The pre-check matched an asset of that name already on the server.
EnqueueKnown(j) ==
  /\ MaySend(j)
  /\ Send(j)
  /\ \E k \in Job : /\ SameSlot(j, k) /\ Sha[k] \in library
                    /\ task' = [task EXCEPT ![j].pc = "queued", ![j].asset = Sha[k]]
  /\ sent' = sent \cup {j}
  /\ UNCHANGED <<cam, mode, tracker, stats, library, stacks, late, created>>

EnqueueBarrier ==
  /\ Send(Barrier)
  /\ cam' = "waiting"
  /\ UNCHANGED <<mode, task, tracker, stats, sent>> /\ UNCHANGED server

\* notify_session_end(stats.take_count()); then the outer loop goes on.
TakeCount ==
  /\ cam = "acked"
  /\ cam' = "sending"
  /\ stats' = 0
  /\ sent' = {} /\ created' = {}
  /\ UNCHANGED <<chan, mode, task, tracker, library, stacks, late>>

Close == /\ cam = "sending"
         /\ cam' = "gone"
         /\ UNCHANGED <<chan, mode, task, tracker, stats, sent>> /\ UNCHANGED server

-----------------------------------------------------------------------------
(* Pipeline::run: the receive loop.                                        *)

Drained == \A j \in Job : task[j].pc \notin InFlight

\* tokio::spawn of the task of the message at the head of the channel.
Spawn(j) ==
  /\ mode = "receiving"
  /\ chan # <<>> /\ Head(chan) = j
  /\ chan' = Tail(chan)
  /\ task' = [task EXCEPT
       ![j].pc = IF task[j].asset = NoAsset THEN "posting"
                 ELSE IF StackEnabled THEN "observing" ELSE "done",
       ![j].attempt = IF task[j].asset = NoAsset THEN 1 ELSE 0]
  /\ UNCHANGED <<cam, mode, tracker, stats, sent>> /\ UNCHANGED server

RecvBarrier ==
  /\ mode = "receiving"
  /\ chan # <<>> /\ Head(chan) = Barrier
  /\ chan' = Tail(chan)
  /\ mode' = "draining"
  /\ UNCHANGED <<cam, task, tracker, stats, sent>> /\ UNCHANGED server

AckBarrier_WithoutDrain ==
  /\ mode = "draining"
  /\ mode' = "receiving" /\ cam' = "acked"
  /\ UNCHANGED <<chan, task, tracker, stats, sent>> /\ UNCHANGED server

\* while tasks.join_next().await.is_some() {}; ack.send(())
AckBarrier ==
  /\ mode = "draining" /\ Drained
  /\ mode' = "receiving" /\ cam' = "acked"
  /\ UNCHANGED <<chan, task, tracker, stats, sent>> /\ UNCHANGED server

\* recv() answers None: every sender is gone and the channel is empty.
RecvClosed ==
  /\ mode = "receiving" /\ cam = "gone" /\ chan = <<>>
  /\ mode' = "closing"
  /\ UNCHANGED <<chan, cam, task, tracker, stats, sent>> /\ UNCHANGED server

Return ==
  /\ mode = "closing" /\ Drained
  /\ mode' = "returned"
  /\ UNCHANGED <<chan, cam, task, tracker, stats, sent>> /\ UNCHANGED server

-----------------------------------------------------------------------------
(* Pipeline::upload with upload_with_retry: one POST per attempt.          *)

\* Reading of a 2xx answer: <<status code, "status" field of the body>>.
UploadOutcome(code, status) ==
  IF status = "duplicate" \/ code = 200 THEN "Duplicate" ELSE "Created"

\* External: the answers the server gives for a checksum it holds or not.
Answers(held) == IF held THEN {<<200, "duplicate">>, <<201, "duplicate">>, <<200, "absent">>}
                 ELSE {<<201, "created">>, <<201, "absent">>}

\* External: the server keeps one asset per checksum.
Ingest(j) == /\ library' = library \cup {Sha[j]}
             /\ created' = created \cup ({Sha[j]} \ library)

Serve(j) ==
  /\ task[j].pc = "posting"
  /\ Ingest(j)
  /\ \E r \in Answers(Sha[j] \in library) :
       task' = [task EXCEPT ![j].pc = "answered", ![j].outcome = UploadOutcome(r[1], r[2])]
  /\ UNCHANGED <<chan, cam, mode, tracker, stats, stacks, late, sent>>

LateUpload(j) ==
  /\ <<j, "upload">> \in late
  /\ late' = late \ {<<j, "upload">>}
  /\ Ingest(j)
  /\ UNCHANGED <<chan, cam, mode, task, tracker, stats, stacks, sent>>

FailedAttempt_OneFewer(t) ==
  [t EXCEPT !.pc = IF t.attempt = UploadMaxAttempts - 1 THEN "failed" ELSE "posting",
            !.attempt = IF t.attempt = UploadMaxAttempts - 1 THEN @ ELSE @ + 1,
            !.outcome = "none"]
FailedAttempt_NoLimit(t) == [t EXCEPT !.pc = "posting", !.outcome = "none"]
FailedAttempt_OneMore(t) ==
  [t EXCEPT !.pc = IF t.attempt > UploadMaxAttempts THEN "failed" ELSE "posting",
            !.attempt = IF t.attempt > UploadMaxAttempts THEN @ ELSE @ + 1,
            !.outcome = "none"]

\* The loop's error arm: give up after the last attempt, else back off and try again.
FailedAttempt(t) ==
  [t EXCEPT !.pc = IF t.attempt = UploadMaxAttempts THEN "failed" ELSE "posting",
            !.attempt = IF t.attempt = UploadMaxAttempts THEN @ ELSE @ + 1,
            !.outcome = "none"]

\* No usable answer: refused or lost on the way, timed out with the request still
\* under way, or served but the answer lost, undecodable or of another 2xx code.
FailAttempt(j) ==
  /\ task[j].pc \in {"posting", "answered"}
  /\ task' = [task EXCEPT ![j] = FailedAttempt(task[j])]
  /\ \/ UNCHANGED late
     \/ task[j].pc = "posting" /\ late' = late \cup {<<j, "upload">>}
  /\ UNCHANGED <<chan, cam, mode, tracker, stats, library, stacks, sent, created>>

\* ensure_success cuts an error body at byte 500 without regard to character
\* boundaries: a longer body with a character across that byte panics the task.  The
\* body may come from a proxy, before, while or after the server does what was asked.
PanicOnErrorBody(j) ==
  /\ task[j].pc \in {"posting", "answered", "checking"}
  /\ task' = [task EXCEPT ![j].pc = "panicked",
                          ![j].outcome = IF task[j].pc = "answered" THEN "none" ELSE @]
  /\ \/ UNCHANGED late
     \/ task[j].pc = "posting" /\ late' = late \cup {<<j, "upload">>}
  /\ UNCHANGED <<chan, cam, mode, tracker, stats, library, stacks, sent, created>>

Receive_CountsDuplicates(j) ==
  /\ task[j].pc = "answered"
  /\ stats' = stats + 1
  /\ task' = [task EXCEPT ![j].asset = Sha[j],
                          ![j].pc = IF StackEnabled THEN "observing" ELSE "done"]
  /\ UNCHANGED <<chan, cam, mode, tracker, sent>> /\ UNCHANGED server

Receive_AnyAnswer(j) ==
  /\ task[j].pc \in {"posting", "answered"}
  /\ stats' = IF task[j].outcome = "Created" THEN stats + 1 ELSE stats
  /\ task' = [task EXCEPT ![j].asset = Sha[j],
                          ![j].pc = IF StackEnabled THEN "observing" ELSE "done"]
  /\ UNCHANGED <<chan, cam, mode, tracker, sent>> /\ UNCHANGED server

\* upload_with_retry returned Ok.
Receive(j) ==
  /\ task[j].pc = "answered"
  /\ stats' = IF task[j].outcome = "Created" THEN stats + 1 ELSE stats
  /\ task' = [task EXCEPT ![j].asset = Sha[j],
                          ![j].pc = IF StackEnabled THEN "observing" ELSE "done"]
  /\ UNCHANGED <<chan, cam, mode, tracker, sent>> /\ UNCHANGED server

-----------------------------------------------------------------------------
(* Pipeline::consider_stack.                                               *)

\* Under the mutex.
ObserveAsset(j) ==
  /\ task[j].pc = "observing"
  /\ LET seen == Observe(tracker, Base[j], Kind[j], task[j].asset)
     IN  /\ tracker' = seen.table
         /\ task' = [task EXCEPT ![j].pair = seen.pair,
                                 ![j].pc = IF seen.decision = "Stack" THEN "checking" ELSE "done"]
  /\ UNCHANGED <<chan, cam, mode, stats, sent>> /\ UNCHANGED server

HasStack(a) == \E s \in stacks : a \in {s.pair.jpeg, s.pair.raf}

CheckStack_Unchecked(j) ==
  /\ task[j].pc = "checking"
  /\ task' = [task EXCEPT ![j].pc = "stacking"]
  /\ UNCHANGED <<chan, cam, mode, tracker, stats, sent>> /\ UNCHANGED server

\* asset_has_stack(jpeg_id): an error is returned, a stacked JPEG is left alone.
CheckStack(j) ==
  /\ task[j].pc = "checking"
  /\ \/ task' = [task EXCEPT ![j].pc = "failed"]
     \/ task' = [task EXCEPT ![j].pc = IF HasStack(task[j].pair.jpeg) THEN "done" ELSE "stacking"]
  /\ UNCHANGED <<chan, cam, mode, tracker, stats, sent>> /\ UNCHANGED server

StackOf(j, onTime) == [pair |-> task[j].pair, by |-> j, onTime |-> onTime]

\* create_stack: an error is logged and the task ends well, unless its body panics it.
\* The server creates the stack now, never, or after the client stopped waiting.
CreateStack(j) ==
  /\ task[j].pc = "stacking"
  /\ \E end \in {"done", "panicked"} : task' = [task EXCEPT ![j].pc = end]
  /\ \/ stacks' = stacks \cup {StackOf(j, TRUE)} /\ UNCHANGED late
     \/ UNCHANGED <<stacks, late>>
     \/ late' = late \cup {<<j, "stack">>} /\ UNCHANGED stacks
  /\ UNCHANGED <<chan, cam, mode, tracker, stats, library, sent, created>>

LateStack(j) ==
  /\ <<j, "stack">> \in late
  /\ late' = late \ {<<j, "stack">>}
  /\ stacks' = stacks \cup {StackOf(j, FALSE)}
  /\ UNCHANGED <<chan, cam, mode, task, tracker, stats, library, sent, created>>

-----------------------------------------------------------------------------
CameraStep == \/ \E j \in Job : EnqueueUpload(j) \/ EnqueueKnown(j)
              \/ EnqueueBarrier \/ TakeCount \/ Close

RunStep == (\E j \in Job : Spawn(j)) \/ RecvBarrier \/ AckBarrier \/ RecvClosed \/ Return

TaskStep(j) == \/ FailAttempt(j) \/ PanicOnErrorBody(j) \/ Receive(j)
               \/ ObserveAsset(j) \/ CheckStack(j) \/ CreateStack(j)

ServerStep(j) == Serve(j) \/ LateUpload(j) \/ LateStack(j)

\* run() has returned; the process ends.
Terminated == mode = "returned" /\ UNCHANGED vars

Next == CameraStep \/ RunStep \/ (\E j \in Job : TaskStep(j) \/ ServerStep(j)) \/ Terminated

\* Tasks and the receive loop run on the tokio runtime, and every request has a
\* 60 s timeout.  Neither the camera task nor the server owes anybody a step.
Fairness == WF_vars(RunStep) /\ \A j \in Job : WF_vars(TaskStep(j))

Spec == Init /\ [][Next]_vars /\ Fairness

-----------------------------------------------------------------------------
(* Safety.                                                                 *)

\* When the camera task has its ack, and when run() returns, no message waits in
\* the channel and no task is in flight: the ack of src/pipeline.rs 50-55 and the
\* final drain of 67 miss nobody, whatever order the tasks end in.
NothingPendingWhenAnswered ==
  cam = "acked" \/ mode = "returned" =>
    chan = <<>> /\ \A j \in Job : task[j].pc \in Ended \cup {"idle"}

\* The popup never claims more than the server created for this session, although
\* attempts are repeated, answers are lost and duplicates come back as 2xx.
CountIsTruthful == stats <= Cardinality(created)

\* A task that gave up without an asset had made every attempt: none is lost to an answer
\* that came and could not be used, or to a request that may still arrive.
GivenUpAfterAllAttempts ==
  \A j \in Job : task[j].pc = "failed" /\ task[j].asset = NoAsset
                   => task[j].attempt = UploadMaxAttempts

\* The table holds half pairs only, so it grows with unpaired photos and nothing else.
TableHoldsHalfPairs ==
  \A b \in DOMAIN tracker : (tracker[b].jpeg = NoAsset) # (tracker[b].raf = NoAsset)

\* Whatever order uploads end in, a stack joins a JPEG and a RAF of one basename,
\* with the JPEG as its primary.
StacksPairNamesakes ==
  \A s \in stacks : \E j, r \in Job :
    /\ Kind[j] = "Jpeg" /\ Kind[r] = "Raf" /\ Base[j] = Base[r]
    /\ s.pair = [jpeg |-> Sha[j], raf |-> Sha[r]]

Stacking(j) == task[j].pc \in {"checking", "stacking"}

\* Between asking whether a JPEG has a stack and creating one, no other task is
\* between the two for that JPEG (when a card holds each name once).
OneTaskPerJpeg ==
  \A j, k \in Job : j # k /\ Stacking(j) /\ Stacking(k) => task[j].pair.jpeg # task[k].pair.jpeg

\* A JPEG is put in a second stack only by a request that outlived its client's
\* timeout, over all sessions of the process.
StackedOnce ==
  \A s, t \in stacks : s.onTime /\ t.onTime /\ s.pair.jpeg = t.pair.jpeg => s = t

\* At the ack, a basename whose two halves were both observed in the session was
\* handed for stacking to exactly one of the two tasks.
EveryPairHandedOnce ==
  cam = "acked" =>
    \A j, r \in sent :
      (Kind[j] = "Jpeg" /\ Kind[r] = "Raf" /\ Base[j] = Base[r]
        /\ task[j].asset # NoAsset /\ task[r].asset # NoAsset /\ StackEnabled)
      => LET whole == [jpeg |-> task[j].asset, raf |-> task[r].asset]
         IN  (task[j].pair = whole) # (task[r].pair = whole)

\* Whatever was refused, lost or timed out on the way, the server holds the photo of
\* every task that ended well, and both photos of every stack.
IdsAreStored ==
  /\ \A j \in Job : task[j].pc = "done" => task[j].asset \in library
  /\ \A s \in stacks : {s.pair.jpeg, s.pair.raf} \subseteq library

-----------------------------------------------------------------------------
(* What the pipeline promises the camera task.                             *)

Pending == {j \in Job : task[j].pc \in {"queued"} \cup InFlight}
Settled == {j \in Job : task[j].pc \in Ended}
Conversation ==
  CASE cam = "sending" -> "open"
    [] cam = "waiting" -> "waiting"
    [] cam = "acked"   -> "answered"
    [] OTHER           -> IF mode = "returned" THEN "finished" ELSE "closed"

Promise == INSTANCE SessionBarrier
             WITH phase <- Conversation, pending <- Pending, settled <- Settled

\* Every accepted job settles, every barrier is answered and run() returns after
\* the sender is dropped; each only when nothing is pending.
KeepsPromise == Promise!Spec

-----------------------------------------------------------------------------
(* Inductive strengthenings.                                               *)

Positions == 1..Len(chan)

\* The channel holds each queued job once, and at most one barrier, in last place.
ChannelInv ==
  /\ \A i \in Positions : chan[i] = Barrier => cam = "waiting" /\ i = Len(chan)
  /\ \A i \in Positions : chan[i] # Barrier => task[chan[i]].pc = "queued"
  /\ \A i, k \in Positions : chan[i] = chan[k] => i = k
  /\ \A j \in Job : task[j].pc = "queued" => \E i \in Positions : chan[i] = j

\* The receive loop drains only for a camera task that waits with an empty channel.
LoopInv ==
  /\ mode = "draining" => cam = "waiting" /\ chan = <<>>
  /\ cam = "waiting" => \/ mode = "draining"
                        \/ mode = "receiving" /\ chan # <<>> /\ chan[Len(chan)] = Barrier
  /\ cam \in {"sending", "acked"} => mode = "receiving"
  /\ cam = "acked" => chan = <<>> /\ Drained
  /\ mode \in {"closing", "returned"} => cam = "gone" /\ chan = <<>>
  /\ mode = "returned" => Drained

BarrierInv == ChannelInv /\ LoopInv

\* The tasks whose POST was answered "created" and has been counted.
Creators == {j \in sent : task[j].outcome = "Created"}
Counted  == {j \in Creators : task[j].pc \notin {"posting", "answered"}}

\* Each counted task made an asset of its own, in this session.
CountInv ==
  /\ \A j \in Job : task[j].pc \in {"idle", "queued", "posting"} => task[j].outcome = "none"
  /\ \A j \in Job : task[j].pc \in {"queued"} \cup InFlight => j \in sent
  /\ created \subseteq {Sha[j] : j \in Job}
  /\ \A j \in Creators : Sha[j] \in created
  /\ \A j, k \in Creators : Sha[j] = Sha[k] => j = k
  /\ stats = Cardinality(Counted)

Names(b, kind, a) == \E j \in Job : Base[j] = b /\ Kind[j] = kind /\ Sha[j] = a
WholePair(b, p)   == Names(b, "Jpeg", p.jpeg) /\ Names(b, "Raf", p.raf)

\* Every id in a task, the table, a pair or a stack is filed under its own basename.
PairInv ==
  /\ \A j \in Job : task[j].asset # NoAsset => Names(Base[j], Kind[j], task[j].asset)
  /\ \A j \in Job : task[j].pc = "observing" => task[j].asset # NoAsset
  /\ \A b \in DOMAIN tracker :
       /\ tracker[b].jpeg # NoAsset => Names(b, "Jpeg", tracker[b].jpeg)
       /\ tracker[b].raf # NoAsset => Names(b, "Raf", tracker[b].raf)
  /\ \A j \in Job : task[j].pair # EmptyEntry => WholePair(Base[j], task[j].pair)
  /\ \A j \in Job : Stacking(j) \/ <<j, "stack">> \in late => task[j].pair # EmptyEntry
  /\ \A j \in Job : <<j, "stack">> \in late => task[j].pc \in Ended
  /\ \A s \in stacks : \E b \in Basename : WholePair(b, s.pair)

\* The ids that make up an entry or a pair.
Ids(e) == {e.jpeg, e.raf} \ {NoAsset}

\* An id reaches the client only after the server has its asset.
StoredInv ==
  /\ \A j \in Job : task[j].pc = "answered" => Sha[j] \in library
  /\ \A j \in Job : task[j].asset # NoAsset => task[j].asset \in library
  /\ \A j \in Job : task[j].pc \in {"observing", "checking", "stacking", "done"}
                      => task[j].asset # NoAsset
  /\ \A b \in DOMAIN tracker : Ids(tracker[b]) \subseteq library
  /\ \A j \in Job : Ids(task[j].pair) \subseteq library
  /\ \A s \in stacks : Ids(s.pair) \subseteq library

\* Photos of different basenames have different contents.
PhotosDiffer == \A j, k \in Job : Sha[j] = Sha[k] => Base[j] = Base[k]

Half(table, j) == LET e == EntryOf(table, Base[j]) IN IF Kind[j] = "Jpeg" THEN e.jpeg ELSE e.raf
Handed(j)      == task[j].pair # EmptyEntry

\* A task that was handed a pair left no half of its own kind behind, so the other
\* half of its basename cannot complete a second pair in the session.
HandedInv ==
  /\ \A j, k \in sent : SameSlot(j, k) => j = k
  /\ \A j \in Job : task[j].pc \in {"idle", "queued", "posting", "answered", "observing"}
                      => ~Handed(j)
  /\ \A j \in Job : Handed(j) => Kind[j] \in Stackable
  /\ \A j \in sent : Handed(j) => Half(tracker, j) = NoAsset
  /\ \A j, k \in sent : Handed(j) /\ Handed(k) /\ Base[j] = Base[k] => j = k

\* A task about to stack a JPEG is the first to, but for requests that came late.
StackingInv ==
  \A j \in Job, s \in stacks :
    task[j].pc = "stacking" /\ s.onTime => s.pair.jpeg # task[j].pair.jpeg

\* An asset is known once it was looked up or uploaded, not before.
Observed(j) == /\ Kind[j] \in Stackable /\ task[j].asset # NoAsset
               /\ task[j].pc \in {"checking", "stacking"} \cup Ended

\* A half that was observed waits in the table until a task of its basename was handed
\* a pair.
WaitInv ==
  /\ \A j \in Job : task[j].pc \in {"idle", "posting", "answered"} => task[j].asset = NoAsset
  /\ StackEnabled => \A j \in sent : Observed(j) =>
       Half(tracker, j) = task[j].asset \/ \E k \in sent : Base[k] = Base[j] /\ Handed(k)

-----------------------------------------------------------------------------
(* What comments and the README say, and the code does not do.             *)

\* "the count of newly-uploaded assets" (README.md): at the ack, the count is the
\* number of assets of the session's tasks that the server did not hold before it.
CountIsExact ==
  cam = "acked" => stats = Cardinality(created \cap {task[j].asset : j \in sent})

\* "We retry even on plain errors" (src/pipeline.rs): an upload that ended without
\* an asset used up its attempts.
RetriesBeforeGivingUp ==
  \A j \in Job : task[j].pc \in Ended /\ task[j].asset = NoAsset
                   => task[j].attempt = UploadMaxAttempts

\* "both seen during the session" (README.md): at the ack, both ids of every pair
\* handed out in the session belong to files sent in it.
PairsSeenInSession ==
  cam = "acked" =>
    \A j \in sent : task[j].pair # EmptyEntry =>
      {task[j].pair.jpeg, task[j].pair.raf} \subseteq {task[k].asset : k \in sent}
=============================================================================
