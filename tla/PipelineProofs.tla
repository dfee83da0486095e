--------------------------- MODULE PipelineProofs ---------------------------
(* Theorems about Pipeline, for every set of jobs, channel capacity and     *)
(* number of attempts.                                                      *)
EXTENDS Pipeline, FiniteSetTheorems, TLAPS

-----------------------------------------------------------------------------
(* The pair-up table.                                                       *)

\* observe() keeps a table a table, and decides to stack exactly when it
\* answers a whole pair.
LEMMA ObserveType ==
  ASSUME NEW table, NEW base \in Basename, NEW kind \in AssetKind, NEW id \in Asset \cup {NoAsset},
         DOMAIN table \subseteq Basename, table \in [DOMAIN table -> StackEntry]
  PROVE  LET seen == Observe(table, base, kind, id)
         IN  /\ DOMAIN seen.table \subseteq Basename
             /\ seen.table \in [DOMAIN seen.table -> StackEntry]
             /\ seen.decision \in {"Stack", "Wait", "Ignore"}
             /\ seen.pair \in StackEntry
<1> DEFINE placed == Place(EntryOf(table, base), kind, id)
<1>1. EmptyEntry \in StackEntry
  BY DEF EmptyEntry, StackEntry
<1>2. placed \in StackEntry
  BY <1>1 DEF Place, EntryOf, StackEntry, AssetKind
<1>3. /\ DOMAIN Store(table, base, placed) \subseteq Basename
      /\ Store(table, base, placed) \in [DOMAIN Store(table, base, placed) -> StackEntry]
  BY <1>2 DEF Store
<1>4. /\ DOMAIN Without(table, base) \subseteq Basename
      /\ Without(table, base) \in [DOMAIN Without(table, base) -> StackEntry]
  BY DEF Without
<1> QED
  BY <1>1, <1>2, <1>3, <1>4 DEF Observe

-----------------------------------------------------------------------------
(* Type correctness.                                                        *)

LEMMA NewTaskType == NewTask \in Task
BY PipelineAssumption DEF NewTask, Task, PC, Outcome, StackEntry, EmptyEntry

\* A field of a task's record may be assigned any value of its range.
LEMMA SetPc == ASSUME NEW t \in Task, NEW v \in PC PROVE [t EXCEPT !.pc = v] \in Task
BY DEF Task
LEMMA SetAttempt ==
  ASSUME NEW t \in Task, NEW v \in 0..UploadMaxAttempts PROVE [t EXCEPT !.attempt = v] \in Task
BY DEF Task
LEMMA SetOutcome ==
  ASSUME NEW t \in Task, NEW v \in Outcome PROVE [t EXCEPT !.outcome = v] \in Task
BY DEF Task
LEMMA SetAsset ==
  ASSUME NEW t \in Task, NEW v \in Asset \cup {NoAsset} PROVE [t EXCEPT !.asset = v] \in Task
BY DEF Task
LEMMA SetPair ==
  ASSUME NEW t \in Task, NEW v \in StackEntry PROVE [t EXCEPT !.pair = v] \in Task
BY DEF Task

LEMMA TypeInit == Init => TypeOK
<1> SUFFICES ASSUME Init PROVE TypeOK
  OBVIOUS
<1>1. task \in [Job -> Task]
  BY NewTaskType DEF Init
<1>2. tracker \in [DOMAIN tracker -> StackEntry] /\ DOMAIN tracker \subseteq Basename
  BY DEF Init, EmptyTable
<1> QED
  BY <1>1, <1>2, PipelineAssumption DEF Init, TypeOK

LEMMA TypeStep == TypeOK /\ [Next]_vars => TypeOK'
<1> SUFFICES ASSUME TypeOK, [Next]_vars PROVE TypeOK'
  OBVIOUS
<1> USE PipelineAssumption
<1>1. ASSUME NEW j \in Job, EnqueueUpload(j) PROVE TypeOK'
  <2>1. [task[j] EXCEPT !.pc = "queued"] \in Task
    BY SetPc DEF TypeOK, PC
  <2>2. task' \in [Job -> Task]
    BY <1>1, <2>1 DEF EnqueueUpload, TypeOK
  <2>3. chan' \in Seq(Job \cup {Barrier})
    BY <1>1 DEF EnqueueUpload, Send, TypeOK
  <2> QED
    BY <1>1, <2>1, <2>2, <2>3 DEF EnqueueUpload, TypeOK
<1>2. ASSUME NEW j \in Job, EnqueueKnown(j) PROVE TypeOK'
  <2>1. PICK k \in Job : task' = [task EXCEPT ![j].pc = "queued", ![j].asset = Sha[k]]
    BY <1>2 DEF EnqueueKnown
  <2>2. [task[j] EXCEPT !.pc = "queued"] \in Task
    BY SetPc DEF TypeOK, PC
  <2>3. [[task[j] EXCEPT !.pc = "queued"] EXCEPT !.asset = Sha[k]] \in Task
    BY <2>2, SetAsset
  <2>4. task' \in [Job -> Task]
    BY <2>1, <2>3 DEF TypeOK
  <2> QED
    BY <1>2, <2>4 DEF EnqueueKnown, Send, TypeOK
<1>3. CASE EnqueueBarrier
  BY <1>3 DEF EnqueueBarrier, Send, TypeOK, server
<1>4. CASE TakeCount
  BY <1>4 DEF TakeCount, TypeOK
<1>5. CASE Close
  BY <1>5 DEF Close, TypeOK, server
<1>6. ASSUME NEW j \in Job, Spawn(j) PROVE TypeOK'
  <2> DEFINE next == IF task[j].asset = NoAsset THEN "posting"
                     ELSE IF StackEnabled THEN "observing" ELSE "done"
             try == IF task[j].asset = NoAsset THEN 1 ELSE 0
  <2>1. next \in PC /\ try \in 0..UploadMaxAttempts
    BY DEF PC, InFlight, Ended
  <2>2. [[task[j] EXCEPT !.pc = next] EXCEPT !.attempt = try] \in Task
    BY <2>1, SetPc, SetAttempt DEF TypeOK
  <2>3. task' \in [Job -> Task]
    BY <1>6, <2>2 DEF Spawn, TypeOK
  <2>4. chan' \in Seq(Job \cup {Barrier})
    BY <1>6 DEF Spawn, TypeOK
  <2> QED
    BY <1>6, <2>3, <2>4 DEF Spawn, TypeOK, server
<1>7. CASE RecvBarrier
  BY <1>7 DEF RecvBarrier, TypeOK, server
<1>8. CASE AckBarrier
  BY <1>8 DEF AckBarrier, TypeOK, server
<1>9. CASE RecvClosed
  BY <1>9 DEF RecvClosed, TypeOK, server
<1>10. CASE Return
  BY <1>10 DEF Return, TypeOK, server
<1>11. ASSUME NEW j \in Job, FailAttempt(j) PROVE TypeOK'
  <2>1. FailedAttempt(task[j]) \in Task
    <3> DEFINE last == task[j].attempt = UploadMaxAttempts
               next == IF last THEN "failed" ELSE "posting"
               try  == IF last THEN task[j].attempt ELSE task[j].attempt + 1
    <3>1. task[j] \in Task /\ next \in PC /\ "none" \in Outcome
      BY DEF TypeOK, PC, InFlight, Ended, Outcome
    <3>2. try \in 0..UploadMaxAttempts
      <4>1. task[j].attempt \in 0..UploadMaxAttempts
        BY <3>1 DEF Task
      <4> QED
        BY <4>1
    <3>3. [[[task[j] EXCEPT !.pc = next] EXCEPT !.attempt = try] EXCEPT !.outcome = "none"] \in Task
      BY <3>1, <3>2, SetPc, SetAttempt, SetOutcome
    <3> QED
      BY <3>3 DEF FailedAttempt
  <2>2. task' \in [Job -> Task]
    BY <1>11, <2>1 DEF FailAttempt, TypeOK
  <2>3. late' \subseteq Job \X {"upload", "stack"}
    BY <1>11 DEF FailAttempt, TypeOK
  <2> QED
    BY <1>11, <2>2, <2>3 DEF FailAttempt, TypeOK
<1>12. ASSUME NEW j \in Job, PanicOnErrorBody(j) PROVE TypeOK'
  <2> DEFINE o == IF task[j].pc = "answered" THEN "none" ELSE task[j].outcome
  <2>1. o \in Outcome /\ "panicked" \in PC /\ task[j] \in Task
    BY DEF TypeOK, Task, Outcome, PC, Ended
  <2>2. [[task[j] EXCEPT !.pc = "panicked"] EXCEPT !.outcome = o] \in Task
    BY <2>1, SetPc, SetOutcome
  <2>3. task' = [task EXCEPT ![j] = [[task[j] EXCEPT !.pc = "panicked"] EXCEPT !.outcome = o]]
    BY <1>12 DEF PanicOnErrorBody, TypeOK
  <2> HIDE DEF o
  <2>4. task' \in [Job -> Task]
    BY <2>2, <2>3 DEF TypeOK
  <2>5. late' = late \/ late' = late \cup {<<j, "upload">>}
    BY <1>12 DEF PanicOnErrorBody
  <2>6. late' \subseteq Job \X {"upload", "stack"}
    BY <2>5 DEF TypeOK
  <2> QED
    BY <1>12, <2>4, <2>6 DEF PanicOnErrorBody, TypeOK
<1>13. ASSUME NEW j \in Job, Receive(j) PROVE TypeOK'
  <2> DEFINE next == IF StackEnabled THEN "observing" ELSE "done"
  <2>1. next \in PC
    BY DEF PC, InFlight, Ended
  <2>2. [[task[j] EXCEPT !.asset = Sha[j]] EXCEPT !.pc = next] \in Task
    BY <2>1, SetPc, SetAsset DEF TypeOK
  <2>3. task' \in [Job -> Task]
    BY <1>13, <2>2 DEF Receive, TypeOK
  <2>4. stats' \in Nat
    BY <1>13 DEF Receive, TypeOK
  <2> QED
    BY <1>13, <2>3, <2>4 DEF Receive, TypeOK, server
<1>14. ASSUME NEW j \in Job, ObserveAsset(j) PROVE TypeOK'
  <2> DEFINE seen == Observe(tracker, Base[j], Kind[j], task[j].asset)
             next == IF seen.decision = "Stack" THEN "checking" ELSE "done"
  <2>1. task[j] \in Task /\ next \in PC
    BY DEF TypeOK, PC, InFlight, Ended
  <2>2. seen.pair \in StackEntry /\ seen.table \in [DOMAIN seen.table -> StackEntry]
        /\ DOMAIN seen.table \subseteq Basename
    <3>1. task[j].asset \in Asset \cup {NoAsset}
      BY <2>1 DEF Task
    <3> QED
      BY <3>1, ObserveType DEF TypeOK
  <2>3. [[task[j] EXCEPT !.pair = seen.pair] EXCEPT !.pc = next] \in Task
    BY <2>1, <2>2, SetPc, SetPair
  <2>4. tracker' = seen.table
        /\ task' = [task EXCEPT ![j] = [[task[j] EXCEPT !.pair = seen.pair] EXCEPT !.pc = next]]
    BY <1>14 DEF ObserveAsset
  <2> HIDE DEF seen, next
  <2>5. task' \in [Job -> Task]
    BY <2>3, <2>4 DEF TypeOK
  <2>6. DOMAIN tracker' \subseteq Basename /\ tracker' \in [DOMAIN tracker' -> StackEntry]
    BY <2>2, <2>4
  <2> QED
    BY <1>14, <2>5, <2>6 DEF ObserveAsset, TypeOK, server
<1>15. ASSUME NEW j \in Job, CheckStack(j) PROVE TypeOK'
  <2>1. \A v \in PC : [task EXCEPT ![j].pc = v] \in [Job -> Task]
    BY SetPc DEF TypeOK
  <2>2. {"failed", "done", "stacking"} \subseteq PC
    BY DEF PC, InFlight, Ended
  <2>3. \E v \in {"failed", "done", "stacking"} : task' = [task EXCEPT ![j].pc = v]
    BY <1>15 DEF CheckStack
  <2>4. task' \in [Job -> Task]
    BY <2>1, <2>2, <2>3
  <2> QED
    BY <1>15, <2>4 DEF CheckStack, TypeOK, server
<1>16. ASSUME NEW j \in Job, CreateStack(j) PROVE TypeOK'
  <2>1. PICK end \in {"done", "panicked"} : task' = [task EXCEPT ![j].pc = end]
    BY <1>16 DEF CreateStack
  <2>2. task' \in [Job -> Task]
    <3>1. end \in PC
      BY DEF PC, Ended
    <3>2. [task[j] EXCEPT !.pc = end] \in Task
      BY <3>1, SetPc DEF TypeOK
    <3> QED
      BY <2>1, <3>2 DEF TypeOK
  <2>3. StackOf(j, TRUE) \in Stack
    BY DEF StackOf, Stack, TypeOK, Task
  <2>4. stacks' \subseteq Stack
    BY <1>16, <2>3 DEF CreateStack, TypeOK
  <2>5. late' \subseteq Job \X {"upload", "stack"}
    <3>1. late' = late \/ late' = late \cup {<<j, "stack">>}
      BY <1>16 DEF CreateStack
    <3> QED
      BY <3>1 DEF TypeOK
  <2>6. UNCHANGED <<chan, cam, mode, tracker, stats, library, sent, created>>
    BY <1>16 DEF CreateStack
  <2> QED
    BY <2>2, <2>4, <2>5, <2>6 DEF TypeOK
<1>17. ASSUME NEW j \in Job, Serve(j) PROVE TypeOK'
  <2>1. PICK o \in Outcome : task' = [task EXCEPT ![j].pc = "answered", ![j].outcome = o]
    BY <1>17 DEF Serve, UploadOutcome, Outcome
  <2>2. [[task[j] EXCEPT !.pc = "answered"] EXCEPT !.outcome = o] \in Task
    BY SetPc, SetOutcome DEF TypeOK, PC, InFlight
  <2>3. task' \in [Job -> Task]
    BY <2>1, <2>2 DEF TypeOK
  <2> QED
    BY <1>17, <2>3 DEF Serve, Ingest, TypeOK
<1>18. ASSUME NEW j \in Job, LateUpload(j) PROVE TypeOK'
  BY <1>18 DEF LateUpload, Ingest, TypeOK
<1>19. ASSUME NEW j \in Job, LateStack(j) PROVE TypeOK'
  <2>1. StackOf(j, FALSE) \in Stack
    BY DEF StackOf, Stack, TypeOK, Task
  <2> QED
    BY <1>19, <2>1 DEF LateStack, TypeOK
<1>20. CASE UNCHANGED vars
  BY <1>20 DEF vars, TypeOK
<1> QED
  BY <1>1, <1>2, <1>3, <1>4, <1>5, <1>6, <1>7, <1>8, <1>9, <1>10, <1>11, <1>12, <1>13,
     <1>14, <1>15, <1>16, <1>17, <1>18, <1>19, <1>20
  DEF Next, CameraStep, RunStep, TaskStep, ServerStep, Terminated

\* Every reachable state is well typed: no attempt beyond the last, no table entry
\* outside the basenames, no count below zero.
THEOREM TypeCorrect == Spec => []TypeOK
<1>1. Init => TypeOK
  BY TypeInit
<1>2. TypeOK /\ [Next]_vars => TypeOK'
  BY TypeStep
<1> QED
  BY <1>1, <1>2, PTL DEF Spec

-----------------------------------------------------------------------------
(* The shape of the steps of the spawned tasks.                             *)

\* A step of a task in flight moves that task alone, never back into the channel.
TaskMoves(j) ==
  /\ task[j].pc \in InFlight
  /\ task'[j].pc \in InFlight \cup Ended
  /\ \A k \in Job : k # j => task'[k] = task[k]
  /\ UNCHANGED <<chan, cam, mode>>

LEMMA TaskStepMoves ==
  ASSUME TypeOK, NEW j \in Job, TaskStep(j) \/ Serve(j)
  PROVE  TaskMoves(j)
<1> USE DEF TaskMoves, TypeOK, Task, InFlight, Ended
<1>1. CASE FailAttempt(j)
  BY <1>1 DEF FailAttempt, FailedAttempt
<1>2. CASE PanicOnErrorBody(j)
  BY <1>2 DEF PanicOnErrorBody
<1>3. CASE Receive(j)
  BY <1>3 DEF Receive
<1>4. CASE ObserveAsset(j)
  BY <1>4 DEF ObserveAsset
<1>5. CASE CheckStack(j)
  BY <1>5 DEF CheckStack
<1>6. CASE CreateStack(j)
  BY <1>6 DEF CreateStack
<1>7. CASE Serve(j)
  <2>1. PICK o \in Outcome : task' = [task EXCEPT ![j].pc = "answered", ![j].outcome = o]
    BY <1>7 DEF Serve, UploadOutcome, Outcome
  <2>2. task'[j].pc = "answered" /\ \A k \in Job : k # j => task'[k] = task[k]
    BY <2>1
  <2>3. task[j].pc = "posting" /\ UNCHANGED <<chan, cam, mode>>
    BY <1>7 DEF Serve
  <2> QED
    BY <2>2, <2>3
<1> QED
  BY <1>1, <1>2, <1>3, <1>4, <1>5, <1>6, <1>7 DEF TaskStep

\* A message at the head of the channel leaves it for a task.
LEMMA SpawnMoves ==
  ASSUME TypeOK, NEW j \in Job, Spawn(j)
  PROVE  /\ task'[j].pc \in InFlight \cup Ended
         /\ \A k \in Job : k # j => task'[k] = task[k]
         /\ UNCHANGED <<cam, mode>>
BY DEF Spawn, TypeOK, Task, InFlight, Ended

-----------------------------------------------------------------------------
(* The barrier.                                                             *)

LEMMA BarrierInit == Init => BarrierInv
BY DEF Init, BarrierInv, ChannelInv, LoopInv, Positions, NewTask

LEMMA SpawnTakesQueued ==
  ASSUME TypeOK, BarrierInv, NEW j \in Job, Spawn(j)
  PROVE  task[j].pc = "queued"
<1>1. chan # <<>> /\ chan[1] = j
  BY DEF Spawn, TypeOK
<1> QED
  BY <1>1, PipelineAssumption DEF TypeOK, BarrierInv, ChannelInv, Positions

\* Nothing but the channel's own jobs is queued, so an empty channel and no task
\* in flight mean that nothing is pending.
LEMMA EmptyMeansSettled ==
  ASSUME TypeOK, BarrierInv, chan = <<>>, Drained
  PROVE  \A j \in Job : task[j].pc \in Ended \cup {"idle"}
BY DEF TypeOK, BarrierInv, ChannelInv, Positions, Drained, Task, PC

LEMMA EnqueueKeepsBarrierInv ==
  ASSUME TypeOK, BarrierInv, NEW j \in Job, Send(j), task[j].pc = "idle",
         task'[j].pc = "queued", \A k \in Job : k # j => task'[k] = task[k],
         UNCHANGED <<cam, mode>>
  PROVE  BarrierInv'
<1> USE PipelineAssumption
<1>1. chan \in Seq(Job \cup {Barrier}) /\ cam = "sending" /\ mode = "receiving"
  BY DEF TypeOK, Send, BarrierInv, LoopInv
<1>2. /\ Len(chan') = Len(chan) + 1
      /\ \A i \in 1..Len(chan) : chan'[i] = chan[i]
      /\ chan'[Len(chan) + 1] = j
  BY <1>1 DEF Send
<1>3. \A i \in 1..Len(chan) : chan[i] \in Job /\ chan[i] # j
  BY <1>1 DEF BarrierInv, ChannelInv, Positions
<1>4. ChannelInv'
  <2>1. \A i \in 1..Len(chan') : chan'[i] \in Job /\ task'[chan'[i]].pc = "queued"
    BY <1>1, <1>2, <1>3 DEF BarrierInv, ChannelInv, Positions
  <2>2. \A i, k \in 1..Len(chan') : chan'[i] = chan'[k] => i = k
    BY <1>1, <1>2, <1>3 DEF BarrierInv, ChannelInv, Positions
  <2>3. ASSUME NEW k \in Job, task'[k].pc = "queued" PROVE \E i \in 1..Len(chan') : chan'[i] = k
    BY <2>3, <1>1, <1>2 DEF BarrierInv, ChannelInv, Positions
  <2> QED
    BY <2>1, <2>2, <2>3 DEF ChannelInv, Positions
<1>5. LoopInv'
  BY <1>1 DEF LoopInv
<1> QED
  BY <1>4, <1>5 DEF BarrierInv

LEMMA TaskKeepsBarrierInv ==
  ASSUME TypeOK, BarrierInv, NEW j \in Job, TaskMoves(j)
  PROVE  BarrierInv'
<1>1. task[j].pc # "queued" /\ task'[j].pc # "queued" /\ ~Drained
  BY DEF TaskMoves, InFlight, Ended, Drained
<1>2. \A k \in Job : (task'[k].pc = "queued") = (task[k].pc = "queued")
  BY <1>1 DEF TaskMoves
<1>3. \A i \in Positions : chan[i] # Barrier => chan[i] \in Job
  BY DEF TypeOK, Positions
<1>4. ChannelInv'
  BY <1>2, <1>3 DEF BarrierInv, ChannelInv, Positions, TaskMoves
<1>5. LoopInv'
  BY <1>1 DEF BarrierInv, LoopInv, TaskMoves
<1> QED
  BY <1>4, <1>5 DEF BarrierInv

LEMMA BarrierStep == TypeOK /\ BarrierInv /\ [Next]_vars => BarrierInv'
<1> SUFFICES ASSUME TypeOK, BarrierInv, [Next]_vars PROVE BarrierInv'
  OBVIOUS
<1> USE PipelineAssumption
<1>0. chan \in Seq(Job \cup {Barrier}) /\ task \in [Job -> Task]
  BY DEF TypeOK
<1>1. ASSUME NEW j \in Job, EnqueueUpload(j) PROVE BarrierInv'
  BY <1>1, <1>0, EnqueueKeepsBarrierInv DEF EnqueueUpload, MaySend, Task
<1>2. ASSUME NEW j \in Job, EnqueueKnown(j) PROVE BarrierInv'
  <2>1. task'[j].pc = "queued" /\ \A k \in Job : k # j => task'[k] = task[k]
    BY <1>2, <1>0 DEF EnqueueKnown, Task
  <2> QED
    BY <1>2, <2>1, EnqueueKeepsBarrierInv DEF EnqueueKnown, MaySend
<1>3. CASE EnqueueBarrier
  <2>1. cam = "sending" /\ mode = "receiving" /\ UNCHANGED <<mode, task>> /\ cam' = "waiting"
    BY <1>3 DEF EnqueueBarrier, Send, BarrierInv, LoopInv
  <2>2. /\ Len(chan') = Len(chan) + 1
        /\ \A i \in 1..Len(chan) : chan'[i] = chan[i]
        /\ chan'[Len(chan) + 1] = Barrier
    BY <1>0, <1>3 DEF EnqueueBarrier, Send
  <2>3. \A i \in 1..Len(chan) : chan[i] \in Job
    BY <1>0, <2>1 DEF BarrierInv, ChannelInv, Positions
  <2>4. ChannelInv'
    BY <1>0, <2>1, <2>2, <2>3 DEF BarrierInv, ChannelInv, Positions
  <2>5. LoopInv'
    BY <1>0, <2>1, <2>2 DEF LoopInv
  <2> QED
    BY <2>4, <2>5 DEF BarrierInv
<1>4. CASE TakeCount
  BY <1>4 DEF TakeCount, BarrierInv, ChannelInv, LoopInv, Positions
<1>5. CASE Close
  <2>1. ChannelInv'
    BY <1>5 DEF Close, server, BarrierInv, ChannelInv, Positions
  <2>2. LoopInv'
    BY <1>5 DEF Close, server, BarrierInv, LoopInv, Drained
  <2> QED
    BY <2>1, <2>2 DEF BarrierInv
<1>6. ASSUME NEW j \in Job, Spawn(j) PROVE BarrierInv'
  <2>1. mode = "receiving" /\ chan # <<>> /\ chan[1] = j
    BY <1>6, <1>0 DEF Spawn
  <2>2. /\ Len(chan) \in Nat /\ Len(chan) > 0 /\ Len(chan') = Len(chan) - 1
        /\ \A i \in 1..Len(chan') : chan'[i] = chan[i + 1] /\ i + 1 \in 1..Len(chan)
    BY <1>0, <1>6 DEF Spawn
  <2>3. task'[j].pc # "queued" /\ UNCHANGED <<cam, mode>>
        /\ \A k \in Job : k # j => task'[k] = task[k]
    BY <1>6, SpawnMoves DEF InFlight, Ended
  <2>4. \A i \in 1..Len(chan') : chan'[i] # j
    <3> SUFFICES ASSUME NEW i \in 1..Len(chan'), chan[i + 1] = chan[1] PROVE FALSE
      BY <2>1, <2>2
    <3>1. i + 1 = 1
      BY <2>2 DEF BarrierInv, ChannelInv, Positions
    <3> QED
      BY <2>2, <3>1
  <2>5. ChannelInv'
    <3>1. \A i \in 1..Len(chan') : chan'[i] = Barrier => cam' = "waiting" /\ i = Len(chan')
      <4> TAKE i \in 1..Len(chan')
      <4>1. chan'[i] = chan[i + 1] /\ i + 1 \in 1..Len(chan)
        BY <2>2
      <4>2. chan[i + 1] = Barrier => cam = "waiting" /\ i + 1 = Len(chan)
        BY <4>1 DEF BarrierInv, ChannelInv, Positions
      <4> QED
        BY <2>2, <2>3, <4>1, <4>2
    <3>2. \A i \in 1..Len(chan') : chan'[i] # Barrier => task'[chan'[i]].pc = "queued"
      <4> TAKE i \in 1..Len(chan')
      <4>1. chan'[i] = chan[i + 1] /\ i + 1 \in 1..Len(chan) /\ chan'[i] # j
        BY <2>2, <2>4
      <4> QED
        BY <1>0, <4>1, <2>3 DEF BarrierInv, ChannelInv, Positions
    <3>3. \A i, k \in 1..Len(chan') : chan'[i] = chan'[k] => i = k
      <4> SUFFICES ASSUME NEW i \in 1..Len(chan'), NEW k \in 1..Len(chan'), chan'[i] = chan'[k]
                   PROVE i = k
        OBVIOUS
      <4>1. /\ i + 1 \in 1..Len(chan) /\ k + 1 \in 1..Len(chan)
            /\ chan[i + 1] = chan[k + 1]
        BY <2>2
      <4>2. i + 1 = k + 1
        BY <4>1 DEF BarrierInv, ChannelInv, Positions
      <4> QED
        BY <4>2
    <3>4. ASSUME NEW k \in Job, task'[k].pc = "queued" PROVE \E i \in 1..Len(chan') : chan'[i] = k
      <4>1. k # j /\ task[k].pc = "queued"
        BY <3>4, <2>3
      <4>2. PICK i \in 1..Len(chan) : chan[i] = k
        BY <4>1 DEF BarrierInv, ChannelInv, Positions
      <4>3. i - 1 \in 1..Len(chan') /\ chan'[i - 1] = k
        BY <1>0, <2>1, <2>2, <4>1, <4>2
      <4> QED
        BY <4>3
    <3> QED
      BY <3>1, <3>2, <3>3, <3>4 DEF ChannelInv, Positions
  <2>6. LoopInv'
    <3>1. CASE cam = "waiting"
      <4>1. chan[Len(chan)] = Barrier /\ Len(chan) > 1
        BY <2>1, <2>2, <3>1 DEF BarrierInv, LoopInv
      <4>2. chan' # <<>> /\ chan'[Len(chan')] = Barrier
        <5>1. Len(chan') \in 1..Len(chan') /\ Len(chan') + 1 = Len(chan)
          BY <2>2, <4>1
        <5>2. chan'[Len(chan')] = chan[Len(chan)]
          BY <2>2, <5>1
        <5> QED
          BY <4>1, <5>1, <5>2
      <4> QED
        BY <3>1, <4>2, <2>1, <2>3 DEF LoopInv
    <3>2. CASE cam # "waiting"
      <4>1. cam # "acked"
        BY <2>1 DEF BarrierInv, LoopInv
      <4> QED
        BY <3>2, <4>1, <2>1, <2>3 DEF LoopInv
    <3> QED
      BY <3>1, <3>2
  <2> QED
    BY <2>5, <2>6 DEF BarrierInv
<1>7. CASE RecvBarrier
  <2>1. chan[1] = Barrier /\ mode' = "draining" /\ UNCHANGED <<cam, task>>
        /\ Len(chan) \in Nat /\ 1 \in 1..Len(chan)
    BY <1>7, <1>0 DEF RecvBarrier, server
  <2>2. cam = "waiting" /\ Len(chan) = 1
    BY <2>1 DEF BarrierInv, ChannelInv, Positions
  <2>3. chan' = <<>>
    BY <1>0, <1>7, <2>2 DEF RecvBarrier
  <2>4. \A k \in Job : task[k].pc # "queued"
    BY <2>1, <2>2 DEF BarrierInv, ChannelInv, Positions
  <2> QED
    <3>1. ChannelInv'
      BY <2>1, <2>3, <2>4 DEF ChannelInv, Positions
    <3>2. LoopInv'
      BY <2>1, <2>2, <2>3 DEF LoopInv
    <3> QED
      BY <3>1, <3>2 DEF BarrierInv
<1>8. CASE AckBarrier
  BY <1>8 DEF AckBarrier, server, BarrierInv, ChannelInv, LoopInv, Positions, Drained
<1>9. CASE RecvClosed
  BY <1>9 DEF RecvClosed, server, BarrierInv, ChannelInv, LoopInv, Positions
<1>10. CASE Return
  BY <1>10 DEF Return, server, BarrierInv, ChannelInv, LoopInv, Positions, Drained
<1>11. ASSUME NEW j \in Job, TaskStep(j) \/ Serve(j) PROVE BarrierInv'
  BY <1>11, TaskStepMoves, TaskKeepsBarrierInv
<1>12. ASSUME NEW j \in Job, LateUpload(j) \/ LateStack(j) \/ UNCHANGED vars PROVE BarrierInv'
  <2>1. UNCHANGED <<chan, cam, mode, task>>
    BY <1>12 DEF LateUpload, LateStack, vars
  <2> QED
    BY <2>1 DEF BarrierInv, ChannelInv, LoopInv, Positions, Drained
<1>13. CASE UNCHANGED vars
  BY <1>13 DEF vars, BarrierInv, ChannelInv, LoopInv, Positions, Drained
<1> QED
  BY <1>1, <1>2, <1>3, <1>4, <1>5, <1>6, <1>7, <1>8, <1>9, <1>10, <1>11, <1>12, <1>13
  DEF Next, CameraStep, RunStep, ServerStep, Terminated

LEMMA BarrierAlways == Spec => []BarrierInv
<1>1. Init => BarrierInv
  BY BarrierInit
<1>2. TypeOK /\ BarrierInv /\ [Next]_vars => BarrierInv'
  BY BarrierStep
<1> QED
  BY <1>1, <1>2, TypeCorrect, PTL DEF Spec

\* The ack and the return of run() come only when the channel is empty and every
\* task has ended, for any number of jobs and any order of their ends.
THEOREM BarrierDrainsAll == Spec => []NothingPendingWhenAnswered
<1>1. TypeOK /\ BarrierInv => NothingPendingWhenAnswered
  BY EmptyMeansSettled DEF BarrierInv, LoopInv, NothingPendingWhenAnswered
<1> QED
  BY <1>1, TypeCorrect, BarrierAlways, PTL

-----------------------------------------------------------------------------
(* The pipeline implements SessionBarrier.                                  *)

LEMMA PromiseInit == Init => Promise!Init
BY DEF Init, Promise!Init, Conversation, Pending, Settled, NewTask, InFlight, Ended

\* A step that ends j, or leaves it pending, and touches no other job and no
\* part of the conversation settles j or stutters.
LEMMA OneJobMoves ==
  ASSUME TypeOK, NEW j \in Job, j \in Pending, task'[j].pc \in InFlight \cup Ended,
         \A k \in Job : k # j => task'[k] = task[k], UNCHANGED <<cam, mode>>
  PROVE  Promise!Settle(j) \/ UNCHANGED Promise!bvars
<1> USE DEF Pending, Settled, InFlight, Ended
<1>1. Conversation' = Conversation
  BY DEF Conversation
<1>2. CASE task'[j].pc \in InFlight
  <2>1. Pending' = Pending
    BY <1>2
  <2>2. Settled' = Settled
    BY <1>2
  <2> QED
    BY <1>1, <2>1, <2>2 DEF Promise!bvars
<1>3. CASE task'[j].pc \in Ended
  <2>1. Pending' = Pending \ {j}
    BY <1>3
  <2>2. Settled' = Settled \cup {j}
    BY <1>3
  <2> QED
    BY <1>1, <2>1, <2>2 DEF Promise!Settle
<1> QED
  BY <1>2, <1>3

\* An idle job put in the channel is accepted.
LEMMA EnqueueAccepts ==
  ASSUME TypeOK, NEW j \in Job, cam = "sending", task[j].pc = "idle", task'[j].pc = "queued",
         \A k \in Job : k # j => task'[k] = task[k], UNCHANGED <<cam, mode>>
  PROVE  Promise!Accept(j)
<1> USE DEF Pending, Settled, InFlight, Ended
<1>1. Conversation = "open" /\ Conversation' = "open"
  BY DEF Conversation
<1>2. Pending' = Pending \cup {j} /\ j \notin Pending \cup Settled
  OBVIOUS
<1>3. Settled' = Settled
  OBVIOUS
<1> QED
  BY <1>1, <1>2, <1>3 DEF Promise!Accept

LEMMA PromiseStep == TypeOK /\ BarrierInv /\ [Next]_vars => [Promise!Next]_(Promise!bvars)
<1> SUFFICES ASSUME TypeOK, BarrierInv, [Next]_vars PROVE [Promise!Next]_(Promise!bvars)
  OBVIOUS
<1>0. task \in [Job -> Task]
  BY DEF TypeOK
<1> DEFINE SameJobs == Pending' = Pending /\ Settled' = Settled
<1>a. UNCHANGED task => SameJobs
  BY DEF Pending, Settled
<1>b. chan = <<>> /\ Drained => Pending = {}
  BY EmptyMeansSettled DEF Pending, InFlight, Ended
<1>1. ASSUME NEW j \in Job, EnqueueUpload(j) PROVE Promise!Next
  BY <1>0, <1>1, EnqueueAccepts DEF EnqueueUpload, MaySend, Send, Promise!Next, Task
<1>2. ASSUME NEW j \in Job, EnqueueKnown(j) PROVE Promise!Next
  <2>1. task'[j].pc = "queued" /\ \A k \in Job : k # j => task'[k] = task[k]
    BY <1>0, <1>2 DEF EnqueueKnown, Task
  <2> QED
    BY <1>2, <2>1, EnqueueAccepts DEF EnqueueKnown, MaySend, Send, Promise!Next
<1>3. CASE EnqueueBarrier
  <2>1. Conversation = "open" /\ Conversation' = "waiting" /\ SameJobs
    BY <1>3, <1>a DEF EnqueueBarrier, Send, Conversation
  <2> QED
    BY <2>1 DEF Promise!Ask, Promise!Move, Promise!Next
<1>4. CASE TakeCount
  <2>1. Conversation = "answered" /\ Conversation' = "open" /\ SameJobs
    BY <1>4, <1>a DEF TakeCount, Conversation
  <2> QED
    BY <2>1 DEF Promise!Resume, Promise!Move, Promise!Next
<1>5. CASE Close
  <2>1. Conversation = "open" /\ Conversation' = "closed" /\ SameJobs
    BY <1>5, <1>a DEF Close, server, Conversation, BarrierInv, LoopInv
  <2> QED
    BY <2>1 DEF Promise!Close, Promise!Move, Promise!Next
<1>6. ASSUME NEW j \in Job, Spawn(j) PROVE [Promise!Next]_(Promise!bvars)
  <2>1. j \in Pending
    BY <1>6, SpawnTakesQueued DEF Pending
  <2> QED
    BY <1>6, <2>1, SpawnMoves, OneJobMoves DEF Promise!Next
<1>7. CASE RecvBarrier
  <2>1. Conversation' = Conversation /\ SameJobs
    BY <1>7, <1>a DEF RecvBarrier, Conversation
  <2> QED
    BY <2>1 DEF Promise!bvars
<1>8. CASE AckBarrier
  <2>1. Conversation = "waiting" /\ Conversation' = "answered" /\ Pending = {} /\ SameJobs
    BY <1>8, <1>a, <1>b DEF AckBarrier, server, Conversation, BarrierInv, LoopInv
  <2> QED
    BY <2>1 DEF Promise!Answer, Promise!Move, Promise!Next
<1>9. CASE RecvClosed
  <2>1. Conversation' = Conversation /\ SameJobs
    BY <1>9, <1>a DEF RecvClosed, server, Conversation
  <2> QED
    BY <2>1 DEF Promise!bvars
<1>10. CASE Return
  <2>1. Conversation = "closed" /\ Conversation' = "finished" /\ Pending = {} /\ SameJobs
    BY <1>10, <1>a, <1>b DEF Return, server, Conversation, BarrierInv, LoopInv
  <2> QED
    BY <2>1 DEF Promise!Finish, Promise!Move, Promise!Next
<1>11. ASSUME NEW j \in Job, TaskStep(j) \/ Serve(j) PROVE [Promise!Next]_(Promise!bvars)
  <2>1. TaskMoves(j)
    BY <1>11, TaskStepMoves
  <2> QED
    BY <2>1, OneJobMoves DEF TaskMoves, Pending, Promise!Next
<1>12. ASSUME NEW j \in Job, LateUpload(j) \/ LateStack(j) PROVE UNCHANGED Promise!bvars
  <2>1. Conversation' = Conversation /\ SameJobs
    BY <1>12, <1>a DEF LateUpload, LateStack, Conversation
  <2> QED
    BY <2>1 DEF Promise!bvars
<1>13. CASE UNCHANGED vars
  <2>1. Conversation' = Conversation /\ SameJobs
    BY <1>13, <1>a DEF vars, Conversation
  <2> QED
    BY <2>1 DEF Promise!bvars
<1> QED
  BY <1>1, <1>2, <1>3, <1>4, <1>5, <1>6, <1>7, <1>8, <1>9, <1>10, <1>11, <1>12, <1>13
  DEF Next, CameraStep, RunStep, ServerStep, Terminated

\* Every behaviour of the pipeline, with its channel, tasks, retries and server, is
\* one of SessionBarrier: jobs settle once, the barrier is answered and run()
\* returns only when nothing is pending.
THEOREM ImplementsBarrier == Spec => Promise!Safety
<1>1. Init => Promise!Init
  BY PromiseInit
<1>2. TypeOK /\ BarrierInv /\ [Next]_vars => [Promise!Next]_(Promise!bvars)
  BY PromiseStep
<1> QED
  BY <1>1, <1>2, TypeCorrect, BarrierAlways, PTL DEF Spec, Promise!Safety
=============================================================================
