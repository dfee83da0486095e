------------------------ MODULE PipelineCountProofs -------------------------
(* The count of the "Sync complete" popup never exceeds what the server     *)
(* created for the session.                                                 *)
EXTENDS PipelineProofs

LEMMA CountInit == Init => CountInv
<1> SUFFICES ASSUME Init PROVE CountInv
  OBVIOUS
<1>1. Counted = {}
  BY DEF Init, Counted, Creators
<1>2. Cardinality(Counted) = 0
  BY <1>1, FS_EmptySet
<1> QED
  BY <1>2 DEF Init, CountInv, Creators, NewTask, InFlight

\* When the camera task has its ack, nothing queued or in flight is left.
LEMMA AckedMeansSettled ==
  ASSUME TypeOK, BarrierInv, cam = "acked"
  PROVE  \A j \in Job : task[j].pc \in Ended \cup {"idle"}
BY EmptyMeansSettled DEF BarrierInv, LoopInv

LEMMA CountedFinite == ASSUME TypeOK PROVE IsFiniteSet(Counted)
<1>1. Counted \subseteq Job
  BY DEF TypeOK, Counted, Creators
<1> QED
  BY <1>1, FS_Subset, PipelineAssumption

\* A job put in the channel has no outcome yet.
LEMMA EnqueueKeepsCountInv ==
  ASSUME TypeOK, CountInv, NEW j \in Job, task[j].pc = "idle",
         task'[j].pc = "queued", task'[j].outcome = "none", sent' = sent \cup {j},
         \A k \in Job : k # j => task'[k] = task[k], UNCHANGED <<stats, created>>
  PROVE  CountInv'
<1> USE DEF CountInv, TypeOK
<1>1. Creators' = Creators /\ Counted' = Counted
  BY DEF Creators, Counted
<1> QED
  BY <1>1 DEF InFlight

\* A step that leaves one task's outcome, or forgets one not yet counted.
LEMMA QuietKeepsCountInv ==
  ASSUME TypeOK, CountInv, NEW j \in Job, task'[j].pc # "idle",
         task[j].pc \in {"queued"} \cup InFlight,
         \/ task'[j].outcome = task[j].outcome
            /\ (task[j].outcome # "Created" \/
                 (task[j].pc \notin {"posting", "answered"}
                   /\ task'[j].pc \notin {"posting", "answered"}))
            /\ (task'[j].pc \in {"queued", "posting"} => task'[j].outcome = "none")
         \/ task'[j].outcome = "none" /\ task[j].pc \in {"posting", "answered"},
         \A k \in Job : k # j => task'[k] = task[k], UNCHANGED <<stats, created, sent>>
  PROVE  CountInv'
<1> USE DEF CountInv, TypeOK
<1>1. j \in sent
  OBVIOUS
<1>2. Creators' \subseteq Creators
  BY DEF Creators
<1>3. Counted' = Counted
  BY DEF Creators, Counted
<1> QED
  BY <1>1, <1>2, <1>3 DEF InFlight

LEMMA CountStep == TypeOK /\ BarrierInv /\ CountInv /\ [Next]_vars => CountInv'
<1> SUFFICES ASSUME TypeOK, BarrierInv, CountInv, [Next]_vars PROVE CountInv'
  OBVIOUS
<1>0. task \in [Job -> Task] /\ sent \subseteq Job
  BY DEF TypeOK
<1>a. ASSUME UNCHANGED <<task, stats, sent, created>> PROVE CountInv'
  BY <1>a DEF CountInv, Counted, Creators
<1>1. ASSUME NEW j \in Job, EnqueueUpload(j) PROVE CountInv'
  <2>1. task'[j].pc = "queued" /\ task'[j].outcome = task[j].outcome
        /\ \A k \in Job : k # j => task'[k] = task[k]
    BY <1>0, <1>1 DEF EnqueueUpload, Task
  <2> QED
    BY <1>1, <2>1, EnqueueKeepsCountInv DEF EnqueueUpload, MaySend, CountInv
<1>2. ASSUME NEW j \in Job, EnqueueKnown(j) PROVE CountInv'
  <2>1. task'[j].pc = "queued" /\ task'[j].outcome = task[j].outcome
        /\ \A k \in Job : k # j => task'[k] = task[k]
    BY <1>0, <1>2 DEF EnqueueKnown, Task
  <2> QED
    BY <1>2, <2>1, EnqueueKeepsCountInv DEF EnqueueKnown, MaySend, CountInv
<1>3. CASE EnqueueBarrier \/ Close \/ RecvBarrier \/ AckBarrier \/ RecvClosed \/ Return
  BY <1>3, <1>a DEF EnqueueBarrier, Close, RecvBarrier, AckBarrier, RecvClosed, Return, server
<1>4. CASE TakeCount
  <2>1. \A j \in Job : task[j].pc \in Ended \cup {"idle"}
    BY <1>4, AckedMeansSettled DEF TakeCount
  <2>2. Creators' = {} /\ Counted' = {}
    BY <1>4 DEF TakeCount, Creators, Counted
  <2>3. Cardinality(Counted') = 0
    BY <2>2, FS_EmptySet
  <2> QED
    BY <1>4, <2>1, <2>2, <2>3 DEF TakeCount, CountInv, InFlight, Ended
<1>5. ASSUME NEW j \in Job, Spawn(j) PROVE CountInv'
  <2>1. task[j].pc = "queued"
    BY <1>5, SpawnTakesQueued
  <2>2. task'[j].outcome = task[j].outcome /\ task'[j].pc \notin {"idle", "queued"}
        /\ \A k \in Job : k # j => task'[k] = task[k]
    BY <1>0, <1>5 DEF Spawn, Task
  <2>3. task[j].outcome = "none"
    BY <2>1 DEF CountInv
  <2> QED
    BY <1>5, <2>1, <2>2, <2>3, QuietKeepsCountInv DEF Spawn, server
<1>6. ASSUME NEW j \in Job, FailAttempt(j) PROVE CountInv'
  <2>1. task'[j].outcome = "none" /\ task'[j].pc # "idle"
        /\ \A k \in Job : k # j => task'[k] = task[k]
    BY <1>0, <1>6 DEF FailAttempt, FailedAttempt, Task
  <2> QED
    BY <1>6, <2>1, QuietKeepsCountInv DEF FailAttempt, InFlight
<1>7. ASSUME NEW j \in Job, PanicOnErrorBody(j) PROVE CountInv'
  <2>1. /\ task[j].pc \in {"posting", "answered", "checking"} /\ task'[j].pc = "panicked"
        /\ task'[j].outcome = IF task[j].pc = "answered" THEN "none" ELSE task[j].outcome
        /\ UNCHANGED <<stats, created, sent>>
        /\ \A k \in Job : k # j => task'[k] = task[k]
    BY <1>0, <1>7 DEF PanicOnErrorBody, Task
  <2>2. task[j].pc = "posting" => task[j].outcome = "none"
    BY DEF CountInv
  <2>3. CASE task[j].pc = "checking"
    BY <2>1, <2>3, QuietKeepsCountInv DEF InFlight
  <2>4. CASE task[j].pc \in {"posting", "answered"}
    BY <2>1, <2>2, <2>4, QuietKeepsCountInv DEF InFlight
  <2> QED
    BY <2>1, <2>3, <2>4
<1>8. ASSUME NEW j \in Job, Receive(j) PROVE CountInv'
  <2>1. task[j].pc = "answered" /\ task'[j].outcome = task[j].outcome
        /\ task'[j].pc \in {"observing", "done"}
        /\ sent' = sent /\ created' = created
        /\ \A k \in Job : k # j => task'[k] = task[k]
    BY <1>0, <1>8 DEF Receive, Task, server
  <2>2. j \in sent /\ Creators' = Creators
    <3>1. j \in sent
      BY <2>1 DEF CountInv, InFlight
    <3>2. \A k \in sent : task'[k].outcome = task[k].outcome
      BY <1>0, <2>1
    <3> QED
      BY <2>1, <3>1, <3>2 DEF Creators
  <2>3. stats' = Cardinality(Counted')
    <3>1. CASE task[j].outcome = "Created"
      <4>1. Counted' = Counted \cup {j} /\ j \notin Counted
        <5>1. j \in Counted' /\ j \notin Counted
          BY <2>1, <2>2, <3>1 DEF Counted, Creators
        <5>2. \A k \in Creators : k # j => (k \in Counted' <=> k \in Counted)
          BY <1>0, <2>1, <2>2 DEF Counted, Creators
        <5>3. Counted \subseteq Creators /\ Counted' \subseteq Creators
          BY <2>2 DEF Counted
        <5> QED
          BY <5>1, <5>2, <5>3
      <4>2. stats' = stats + 1
        BY <1>8, <3>1 DEF Receive
      <4> QED
        BY <4>1, <4>2, CountedFinite, FS_AddElement DEF CountInv
    <3>2. CASE task[j].outcome # "Created"
      <4>1. Counted' = Counted
        BY <1>0, <2>1, <2>2, <3>2 DEF Counted, Creators
      <4> QED
        BY <1>8, <3>2, <4>1 DEF Receive, CountInv
    <3> QED
      BY <3>1, <3>2
  <2>4. \A k \in Job : /\ task'[k].pc \in {"idle", "queued", "posting"} => task'[k].outcome = "none"
                       /\ task'[k].pc \in {"queued"} \cup InFlight => k \in sent
    BY <2>1, <2>2 DEF CountInv
  <2> QED
    BY <2>1, <2>2, <2>3, <2>4 DEF CountInv
<1>9. ASSUME NEW j \in Job, ObserveAsset(j) \/ CheckStack(j) \/ CreateStack(j) PROVE CountInv'
  <2>1. task[j].pc \in {"observing", "checking", "stacking"}
        /\ task'[j].outcome = task[j].outcome
        /\ task'[j].pc \in {"checking", "stacking"} \cup Ended
        /\ \A k \in Job : k # j => task'[k] = task[k]
    <3>1. CASE ObserveAsset(j)
      BY <1>0, <3>1 DEF ObserveAsset, Task, Ended
    <3>2. CASE CheckStack(j)
      BY <1>0, <3>2 DEF CheckStack, Task, Ended
    <3>3. CASE CreateStack(j)
      BY <1>0, <3>3 DEF CreateStack, Task, Ended
    <3> QED
      BY <1>9, <3>1, <3>2, <3>3
  <2>2. UNCHANGED <<stats, created, sent>>
    BY <1>9 DEF ObserveAsset, CheckStack, CreateStack, server
  <2> QED
    BY <2>1, <2>2, QuietKeepsCountInv DEF InFlight, Ended
<1>10. ASSUME NEW j \in Job, Serve(j) PROVE CountInv'
  <2>1. PICK r \in Answers(Sha[j] \in library) :
          task' = [task EXCEPT ![j].pc = "answered", ![j].outcome = UploadOutcome(r[1], r[2])]
    BY <1>10 DEF Serve
  <2>2. task'[j].pc = "answered" /\ task'[j].outcome = UploadOutcome(r[1], r[2])
        /\ \A k \in Job : k # j => task'[k] = task[k]
    BY <1>0, <2>1 DEF Task
  <2>3. task'[j].outcome = "Created" => Sha[j] \notin library
    BY <2>2 DEF Answers, UploadOutcome
  <2>4. task[j].pc = "posting" /\ UNCHANGED <<stats, sent>>
        /\ created' = created \cup ({Sha[j]} \ library)
    BY <1>10 DEF Serve, Ingest
  <2>5. task[j].outcome = "none" /\ j \in sent
    BY <2>4 DEF CountInv, InFlight
  <2>6. Counted' = Counted
    BY <1>0, <2>2, <2>4, <2>5 DEF Counted, Creators
  <2>7. Creators' \subseteq Creators \cup {j}
    BY <1>0, <2>2, <2>4 DEF Creators
  <2>8. \A k \in Creators : Sha[k] \in library
    BY DEF CountInv, TypeOK
  <2>9. j \in Creators' => Sha[j] \notin library
    BY <2>3 DEF Creators
  <2>10. \A k \in Creators' : Sha[k] \in created'
    BY <2>4, <2>7, <2>9 DEF CountInv
  <2>11. \A k, l \in Creators' : Sha[k] = Sha[l] => k = l
    BY <2>7, <2>8, <2>9 DEF CountInv
  <2>12. created' \subseteq {Sha[k] : k \in Job}
    BY <2>4 DEF CountInv
  <2>13. \A k \in Job : /\ task'[k].pc \in {"idle", "queued", "posting"} => task'[k].outcome = "none"
                        /\ task'[k].pc \in {"queued"} \cup InFlight => k \in sent
    BY <2>2, <2>5 DEF CountInv
  <2>14. stats' = Cardinality(Counted')
    BY <2>4, <2>6 DEF CountInv
  <2> QED
    BY <2>4, <2>10, <2>11, <2>12, <2>13, <2>14 DEF CountInv
<1>11. ASSUME NEW j \in Job, LateUpload(j) PROVE CountInv'
  <2>1. UNCHANGED <<task, stats, sent>> /\ created \subseteq created'
        /\ created' \subseteq created \cup {Sha[j]}
    BY <1>11 DEF LateUpload, Ingest
  <2>2. Creators' = Creators /\ Counted' = Counted
    BY <2>1 DEF Creators, Counted
  <2> QED
    BY <2>1, <2>2 DEF CountInv
<1>12. ASSUME NEW j \in Job, LateStack(j) PROVE CountInv'
  BY <1>12, <1>a DEF LateStack
<1>13. CASE UNCHANGED vars
  BY <1>13, <1>a DEF vars
<1> QED
  BY <1>1, <1>2, <1>3, <1>4, <1>5, <1>6, <1>7, <1>8, <1>9, <1>10, <1>11, <1>12, <1>13
  DEF Next, CameraStep, RunStep, TaskStep, ServerStep, Terminated

\* Each counted task made an asset of its own, so they are no more than the assets.
LEMMA CountedNoMoreThanCreated ==
  ASSUME TypeOK, CountInv
  PROVE  stats <= Cardinality(created)
<1>1. IsFiniteSet(created)
  <2> DEFINE Image == {Sha[j] : j \in Job}
  <2>1. Sha \in Surjection(Job, Image)
    BY PipelineAssumption DEF Surjection
  <2>2. IsFiniteSet(Image)
    BY <2>1, FS_Surjection, PipelineAssumption
  <2> QED
    BY <2>2, FS_Subset DEF CountInv
<1> DEFINE made == [j \in Counted |-> Sha[j]]
<1>2. made \in Injection(Counted, created)
  <2>1. \A j \in Counted : Sha[j] \in created
    BY DEF CountInv, Counted
  <2>2. \A j, k \in Counted : Sha[j] = Sha[k] => j = k
    BY DEF CountInv, Counted
  <2> QED
    BY <2>1, <2>2 DEF Injection, IsInjective
<1>3. Cardinality(Counted) <= Cardinality(created)
  BY <1>1, <1>2, FS_Injection
<1> QED
  BY <1>3 DEF CountInv

LEMMA CountAlways == Spec => []CountInv
<1>1. Init => CountInv
  BY CountInit
<1>2. TypeOK /\ BarrierInv /\ CountInv /\ [Next]_vars => CountInv'
  BY CountStep
<1> QED
  BY <1>1, <1>2, TypeCorrect, BarrierAlways, PTL DEF Spec

\* Retries, lost answers and duplicates, in any number of jobs and attempts, never
\* make the session's count exceed the assets created for it.
THEOREM CountNeverExceeds == Spec => []CountIsTruthful
<1>1. TypeOK /\ CountInv => CountIsTruthful
  BY CountedNoMoreThanCreated DEF CountIsTruthful
<1> QED
  BY <1>1, TypeCorrect, CountAlways, PTL
=============================================================================
