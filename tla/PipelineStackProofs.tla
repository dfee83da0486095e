------------------------ MODULE PipelineStackProofs -------------------------
(* On cards that hold each file name once every pair is handed to one task; *)
(* with photos that differ no two tasks handle one JPEG at a time and no    *)
(* JPEG is stacked twice.                                                   *)
EXTENDS PipelinePairProofs

OncePerName == ~CardRepeats /\ PhotosDiffer

-----------------------------------------------------------------------------
(* Who was handed a pair.                                                   *)

LEMMA HandedInit == Init => HandedInv
BY DEF Init, HandedInv, Handed, NewTask

\* A step that changes no pair and no table entry.
LEMMA QuietKeepsHanded ==
  ASSUME HandedInv, UNCHANGED tracker, sent' \in {sent, {}},
         \A j \in Job :
           /\ task'[j].pair = task[j].pair
           /\ task'[j].pc \in {"idle", "queued", "posting", "answered", "observing"} =>
                task[j].pc \in {"idle", "queued", "posting", "answered", "observing"},
         sent \subseteq Job
  PROVE  HandedInv'
<1>1. \A j \in Job : Handed(j)' = Handed(j)
  BY DEF Handed
<1>2. \A j \in Job : Half(tracker, j)' = Half(tracker, j)
  BY DEF Half, EntryOf
<1> QED
  BY <1>1, <1>2 DEF HandedInv, SameSlot

LEMMA EnqueueKeepsHanded ==
  ASSUME HandedInv, ~CardRepeats, NEW j \in Job, sent \subseteq Job,
         MaySend(j), sent' = sent \cup {j}, UNCHANGED tracker,
         task'[j].pc = "queued", task'[j].pair = task[j].pair,
         \A k \in Job : k # j => task'[k] = task[k]
  PROVE  HandedInv'
<1>1. ~Handed(j) /\ \A k \in sent : ~SameSlot(j, k) /\ ~SameSlot(k, j)
  BY DEF MaySend, HandedInv, SameSlot
<1>2. \A k \in Job : Handed(k)' = Handed(k)
  BY DEF Handed
<1>3. \A k \in Job : Half(tracker, k)' = Half(tracker, k)
  BY DEF Half, EntryOf
<1> QED
  BY <1>1, <1>2, <1>3 DEF HandedInv, SameSlot

\* The heart of the matter: a task already handed the pair of a basename left no
\* half of its kind, so the other half finds nothing to complete.
LEMMA ObserveKeepsHanded ==
  ASSUME TypeOK, CountInv, PairInv, HandedInv, NEW j \in Job, ObserveAsset(j)
  PROVE  HandedInv'
<1> USE PipelineAssumption, NoAssetAssumption
<1> DEFINE old == EntryOf(tracker, Base[j])
           new == Place(old, Kind[j], task[j].asset)
<1>1. /\ task[j].pc = "observing" /\ task[j].asset \in Asset
      /\ UNCHANGED sent
      /\ \A k \in Job : k # j => task'[k] = task[k]
  BY ObserveStep
<1>2. \/ Kind[j] \notin Stackable /\ tracker' = tracker
         /\ task'[j].pc = "done" /\ task'[j].pair = EmptyEntry
      \/ Kind[j] \in Stackable /\ Complete(new) /\ tracker' = Without(tracker, Base[j])
         /\ task'[j].pc = "checking" /\ task'[j].pair = new
      \/ Kind[j] \in Stackable /\ ~Complete(new) /\ tracker' = Store(tracker, Base[j], new)
         /\ task'[j].pc = "done" /\ task'[j].pair = EmptyEntry
  BY ObserveStep
<1>3. j \in sent /\ ~Handed(j) /\ old \in StackEntry
  BY <1>1, EntryOfType DEF CountInv, HandedInv, InFlight, TypeOK
<1>4. \A k \in sent : Handed(k) /\ Base[k] = Base[j] => Kind[k] # Kind[j] /\ Kind[k] \in Stackable
  BY <1>3 DEF HandedInv, SameSlot, TypeOK
<1>5. ASSUME NEW k \in sent, Handed(k), Base[k] = Base[j], Kind[j] \in Stackable
      PROVE  ~Complete(new) /\ (IF Kind[k] = "Jpeg" THEN new.jpeg ELSE new.raf) = NoAsset
  <2>1. Kind[k] # Kind[j] /\ Kind[k] \in Stackable /\ Half(tracker, k) = NoAsset
    BY <1>4, <1>5 DEF HandedInv
  <2>2. (IF Kind[k] = "Jpeg" THEN old.jpeg ELSE old.raf) = NoAsset
    BY <1>5, <2>1 DEF Half
  <2> HIDE DEF old
  <2>3. CASE Kind[k] = "Jpeg"
    <3>1. new.jpeg = old.jpeg
      BY <1>3, <1>5, <2>1, <2>3, PlaceFills DEF Stackable
    <3> QED
      BY <2>2, <2>3, <3>1 DEF Complete
  <2>4. CASE Kind[k] = "Raf"
    <3>1. new.raf = old.raf
      BY <1>3, <1>5, <2>1, <2>4, PlaceFills DEF Stackable
    <3> QED
      BY <2>2, <2>4, <3>1 DEF Complete
  <2> QED
    BY <2>1, <2>3, <2>4 DEF Stackable
<1> HIDE DEF new
<1>6. \A k \in Job : k # j => Handed(k)' = Handed(k)
  BY <1>1 DEF Handed
<1>7. Handed(j)' => Kind[j] \in Stackable /\ Complete(new) /\ tracker' = Without(tracker, Base[j])
  BY <1>2 DEF Handed
<1>8. ASSUME NEW k \in sent, Handed(k)' PROVE Half(tracker, k)' = NoAsset
  <2>1. CASE k = j
    BY <1>7, <1>8, <2>1 DEF Half, Without, EntryOf, EmptyEntry
  <2>2. CASE k # j /\ Base[k] # Base[j]
    <3>1. EntryOf(tracker', Base[k]) = EntryOf(tracker, Base[k])
      BY <1>2, <2>2 DEF EntryOf, Without, Store
    <3>2. Half(tracker, k) = NoAsset
      BY <1>6, <1>8, <2>2 DEF HandedInv, TypeOK
    <3> QED
      BY <3>1, <3>2 DEF Half
  <2>3. CASE k # j /\ Base[k] = Base[j]
    <3>1. Handed(k) /\ Half(tracker, k) = NoAsset
      BY <1>6, <1>8, <2>3 DEF HandedInv, TypeOK
    <3>2. CASE tracker' = tracker
      BY <3>1, <3>2 DEF Half, EntryOf
    <3>3. CASE Kind[j] \in Stackable /\ tracker' = Store(tracker, Base[j], new)
      <4>1. EntryOf(tracker', Base[k]) = new
        BY <2>3, <3>3 DEF EntryOf, Store
      <4> QED
        BY <1>5, <2>3, <3>1, <3>3, <4>1 DEF Half
    <3> QED
      BY <1>2, <1>5, <2>3, <3>1, <3>2, <3>3
  <2> QED
    BY <2>1, <2>2, <2>3
<1>9. ASSUME NEW k \in sent, NEW l \in sent, Handed(k)', Handed(l)', Base[k] = Base[l] PROVE k = l
  BY <1>5, <1>6, <1>7, <1>9 DEF HandedInv, TypeOK
<1>10. \A k \in Job : /\ Handed(k)' => Kind[k] \in Stackable
                      /\ task'[k].pc \in {"idle", "queued", "posting", "answered", "observing"}
                           => ~Handed(k)'
  BY <1>1, <1>2, <1>6, <1>7 DEF HandedInv
<1> QED
  BY <1>1, <1>8, <1>9, <1>10 DEF HandedInv, SameSlot

\* The steps of a task with a pair in hand.
LEMMA CheckOrCreate ==
  ASSUME task \in [Job -> Task], NEW j \in Job, CheckStack(j) \/ CreateStack(j)
  PROVE  /\ task'[j].pair = task[j].pair /\ task'[j].asset = task[j].asset
         /\ task[j].pc \in {"checking", "stacking"}
         /\ task'[j].pc \in {"failed", "done", "panicked", "stacking"}
         /\ \A k \in Job : k # j => task'[k] = task[k]
<1>1. CASE CheckStack(j)
  BY <1>1 DEF CheckStack, Task
<1>2. CASE CreateStack(j)
  BY <1>2 DEF CreateStack, Task
<1> QED
  BY <1>1, <1>2

LEMMA HandedStep ==
  ASSUME ~CardRepeats
  PROVE  TypeOK /\ BarrierInv /\ CountInv /\ PairInv /\ HandedInv /\ [Next]_vars
           => HandedInv'
<1> SUFFICES ASSUME TypeOK, BarrierInv, CountInv, PairInv, HandedInv, [Next]_vars
             PROVE  HandedInv'
  OBVIOUS
<1>0. task \in [Job -> Task] /\ sent \subseteq Job
  BY DEF TypeOK
<1>1. ASSUME NEW j \in Job, EnqueueUpload(j) PROVE HandedInv'
  <2>1. task'[j].pair = task[j].pair /\ task'[j].pc = "queued"
        /\ \A k \in Job : k # j => task'[k] = task[k]
    BY <1>0, <1>1 DEF EnqueueUpload, Task
  <2> QED
    BY <1>0, <1>1, <2>1, EnqueueKeepsHanded DEF EnqueueUpload
<1>2. ASSUME NEW j \in Job, EnqueueKnown(j) PROVE HandedInv'
  <2>1. task'[j].pair = task[j].pair /\ task'[j].pc = "queued"
        /\ \A k \in Job : k # j => task'[k] = task[k]
    BY <1>0, <1>2 DEF EnqueueKnown, Task
  <2> QED
    BY <1>0, <1>2, <2>1, EnqueueKeepsHanded DEF EnqueueKnown
<1>3. ASSUME UNCHANGED <<task, tracker>>, sent' \in {sent, {}} PROVE HandedInv'
  BY <1>0, <1>3, QuietKeepsHanded
<1>4. CASE EnqueueBarrier \/ TakeCount \/ Close \/ RecvBarrier \/ AckBarrier \/ RecvClosed \/ Return
  BY <1>3, <1>4
  DEF EnqueueBarrier, TakeCount, Close, RecvBarrier, AckBarrier, RecvClosed, Return, server
<1>5. ASSUME NEW j \in Job, LateUpload(j) \/ LateStack(j) PROVE HandedInv'
  BY <1>3, <1>5 DEF LateUpload, LateStack
<1>6. CASE UNCHANGED vars
  BY <1>3, <1>6 DEF vars
<1>7. ASSUME NEW j \in Job, task'[j].pair = task[j].pair, task'[j].pc \in {"posting", "answered", "observing"} =>
               task[j].pc \in {"queued", "posting", "answered"},
             task'[j].pc \notin {"idle", "queued"},
             \A k \in Job : k # j => task'[k] = task[k],
             UNCHANGED <<tracker, sent>>
      PROVE  HandedInv'
  BY <1>0, <1>7, QuietKeepsHanded
<1>8. ASSUME NEW j \in Job, Spawn(j) PROVE HandedInv'
  <2>1. task'[j].pair = task[j].pair /\ task'[j].pc \in {"posting", "observing", "done"}
        /\ task[j].pc = "queued"
        /\ \A k \in Job : k # j => task'[k] = task[k]
    BY <1>0, <1>8, SpawnTakesQueued DEF Spawn, Task
  <2> QED
    BY <1>7, <1>8, <2>1 DEF Spawn, server
<1>9. ASSUME NEW j \in Job, FailAttempt(j) PROVE HandedInv'
  <2>1. task'[j].pair = task[j].pair /\ task'[j].pc \in {"posting", "failed"}
        /\ task[j].pc \in {"posting", "answered"}
        /\ \A k \in Job : k # j => task'[k] = task[k]
    BY <1>0, <1>9 DEF FailAttempt, FailedAttempt, Task
  <2>2. UNCHANGED <<tracker, sent>>
    BY <1>9 DEF FailAttempt
  <2> QED
    BY <1>7, <2>1, <2>2
<1>10. ASSUME NEW j \in Job, PanicOnErrorBody(j) PROVE HandedInv'
  <2>1. task'[j].pair = task[j].pair /\ task'[j].pc = "panicked"
        /\ \A k \in Job : k # j => task'[k] = task[k]
    BY <1>0, <1>10 DEF PanicOnErrorBody, Task
  <2> QED
    BY <1>7, <1>10, <2>1 DEF PanicOnErrorBody, server
<1>11. ASSUME NEW j \in Job, Receive(j) PROVE HandedInv'
  <2>1. task'[j].pair = task[j].pair /\ task'[j].pc \in {"observing", "done"}
        /\ task[j].pc = "answered"
        /\ \A k \in Job : k # j => task'[k] = task[k]
    BY <1>0, <1>11 DEF Receive, Task
  <2> QED
    BY <1>7, <1>11, <2>1 DEF Receive, server
<1>12. ASSUME NEW j \in Job, Serve(j) PROVE HandedInv'
  <2>1. PICK o : task' = [task EXCEPT ![j].pc = "answered", ![j].outcome = o]
    BY <1>12 DEF Serve
  <2>2. task'[j].pair = task[j].pair /\ task'[j].pc = "answered"
        /\ \A k \in Job : k # j => task'[k] = task[k]
    BY <1>0, <2>1 DEF Task
  <2> QED
    BY <1>7, <1>12, <2>2 DEF Serve
<1>13. ASSUME NEW j \in Job, ObserveAsset(j) PROVE HandedInv'
  BY <1>13, ObserveKeepsHanded
<1>14. ASSUME NEW j \in Job, CheckStack(j) \/ CreateStack(j) PROVE HandedInv'
  <2>1. task'[j].pair = task[j].pair /\ task'[j].pc \in {"failed", "done", "panicked", "stacking"}
        /\ \A k \in Job : k # j => task'[k] = task[k]
    BY <1>0, <1>14, CheckOrCreate
  <2>2. UNCHANGED <<tracker, sent>>
    BY <1>14 DEF CheckStack, CreateStack, server
  <2> QED
    BY <1>7, <2>1, <2>2
<1> QED
  BY <1>1, <1>2, <1>4, <1>5, <1>6, <1>8, <1>9, <1>10, <1>11, <1>12, <1>13, <1>14
  DEF Next, CameraStep, RunStep, TaskStep, ServerStep, Terminated

LEMMA HandedAlways == ASSUME ~CardRepeats PROVE Spec => []HandedInv
<1>1. Init => HandedInv
  BY HandedInit
<1>2. TypeOK /\ BarrierInv /\ CountInv /\ PairInv /\ HandedInv /\ [Next]_vars => HandedInv'
  BY HandedStep
<1> QED
  BY <1>1, <1>2, TypeCorrect, BarrierAlways, CountAlways, PairAlways, PTL DEF Spec

-----------------------------------------------------------------------------
(* One task and one stack per JPEG.                                         *)

\* A pair handed out is in hand: its task is one of the session's while in flight.
LEMMA JpegsDiffer ==
  ASSUME TypeOK, CountInv, PairInv, HandedInv, PhotosDiffer
  PROVE  OneTaskPerJpeg
<1> SUFFICES ASSUME NEW j \in Job, NEW k \in Job, j # k, Stacking(j), Stacking(k),
                    task[j].pair.jpeg = task[k].pair.jpeg
             PROVE  FALSE
  BY DEF OneTaskPerJpeg
<1>1. j \in sent /\ k \in sent
  BY DEF CountInv, Stacking, InFlight
<1>2. Handed(j) /\ Handed(k)
  BY DEF PairInv, Handed
<1>3. PICK a \in Job : Base[a] = Base[j] /\ Sha[a] = task[j].pair.jpeg
  BY <1>2 DEF PairInv, Handed, WholePair, Names
<1>4. PICK b \in Job : Base[b] = Base[k] /\ Sha[b] = task[k].pair.jpeg
  BY <1>2 DEF PairInv, Handed, WholePair, Names
<1>5. Base[j] = Base[k]
  BY <1>3, <1>4 DEF PhotosDiffer
<1> QED
  BY <1>1, <1>2, <1>5 DEF HandedInv

LEMMA StackedInit == Init => StackingInv /\ StackedOnce
BY DEF Init, StackingInv, StackedOnce

\* A step that makes no stack and by which no task starts stacking.
LEMMA QuietKeepsStacked ==
  ASSUME StackingInv, StackedOnce, UNCHANGED stacks,
         \A j \in Job : task'[j].pc = "stacking" =>
           task[j].pc = "stacking" /\ task'[j].pair = task[j].pair
  PROVE  StackingInv' /\ StackedOnce'
BY DEF StackingInv, StackedOnce

LEMMA StackedStep ==
  ASSUME PhotosDiffer
  PROVE  TypeOK /\ BarrierInv /\ CountInv /\ PairInv /\ HandedInv /\ StackingInv /\ StackedOnce
           /\ [Next]_vars => StackingInv' /\ StackedOnce'
<1> SUFFICES ASSUME TypeOK, BarrierInv, CountInv, PairInv, HandedInv, StackingInv, StackedOnce,
                    [Next]_vars
             PROVE  StackingInv' /\ StackedOnce'
  OBVIOUS
<1>0. task \in [Job -> Task]
  BY DEF TypeOK
<1>1. ASSUME UNCHANGED <<task, stacks>> PROVE StackingInv' /\ StackedOnce'
  BY <1>1, QuietKeepsStacked
<1>2. CASE EnqueueBarrier \/ TakeCount \/ Close \/ RecvBarrier \/ AckBarrier \/ RecvClosed \/ Return
           \/ UNCHANGED vars
  BY <1>1, <1>2
  DEF EnqueueBarrier, TakeCount, Close, RecvBarrier, AckBarrier, RecvClosed, Return, server, vars
<1>3. ASSUME NEW j \in Job, LateUpload(j) PROVE StackingInv' /\ StackedOnce'
  BY <1>1, <1>3 DEF LateUpload
<1>4. ASSUME NEW j \in Job, task'[j].pc # "stacking",
             \A k \in Job : k # j => task'[k] = task[k], UNCHANGED stacks
      PROVE  StackingInv' /\ StackedOnce'
  BY <1>4, QuietKeepsStacked
<1>5. ASSUME NEW j \in Job, EnqueueUpload(j) \/ EnqueueKnown(j) PROVE StackingInv' /\ StackedOnce'
  <2>1. task'[j].pc # "stacking" /\ \A k \in Job : k # j => task'[k] = task[k]
    BY <1>0, <1>5 DEF EnqueueUpload, EnqueueKnown, Task
  <2> QED
    BY <1>4, <1>5, <2>1 DEF EnqueueUpload, EnqueueKnown
<1>6. ASSUME NEW j \in Job, FailAttempt(j) \/ PanicOnErrorBody(j)
       PROVE  StackingInv' /\ StackedOnce'
  <2>1. task'[j].pc # "stacking" /\ \A k \in Job : k # j => task'[k] = task[k]
    <3>1. CASE FailAttempt(j)
      BY <1>0, <3>1 DEF FailAttempt, FailedAttempt, Task
    <3>2. CASE PanicOnErrorBody(j)
      BY <1>0, <3>2 DEF PanicOnErrorBody, Task
    <3> QED
      BY <1>6, <3>1, <3>2
  <2> QED
    BY <1>4, <1>6, <2>1 DEF FailAttempt, PanicOnErrorBody, server
<1>7. ASSUME NEW j \in Job, Spawn(j) \/ Receive(j) PROVE StackingInv' /\ StackedOnce'
  <2>1. task'[j].pc # "stacking" /\ \A k \in Job : k # j => task'[k] = task[k]
    BY <1>0, <1>7 DEF Spawn, Receive, Task
  <2> QED
    BY <1>4, <1>7, <2>1 DEF Spawn, Receive, server
<1>8. ASSUME NEW j \in Job, Serve(j) PROVE StackingInv' /\ StackedOnce'
  <2>1. PICK o : task' = [task EXCEPT ![j].pc = "answered", ![j].outcome = o]
    BY <1>8 DEF Serve
  <2>2. task'[j].pc = "answered" /\ \A k \in Job : k # j => task'[k] = task[k]
    BY <1>0, <2>1 DEF Task
  <2> QED
    BY <1>4, <1>8, <2>2 DEF Serve
<1>9. ASSUME NEW j \in Job, ObserveAsset(j) PROVE StackingInv' /\ StackedOnce'
  <2>1. task'[j].pc \in {"checking", "done"} /\ UNCHANGED stacks
        /\ \A k \in Job : k # j => task'[k] = task[k]
    BY <1>9, ObserveStep
  <2> QED
    BY <1>4, <2>1
<1>10. ASSUME NEW j \in Job, CheckStack(j) PROVE StackingInv' /\ StackedOnce'
  <2>1. task'[j].pair = task[j].pair
        /\ (task'[j].pc = "stacking" => ~HasStack(task[j].pair.jpeg))
        /\ \A k \in Job : k # j => task'[k] = task[k]
    BY <1>0, <1>10 DEF CheckStack, Task
  <2>2. UNCHANGED stacks
    BY <1>10 DEF CheckStack, server
  <2>3. \A k \in Job, s \in stacks :
          task'[k].pc = "stacking" /\ s.onTime => s.pair.jpeg # task'[k].pair.jpeg
    BY <2>1 DEF StackingInv, HasStack
  <2> QED
    BY <2>2, <2>3 DEF StackingInv, StackedOnce
<1>11. ASSUME NEW j \in Job, CreateStack(j) PROVE StackingInv' /\ StackedOnce'
  <2>1. task[j].pc = "stacking" /\ task'[j].pc \in {"done", "panicked"}
        /\ \A k \in Job : k # j => task'[k] = task[k]
    BY <1>0, <1>11 DEF CreateStack, Task
  <2>2. stacks' \subseteq stacks \cup {StackOf(j, TRUE)}
    BY <1>11 DEF CreateStack
  <2>3. StackOf(j, TRUE).pair.jpeg = task[j].pair.jpeg
    BY DEF StackOf
  <2>4. ASSUME NEW k \in Job, task'[k].pc = "stacking"
        PROVE  /\ task'[k] = task[k] /\ task[k].pc = "stacking"
               /\ task[k].pair.jpeg # task[j].pair.jpeg
    <3>1. k # j /\ task'[k] = task[k] /\ Stacking(k) /\ Stacking(j)
      BY <2>1, <2>4 DEF Stacking
    <3> QED
      BY <2>4, <3>1, JpegsDiffer DEF OneTaskPerJpeg
  <2>5. StackingInv'
    <3> SUFFICES ASSUME NEW k \in Job, NEW s \in stacks', task'[k].pc = "stacking", s.onTime
                 PROVE s.pair.jpeg # task'[k].pair.jpeg
      BY DEF StackingInv
    <3>1. CASE s \in stacks
      BY <2>4, <3>1 DEF StackingInv
    <3>2. CASE s = StackOf(j, TRUE)
      BY <2>3, <2>4, <3>2
    <3> QED
      BY <2>2, <3>1, <3>2
  <2>6. \A s \in stacks : s.onTime => s.pair.jpeg # StackOf(j, TRUE).pair.jpeg
    BY <2>1, <2>3 DEF StackingInv
  <2>7. StackedOnce'
    BY <2>2, <2>6 DEF StackedOnce
  <2> QED
    BY <2>5, <2>7
<1>12. ASSUME NEW j \in Job, LateStack(j) PROVE StackingInv' /\ StackedOnce'
  <2>1. UNCHANGED task /\ stacks' = stacks \cup {StackOf(j, FALSE)}
    BY <1>12 DEF LateStack
  <2>2. ~StackOf(j, FALSE).onTime
    BY DEF StackOf
  <2> QED
    BY <2>1, <2>2 DEF StackingInv, StackedOnce
<1> QED
  BY <1>2, <1>3, <1>5, <1>6, <1>7, <1>8, <1>9, <1>10, <1>11, <1>12
  DEF Next, CameraStep, RunStep, TaskStep, ServerStep, Terminated

\* With each file name once per card, no two tasks are between asking whether a JPEG
\* is stacked and stacking it: the check and the create need no lock of their own.
THEOREM NoTwoTasksPerJpeg == ASSUME OncePerName PROVE Spec => []OneTaskPerJpeg
<1>1. TypeOK /\ CountInv /\ PairInv /\ HandedInv => OneTaskPerJpeg
  BY JpegsDiffer DEF OncePerName
<1> QED
  BY <1>1, TypeCorrect, CountAlways, PairAlways, HandedAlways, PTL DEF OncePerName

\* Over any number of sessions of the process, a JPEG enters a second stack only by
\* a request that outlived its client's timeout.
THEOREM JpegStackedOnce == ASSUME OncePerName PROVE Spec => []StackedOnce
<1>1. Init => StackingInv /\ StackedOnce
  BY StackedInit
<1>2. TypeOK /\ BarrierInv /\ CountInv /\ PairInv /\ HandedInv /\ StackingInv /\ StackedOnce
        /\ [Next]_vars => StackingInv' /\ StackedOnce'
  BY StackedStep DEF OncePerName
<1> QED
  BY <1>1, <1>2, TypeCorrect, BarrierAlways, CountAlways, PairAlways, HandedAlways, PTL
  DEF Spec, OncePerName

-----------------------------------------------------------------------------
(* Every pair is handed over.                                               *)

LEMMA WaitInit == Init => WaitInv
BY DEF Init, WaitInv, NewTask

\* A step by which no task observes, and nobody loses a pair.
LEMMA QuietKeepsWait ==
  ASSUME WaitInv, UNCHANGED tracker, sent \subseteq Job,
         sent' = {} \/ (sent \subseteq sent' /\ sent' \subseteq Job
                          /\ \A j \in sent' : j \notin sent => ~Observed(j)'),
         \A j \in Job :
           /\ task'[j].pair = task[j].pair
           /\ StackEnabled /\ Observed(j)' => Observed(j) /\ task'[j].asset = task[j].asset
           /\ task'[j].pc \in {"idle", "posting", "answered"} => task'[j].asset = NoAsset
  PROVE  WaitInv'
<1>1. \A j \in Job : Handed(j)' = Handed(j)
  BY DEF Handed
<1>2. \A j \in Job : Half(tracker, j)' = Half(tracker, j)
  BY DEF Half, EntryOf
<1>3. ASSUME StackEnabled, NEW j \in sent', Observed(j)'
      PROVE  Half(tracker, j)' = task'[j].asset \/ \E k \in sent' : Base[k] = Base[j] /\ Handed(k)'
  <2>1. j \in sent /\ sent \subseteq sent' /\ Observed(j) /\ task'[j].asset = task[j].asset
    BY <1>3
  <2> QED
    BY <1>1, <1>2, <1>3, <2>1 DEF WaitInv
<1> QED
  BY <1>3 DEF WaitInv

\* Who observes a half either waits in the table or is handed the pair; a half of
\* another basename is not touched.
LEMMA ObserveKeepsWait ==
  ASSUME TypeOK, CountInv, PairInv, HandedInv, WaitInv, NEW j \in Job, ObserveAsset(j)
  PROVE  WaitInv'
<1> USE PipelineAssumption, NoAssetAssumption
<1> DEFINE old == EntryOf(tracker, Base[j])
           new == Place(old, Kind[j], task[j].asset)
<1>1. /\ task[j].pc = "observing" /\ task[j].asset \in Asset
      /\ task'[j].asset = task[j].asset /\ UNCHANGED sent
      /\ \A k \in Job : k # j => task'[k] = task[k]
  BY ObserveStep
<1>2. \/ Kind[j] \notin Stackable /\ tracker' = tracker
         /\ task'[j].pc = "done" /\ task'[j].pair = EmptyEntry
      \/ Kind[j] \in Stackable /\ Complete(new) /\ tracker' = Without(tracker, Base[j])
         /\ task'[j].pc = "checking" /\ task'[j].pair = new
      \/ Kind[j] \in Stackable /\ ~Complete(new) /\ tracker' = Store(tracker, Base[j], new)
         /\ task'[j].pc = "done" /\ task'[j].pair = EmptyEntry
  BY ObserveStep
<1>3. j \in sent /\ ~Handed(j) /\ old \in StackEntry /\ sent \subseteq Job
  BY <1>1, EntryOfType DEF CountInv, HandedInv, InFlight, TypeOK
<1>4. Kind[j] \in Stackable => (IF Kind[j] = "Jpeg" THEN new.jpeg ELSE new.raf) = task[j].asset
  <2> HIDE DEF old
  <2> QED
    BY <1>3, PlaceFills DEF Stackable
<1>5. \A k \in Job : k # j => Handed(k)' = Handed(k) /\ Observed(k)' = Observed(k)
  BY <1>1 DEF Handed, Observed
<1>6. \A k \in Job : Handed(k) => Handed(k)'
  BY <1>3, <1>5
<1> HIDE DEF new, old
<1>7. Kind[j] \in Stackable => \/ Handed(j)'
                              \/ tracker' = Store(tracker, Base[j], new)
  BY <1>2 DEF Handed, Complete, EmptyEntry
<1>8. ASSUME StackEnabled, NEW k \in sent, Observed(k)'
      PROVE  Half(tracker, k)' = task'[k].asset \/ \E l \in sent : Base[l] = Base[k] /\ Handed(l)'
  <2>1. CASE k = j
    <3>1. Kind[j] \in Stackable
      BY <1>8, <2>1 DEF Observed
    <3>2. CASE tracker' = Store(tracker, Base[j], new)
      <4>1. EntryOf(tracker', Base[j]) = new
        BY <3>2 DEF EntryOf, Store
      <4> QED
        BY <1>1, <1>4, <2>1, <3>1, <4>1 DEF Half
    <3> QED
      BY <1>3, <1>7, <2>1, <3>1, <3>2
  <2>2. CASE k # j /\ Base[k] # Base[j]
    <3>1. EntryOf(tracker', Base[k]) = EntryOf(tracker, Base[k])
      BY <1>2, <2>2 DEF EntryOf, Without, Store
    <3>2. Half(tracker, k)' = Half(tracker, k) /\ task'[k].asset = task[k].asset /\ Observed(k)
      BY <1>1, <1>3, <1>5, <1>8, <2>2, <3>1 DEF Half
    <3> QED
      BY <1>3, <1>6, <1>8, <3>2 DEF WaitInv
  <2>3. CASE k # j /\ Base[k] = Base[j]
    <3>1. Observed(k) /\ task'[k].asset = task[k].asset /\ ~SameSlot(j, k) /\ Kind[k] \in Stackable
      BY <1>1, <1>3, <1>5, <1>8, <2>3 DEF HandedInv, Observed
    <3>2. CASE \E l \in sent : Base[l] = Base[k] /\ Handed(l)
      BY <1>3, <1>6, <3>2
    <3>3. CASE Half(tracker, k) = task[k].asset
      <4>1. CASE Kind[j] \notin Stackable
        BY <1>2, <3>1, <3>3, <4>1 DEF Half, EntryOf
      <4>2. CASE Kind[j] \in Stackable
        <5>1. (IF Kind[k] = "Jpeg" THEN old.jpeg ELSE old.raf) = task[k].asset
          BY <2>3, <3>3 DEF Half, old
        <5>2. (IF Kind[k] = "Jpeg" THEN new.jpeg ELSE new.raf) = task[k].asset
          BY <1>3, <2>3, <3>1, <4>2, <5>1, PlaceFills DEF new, SameSlot, Stackable
        <5>3. Complete(new)
          BY <1>1, <1>4, <2>3, <3>1, <4>2, <5>2 DEF Complete, Observed, SameSlot, Stackable
        <5>4. Handed(j)'
          BY <1>2, <4>2, <5>3 DEF Handed, Complete, EmptyEntry
        <5> QED
          BY <1>3, <2>3, <5>4
      <4> QED
        BY <4>1, <4>2
    <3> QED
      BY <1>3, <1>8, <3>1, <3>2, <3>3 DEF WaitInv
  <2> QED
    BY <2>1, <2>2, <2>3
<1>9. \A k \in Job : task'[k].pc \in {"idle", "posting", "answered"} => task'[k].asset = NoAsset
  BY <1>1, <1>2 DEF WaitInv
<1> QED
  BY <1>1, <1>8, <1>9 DEF WaitInv

LEMMA WaitStep ==
  TypeOK /\ BarrierInv /\ CountInv /\ PairInv /\ HandedInv /\ WaitInv /\ [Next]_vars => WaitInv'
<1> SUFFICES ASSUME TypeOK, BarrierInv, CountInv, PairInv, HandedInv, WaitInv, [Next]_vars
             PROVE  WaitInv'
  OBVIOUS
<1>0. task \in [Job -> Task] /\ sent \subseteq Job
  BY DEF TypeOK
<1>a. \A j \in Job : task[j].pc \in {"idle", "posting", "answered"} => task[j].asset = NoAsset
  BY DEF WaitInv
<1>1. ASSUME NEW j \in Job, EnqueueUpload(j) \/ EnqueueKnown(j) PROVE WaitInv'
  <2>1. /\ task'[j].pair = task[j].pair /\ task'[j].pc = "queued" /\ sent' = sent \cup {j}
        /\ UNCHANGED tracker /\ \A k \in Job : k # j => task'[k] = task[k]
    BY <1>0, <1>1 DEF EnqueueUpload, EnqueueKnown, Task
  <2>2. ~Observed(j)' /\ \A k \in Job : k # j => Observed(k)' = Observed(k)
    BY <2>1 DEF Observed, Ended
  <2> QED
    BY <1>0, <1>a, <2>1, <2>2, QuietKeepsWait
<1>2. ASSUME UNCHANGED <<task, tracker>>, sent' \in {sent, {}} PROVE WaitInv'
  <2>1. \A j \in Job : Observed(j)' = Observed(j)
    BY <1>2 DEF Observed
  <2> QED
    BY <1>0, <1>a, <1>2, <2>1, QuietKeepsWait
<1>3. CASE EnqueueBarrier \/ TakeCount \/ Close \/ RecvBarrier \/ AckBarrier \/ RecvClosed \/ Return
           \/ UNCHANGED vars
  BY <1>2, <1>3
  DEF EnqueueBarrier, TakeCount, Close, RecvBarrier, AckBarrier, RecvClosed, Return, server, vars
<1>4. ASSUME NEW j \in Job, LateUpload(j) \/ LateStack(j) PROVE WaitInv'
  BY <1>2, <1>4 DEF LateUpload, LateStack
\* A step of one task, which has no asset then or had it and was observed.
<1>5. ASSUME NEW j \in Job, task'[j].pair = task[j].pair,
             \/ task'[j].asset = NoAsset
             \/ task'[j].pc = "observing"
             \/ task'[j].pc \in Ended /\ ~StackEnabled
             \/ /\ task[j].pc \in {"checking", "stacking"} /\ task'[j].asset = task[j].asset
                /\ task'[j].pc \in {"checking", "stacking"} \cup Ended,
             \A k \in Job : k # j => task'[k] = task[k],
             UNCHANGED <<tracker, sent>>
      PROVE  WaitInv'
  <2>1. StackEnabled /\ Observed(j)' => Observed(j) /\ task'[j].asset = task[j].asset
    BY <1>5 DEF Observed, Ended
  <2>2. task'[j].pc \in {"idle", "posting", "answered"} => task'[j].asset = NoAsset
    BY <1>5 DEF Ended
  <2>3. \A k \in Job : k # j => Observed(k)' = Observed(k)
    BY <1>5 DEF Observed
  <2> QED
    BY <1>0, <1>a, <1>5, <2>1, <2>2, <2>3, QuietKeepsWait
<1>6. ASSUME NEW j \in Job, Spawn(j) PROVE WaitInv'
  <2> DEFINE pc == IF task[j].asset = NoAsset THEN "posting"
                   ELSE IF StackEnabled THEN "observing" ELSE "done"
             n  == IF task[j].asset = NoAsset THEN 1 ELSE 0
  <2>1. task' = [task EXCEPT ![j].pc = pc, ![j].attempt = n] /\ UNCHANGED <<tracker, sent>>
    BY <1>6 DEF Spawn
  <2>2. \/ task[j].asset = NoAsset
        \/ pc = "observing"
        \/ pc \in Ended /\ ~StackEnabled
    BY DEF Ended
  <2> HIDE DEF pc, n
  <2>3. task'[j].asset = task[j].asset /\ task'[j].pair = task[j].pair /\ task'[j].pc = pc
        /\ \A k \in Job : k # j => task'[k] = task[k]
    BY <1>0, <2>1 DEF Task
  <2> QED
    BY <1>5, <2>1, <2>2, <2>3
<1>7. ASSUME NEW j \in Job, FailAttempt(j) PROVE WaitInv'
  <2>1. task'[j].pair = task[j].pair /\ task'[j].asset = task[j].asset
        /\ \A k \in Job : k # j => task'[k] = task[k]
    BY <1>0, <1>7 DEF FailAttempt, FailedAttempt, Task
  <2>2. task[j].asset = NoAsset /\ UNCHANGED <<tracker, sent>>
    BY <1>7, <1>a DEF FailAttempt
  <2> QED
    BY <1>5, <2>1, <2>2
<1>8. ASSUME NEW j \in Job, PanicOnErrorBody(j) PROVE WaitInv'
  <2>1. task'[j].pair = task[j].pair /\ task'[j].asset = task[j].asset /\ task'[j].pc = "panicked"
        /\ \A k \in Job : k # j => task'[k] = task[k]
    BY <1>0, <1>8 DEF PanicOnErrorBody, Task
  <2>2. task[j].asset = NoAsset \/ task[j].pc \in {"checking", "stacking"}
    BY <1>8, <1>a DEF PanicOnErrorBody
  <2>3. UNCHANGED <<tracker, sent>>
    BY <1>8 DEF PanicOnErrorBody, server
  <2> QED
    BY <1>5, <2>1, <2>2, <2>3 DEF Ended
<1>9. ASSUME NEW j \in Job, Receive(j) PROVE WaitInv'
  <2>1. task'[j].pair = task[j].pair /\ task'[j].pc = (IF StackEnabled THEN "observing" ELSE "done")
        /\ \A k \in Job : k # j => task'[k] = task[k]
    BY <1>0, <1>9 DEF Receive, Task
  <2> QED
    BY <1>5, <1>9, <2>1 DEF Receive, server, Ended
<1>10. ASSUME NEW j \in Job, Serve(j) PROVE WaitInv'
  <2>1. PICK o : task' = [task EXCEPT ![j].pc = "answered", ![j].outcome = o]
    BY <1>10 DEF Serve
  <2>2. task'[j].pair = task[j].pair /\ task'[j].asset = task[j].asset
        /\ \A k \in Job : k # j => task'[k] = task[k]
    BY <1>0, <2>1 DEF Task
  <2>3. task[j].asset = NoAsset /\ UNCHANGED <<tracker, sent>>
    BY <1>10, <1>a DEF Serve
  <2> QED
    BY <1>5, <2>2, <2>3
<1>11. ASSUME NEW j \in Job, ObserveAsset(j) PROVE WaitInv'
  BY <1>11, ObserveKeepsWait
<1>12. ASSUME NEW j \in Job, CheckStack(j) \/ CreateStack(j) PROVE WaitInv'
  <2>1. task'[j].pair = task[j].pair /\ task'[j].asset = task[j].asset
        /\ task[j].pc \in {"checking", "stacking"} /\ task'[j].pc \in {"stacking"} \cup Ended
        /\ \A k \in Job : k # j => task'[k] = task[k]
    BY <1>0, <1>12, CheckOrCreate DEF Ended
  <2>2. UNCHANGED <<tracker, sent>>
    BY <1>12 DEF CheckStack, CreateStack, server
  <2> QED
    BY <1>5, <2>1, <2>2
<1> QED
  BY <1>1, <1>3, <1>4, <1>6, <1>7, <1>8, <1>9, <1>10, <1>11, <1>12
  DEF Next, CameraStep, RunStep, TaskStep, ServerStep, Terminated

LEMMA WaitAlways == ASSUME ~CardRepeats PROVE Spec => []WaitInv
<1>1. Init => WaitInv
  BY WaitInit
<1>2. TypeOK /\ BarrierInv /\ CountInv /\ PairInv /\ HandedInv /\ WaitInv /\ [Next]_vars => WaitInv'
  BY WaitStep
<1> QED
  BY <1>1, <1>2, TypeCorrect, BarrierAlways, CountAlways, PairAlways, HandedAlways, PTL DEF Spec

\* At the ack, of two halves of a basename that both have their assets one task was
\* handed a pair and the other was not.
OneIsHanded ==
  cam = "acked" /\ StackEnabled =>
    \A j, r \in sent :
      Kind[j] = "Jpeg" /\ Kind[r] = "Raf" /\ Base[j] = Base[r]
        /\ task[j].asset # NoAsset /\ task[r].asset # NoAsset
      => (Handed(j) /\ ~Handed(r)) \/ (Handed(r) /\ ~Handed(j))

LEMMA HandedByInv ==
  ASSUME TypeOK, NothingPendingWhenAnswered, TableHoldsHalfPairs, HandedInv, WaitInv
  PROVE  OneIsHanded
<1> SUFFICES ASSUME cam = "acked", StackEnabled, NEW j \in sent, NEW r \in sent,
                    Kind[j] = "Jpeg", Kind[r] = "Raf", Base[j] = Base[r],
                    task[j].asset # NoAsset, task[r].asset # NoAsset
             PROVE  (Handed(j) /\ ~Handed(r)) \/ (Handed(r) /\ ~Handed(j))
  BY DEF OneIsHanded
<1>0. j \in Job /\ r \in Job /\ j # r /\ sent \subseteq Job
  BY DEF TypeOK
<1>1. Observed(j) /\ Observed(r)
  BY <1>0 DEF NothingPendingWhenAnswered, WaitInv, Observed, Stackable
<1>2. ~(Handed(j) /\ Handed(r))
  BY <1>0 DEF HandedInv
<1>3. ASSUME ~Handed(j), ~Handed(r) PROVE FALSE
  <2>1. \A k \in sent : Base[k] = Base[j] => ~Handed(k)
    BY <1>0, <1>3 DEF HandedInv, SameSlot, Stackable
  <2>2. Half(tracker, j) = task[j].asset /\ Half(tracker, r) = task[r].asset
    BY <1>1, <2>1 DEF WaitInv
  <2>3. EntryOf(tracker, Base[j]).jpeg # NoAsset /\ EntryOf(tracker, Base[j]).raf # NoAsset
    BY <2>2 DEF Half
  <2> QED
    BY <2>3 DEF EntryOf, EmptyEntry, TableHoldsHalfPairs
<1> QED
  BY <1>2, <1>3

\* The sessions of a process meet the same photo under a name.
SamePhotos == \A j, k \in Job : SameSlot(j, k) => Sha[j] = Sha[k]

\* What is handed over is the pair itself.
LEMMA HandedIsWhole ==
  ASSUME TypeOK, PairInv, SamePhotos, NEW j \in Job, NEW r \in Job, NEW k \in {j, r},
         Kind[j] = "Jpeg", Kind[r] = "Raf", Base[j] = Base[r],
         task[j].asset # NoAsset, task[r].asset # NoAsset, Handed(k)
  PROVE  task[k].pair = [jpeg |-> task[j].asset, raf |-> task[r].asset]
<1>1. WholePair(Base[j], task[k].pair) /\ task[k].pair \in StackEntry
  BY DEF PairInv, Handed, TypeOK, Task
<1>2. Names(Base[j], "Jpeg", task[j].asset) /\ Names(Base[j], "Raf", task[r].asset)
  BY DEF PairInv
<1>3. \A a, b : /\ Names(Base[j], "Jpeg", a) /\ Names(Base[j], "Jpeg", b) => a = b
                /\ Names(Base[j], "Raf", a) /\ Names(Base[j], "Raf", b) => a = b
  BY DEF Names, SamePhotos, SameSlot
<1>4. task[k].pair.jpeg = task[j].asset /\ task[k].pair.raf = task[r].asset
  BY <1>1, <1>2, <1>3 DEF WholePair
<1> QED
  BY <1>1, <1>4 DEF StackEntry

\* Of two halves observed in one session exactly one task is handed a pair, also when
\* an earlier session left a half of the name in the table: that the session sends
\* each name once is enough, the photos need not be the same ones.
THEOREM OneAlwaysHanded == ASSUME ~CardRepeats PROVE Spec => []OneIsHanded
<1>1. TypeOK /\ NothingPendingWhenAnswered /\ TableHoldsHalfPairs /\ HandedInv /\ WaitInv => OneIsHanded
  BY HandedByInv
<1> QED
  BY <1>1, TypeCorrect, BarrierDrainsAll, TableKeepsHalves, HandedAlways, WaitAlways, PTL

\* Whichever half ends first, and over all sessions that meet the same photos, the
\* tracker hands each pair that was observed whole to exactly one of the two tasks.
THEOREM PairsAlwaysHanded ==
  ASSUME ~CardRepeats, SamePhotos PROVE Spec => []EveryPairHandedOnce
<1>1. TypeOK /\ PairInv /\ OneIsHanded => EveryPairHandedOnce
  <2> SUFFICES ASSUME TypeOK, PairInv, OneIsHanded, cam = "acked", StackEnabled,
                      NEW j \in sent, NEW r \in sent,
                      Kind[j] = "Jpeg", Kind[r] = "Raf", Base[j] = Base[r],
                      task[j].asset # NoAsset, task[r].asset # NoAsset
               PROVE  (task[j].pair = [jpeg |-> task[j].asset, raf |-> task[r].asset])
                        # (task[r].pair = [jpeg |-> task[j].asset, raf |-> task[r].asset])
    BY DEF EveryPairHandedOnce
  <2> DEFINE whole == [jpeg |-> task[j].asset, raf |-> task[r].asset]
  <2>1. j \in Job /\ r \in Job
    BY DEF TypeOK
  <2>2. \A k \in {j, r} : Handed(k) => task[k].pair = whole
    BY <2>1, HandedIsWhole
  <2>3. \A k \in {j, r} : ~Handed(k) => task[k].pair # whole
    BY DEF Handed, EmptyEntry
  <2>4. (Handed(j) /\ ~Handed(r)) \/ (Handed(r) /\ ~Handed(j))
    BY DEF OneIsHanded
  <2> QED
    BY <2>2, <2>3, <2>4
<1> QED
  BY <1>1, TypeCorrect, PairAlways, OneAlwaysHanded, PTL
=============================================================================
