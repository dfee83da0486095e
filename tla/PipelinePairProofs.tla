------------------------- MODULE PipelinePairProofs -------------------------
(* Stacks join photos of one basename, and a JPEG is stacked once.          *)
EXTENDS PipelineCountProofs

-----------------------------------------------------------------------------
(* One sighting in the table.                                               *)

\* Placing an id fills its own slot and leaves the other.
LEMMA PlaceFills ==
  ASSUME NEW e \in StackEntry, NEW kind \in Stackable, NEW id
  PROVE  /\ kind = "Jpeg" => Place(e, kind, id) = [jpeg |-> id, raf |-> e.raf]
         /\ kind = "Raf"  => Place(e, kind, id) = [jpeg |-> e.jpeg, raf |-> id]
BY DEF StackEntry, Stackable, Place

LEMMA EntryOfType ==
  ASSUME NEW table, NEW base, table \in [DOMAIN table -> StackEntry]
  PROVE  EntryOf(table, base) \in StackEntry
BY DEF EntryOf, EmptyEntry, StackEntry

\* What ObserveAsset(j) does, whichever way the sighting goes.
LEMMA ObserveStep ==
  ASSUME TypeOK, PairInv, NEW j \in Job, ObserveAsset(j)
  PROVE  /\ task[j].pc = "observing" /\ task[j].asset \in Asset
         /\ task'[j].asset = task[j].asset
         /\ UNCHANGED <<stats, sent, library, stacks, late, created>>
         /\ \A k \in Job : k # j => task'[k] = task[k]
         /\ LET old == EntryOf(tracker, Base[j])
                new == Place(old, Kind[j], task[j].asset)
            IN  \/ /\ Kind[j] \notin Stackable /\ tracker' = tracker
                   /\ task'[j].pc = "done" /\ task'[j].pair = EmptyEntry
                \/ /\ Kind[j] \in Stackable /\ Complete(new)
                   /\ tracker' = Without(tracker, Base[j])
                   /\ task'[j].pc = "checking" /\ task'[j].pair = new
                \/ /\ Kind[j] \in Stackable /\ ~Complete(new)
                   /\ tracker' = Store(tracker, Base[j], new)
                   /\ task'[j].pc = "done" /\ task'[j].pair = EmptyEntry
<1> DEFINE seen == Observe(tracker, Base[j], Kind[j], task[j].asset)
<1>1. task[j].pc = "observing" /\ UNCHANGED <<stats, sent, library, stacks, late, created>>
  BY DEF ObserveAsset, server
<1>2. task[j] \in Task /\ task[j].asset \in Asset
  BY <1>1 DEF TypeOK, Task, PairInv
<1>3. task' = [task EXCEPT ![j].pair = seen.pair,
                           ![j].pc = IF seen.decision = "Stack" THEN "checking" ELSE "done"]
      /\ tracker' = seen.table
  BY DEF ObserveAsset
<1> HIDE DEF seen
<1>4. /\ task'[j].asset = task[j].asset /\ task'[j].pair = seen.pair
      /\ task'[j].pc = IF seen.decision = "Stack" THEN "checking" ELSE "done"
      /\ \A k \in Job : k # j => task'[k] = task[k]
  BY <1>2, <1>3 DEF TypeOK, Task
<1> DEFINE old == EntryOf(tracker, Base[j])
           new == Place(old, Kind[j], task[j].asset)
<1>5. \/ /\ Kind[j] \notin Stackable /\ seen.table = tracker
         /\ seen.decision # "Stack" /\ seen.pair = EmptyEntry
      \/ /\ Kind[j] \in Stackable /\ Complete(new) /\ seen.table = Without(tracker, Base[j])
         /\ seen.decision = "Stack" /\ seen.pair = new
      \/ /\ Kind[j] \in Stackable /\ ~Complete(new) /\ seen.table = Store(tracker, Base[j], new)
         /\ seen.decision # "Stack" /\ seen.pair = EmptyEntry
  BY DEF seen, Observe
<1> HIDE DEF old, new
<1>6. \/ /\ Kind[j] \notin Stackable /\ tracker' = tracker
         /\ task'[j].pc = "done" /\ task'[j].pair = EmptyEntry
      \/ /\ Kind[j] \in Stackable /\ Complete(new) /\ tracker' = Without(tracker, Base[j])
         /\ task'[j].pc = "checking" /\ task'[j].pair = new
      \/ /\ Kind[j] \in Stackable /\ ~Complete(new) /\ tracker' = Store(tracker, Base[j], new)
         /\ task'[j].pc = "done" /\ task'[j].pair = EmptyEntry
  BY <1>3, <1>4, <1>5
<1>7. task'[j].asset = task[j].asset /\ \A k \in Job : k # j => task'[k] = task[k]
  BY <1>4
<1> QED
  BY <1>1, <1>2, <1>6, <1>7, Zenon DEF old, new

-----------------------------------------------------------------------------
(* The table holds half pairs only.                                         *)

LEMMA HalfPairsStep ==
  TypeOK /\ PairInv /\ TableHoldsHalfPairs /\ [Next]_vars => TableHoldsHalfPairs'
<1> SUFFICES ASSUME TypeOK, PairInv, TableHoldsHalfPairs, [Next]_vars PROVE TableHoldsHalfPairs'
  OBVIOUS
<1>1. ASSUME UNCHANGED tracker PROVE TableHoldsHalfPairs'
  BY <1>1 DEF TableHoldsHalfPairs
<1>2. ASSUME NEW j \in Job, ObserveAsset(j) PROVE TableHoldsHalfPairs'
  <2> DEFINE old == EntryOf(tracker, Base[j])
             new == Place(old, Kind[j], task[j].asset)
  <2>1. task[j].asset \in Asset
    BY <1>2, ObserveStep
  <2>2. \/ tracker' = tracker
        \/ tracker' = Without(tracker, Base[j])
        \/ Kind[j] \in Stackable /\ ~Complete(new) /\ tracker' = Store(tracker, Base[j], new)
    BY <1>2, ObserveStep
  <2>3. old \in StackEntry
    BY EntryOfType DEF TypeOK
  <2>4. CASE tracker' = Without(tracker, Base[j])
    BY <2>4 DEF Without, TableHoldsHalfPairs
  <2>5. CASE Kind[j] \in Stackable /\ ~Complete(new) /\ tracker' = Store(tracker, Base[j], new)
    <3> HIDE DEF old
    <3>1. new \in {[jpeg |-> task[j].asset, raf |-> old.raf], [jpeg |-> old.jpeg, raf |-> task[j].asset]}
      BY <2>3, <2>5, PlaceFills DEF Stackable
    <3>2. (new.jpeg = NoAsset) # (new.raf = NoAsset)
      BY <2>1, <2>5, <3>1, NoAssetAssumption DEF Complete
    <3> HIDE DEF new
    <3> QED
      BY <2>5, <3>2 DEF Store, TableHoldsHalfPairs
  <2> QED
    BY <1>1, <2>2, <2>4, <2>5
<1>3. ASSUME NEW j \in Job, ServerStep(j) \/ FailAttempt(j) \/ PanicOnErrorBody(j)
                             \/ Receive(j) \/ CheckStack(j) \/ CreateStack(j)
      PROVE  TableHoldsHalfPairs'
  BY <1>1, <1>3 DEF ServerStep, Serve, LateUpload, LateStack, FailAttempt, PanicOnErrorBody,
                    Receive, CheckStack, CreateStack
<1>4. CASE CameraStep
  BY <1>1, <1>4 DEF CameraStep, EnqueueUpload, EnqueueKnown, EnqueueBarrier, TakeCount, Close
<1>5. CASE RunStep
  BY <1>1, <1>5 DEF RunStep, Spawn, RecvBarrier, AckBarrier, RecvClosed, Return
<1>6. CASE UNCHANGED vars
  BY <1>1, <1>6 DEF vars
<1> QED
  BY <1>1, <1>2, <1>3, <1>4, <1>5, <1>6 DEF Next, TaskStep, Terminated

-----------------------------------------------------------------------------
(* Every id is filed under its own basename.                                *)

LEMMA PairInit == Init => PairInv
BY DEF Init, PairInv, NewTask, Stacking, EmptyTable

LEMMA RestKeepsPairInv ==
  ASSUME PairInv, UNCHANGED <<task, tracker>>, late' \subseteq late,
         \A s \in stacks' : s \in stacks \/ \E b \in Basename : WholePair(b, s.pair)
  PROVE  PairInv'
<1>1. \A s \in stacks' : \E b \in Basename : WholePair(b, s.pair)
  BY DEF PairInv
<1> QED
  BY <1>1 DEF PairInv, Stacking

\* A step of j that keeps the table and the stacks, and gives j no id but its own.
LEMMA OneTaskKeepsPairInv ==
  ASSUME PairInv, NEW j \in Job, task[j].pc \notin Ended,
         task'[j].asset # NoAsset => Names(Base[j], Kind[j], task'[j].asset),
         task'[j].pair = task[j].pair,
         task'[j].pc = "observing" => task'[j].asset # NoAsset,
         task'[j].pc \in {"checking", "stacking"} => Stacking(j),
         \A k \in Job : k # j => task'[k] = task[k],
         UNCHANGED <<tracker, stacks>>, late' \subseteq late \cup {<<j, "upload">>}
  PROVE  PairInv'
<1>1. \A k \in Job : <<k, "stack">> \in late' => <<k, "stack">> \in late /\ k # j
  BY DEF PairInv
<1> QED
  BY <1>1 DEF PairInv, Stacking, WholePair, Names

LEMMA PairStep == TypeOK /\ BarrierInv /\ PairInv /\ [Next]_vars => PairInv'
<1> SUFFICES ASSUME TypeOK, BarrierInv, PairInv, [Next]_vars PROVE PairInv'
  OBVIOUS
<1> USE PipelineAssumption, NoAssetAssumption
<1>0. task \in [Job -> Task]
  BY DEF TypeOK
<1>a. \A j \in Job : task[j].asset # NoAsset => Names(Base[j], Kind[j], task[j].asset)
  BY DEF PairInv
<1>1. ASSUME NEW j \in Job, EnqueueUpload(j) PROVE PairInv'
  <2>1. task'[j].asset = task[j].asset /\ task'[j].pair = task[j].pair /\ task'[j].pc = "queued"
        /\ \A k \in Job : k # j => task'[k] = task[k]
    BY <1>0, <1>1 DEF EnqueueUpload, Task
  <2> QED
    BY <1>1, <1>a, <2>1, OneTaskKeepsPairInv DEF EnqueueUpload, MaySend, Ended
<1>2. ASSUME NEW j \in Job, EnqueueKnown(j) PROVE PairInv'
  <2>1. PICK k \in Job : SameSlot(j, k)
                         /\ task' = [task EXCEPT ![j].pc = "queued", ![j].asset = Sha[k]]
    BY <1>2 DEF EnqueueKnown
  <2>2. task'[j].asset = Sha[k] /\ task'[j].pair = task[j].pair /\ task'[j].pc = "queued"
        /\ \A l \in Job : l # j => task'[l] = task[l]
    BY <1>0, <2>1 DEF Task
  <2>3. Names(Base[j], Kind[j], Sha[k])
    BY <2>1 DEF Names, SameSlot
  <2> QED
    BY <1>2, <2>2, <2>3, OneTaskKeepsPairInv DEF EnqueueKnown, MaySend, Ended
<1>3. CASE EnqueueBarrier \/ TakeCount \/ Close \/ RecvBarrier \/ AckBarrier \/ RecvClosed \/ Return
  BY <1>3, RestKeepsPairInv
  DEF EnqueueBarrier, TakeCount, Close, RecvBarrier, AckBarrier, RecvClosed, Return, server
<1>4. ASSUME NEW j \in Job, Spawn(j) PROVE PairInv'
  <2>1. task[j].pc = "queued"
    BY <1>4, SpawnTakesQueued
  <2>2. task'[j].asset = task[j].asset /\ task'[j].pair = task[j].pair
        /\ task'[j].pc \in {"posting", "observing", "done"}
        /\ (task'[j].pc = "observing" => task[j].asset # NoAsset)
        /\ \A k \in Job : k # j => task'[k] = task[k]
    <3> DEFINE pc == IF task[j].asset = NoAsset THEN "posting"
                     ELSE IF StackEnabled THEN "observing" ELSE "done"
               n  == IF task[j].asset = NoAsset THEN 1 ELSE 0
    <3>1. task' = [task EXCEPT ![j].pc = pc, ![j].attempt = n]
      BY <1>4 DEF Spawn
    <3>2. pc \in {"posting", "observing", "done"} /\ (pc = "observing" => task[j].asset # NoAsset)
      OBVIOUS
    <3> HIDE DEF pc, n
    <3> QED
      BY <1>0, <3>1, <3>2 DEF Task
  <2>3. UNCHANGED <<tracker, stacks, late>>
    BY <1>4 DEF Spawn, server
  <2>4. task[j].pc \notin Ended /\ task'[j].pc \notin {"checking", "stacking"}
    BY <2>1, <2>2 DEF Ended
  <2> QED
    BY <1>a, <2>2, <2>3, <2>4, OneTaskKeepsPairInv
<1>5. ASSUME NEW j \in Job, FailAttempt(j) PROVE PairInv'
  <2>1. task'[j].asset = task[j].asset /\ task'[j].pair = task[j].pair
        /\ task'[j].pc \in {"posting", "failed"}
        /\ \A k \in Job : k # j => task'[k] = task[k]
    BY <1>0, <1>5 DEF FailAttempt, FailedAttempt, Task
  <2>2. task[j].pc \notin Ended /\ UNCHANGED <<tracker, stacks>>
        /\ late' \subseteq late \cup {<<j, "upload">>}
    BY <1>5 DEF FailAttempt, Ended
  <2> QED
    BY <1>a, <2>1, <2>2, OneTaskKeepsPairInv
<1>6. ASSUME NEW j \in Job, PanicOnErrorBody(j) PROVE PairInv'
  <2>1. task'[j].asset = task[j].asset /\ task'[j].pair = task[j].pair /\ task'[j].pc = "panicked"
        /\ \A k \in Job : k # j => task'[k] = task[k]
    BY <1>0, <1>6 DEF PanicOnErrorBody, Task
  <2>2. task[j].pc \notin Ended /\ UNCHANGED <<tracker, stacks>>
        /\ late' \subseteq late \cup {<<j, "upload">>}
    BY <1>6 DEF PanicOnErrorBody, Ended
  <2> QED
    BY <1>a, <2>1, <2>2, OneTaskKeepsPairInv
<1>7. ASSUME NEW j \in Job, Receive(j) PROVE PairInv'
  <2>1. task'[j].asset = Sha[j] /\ task'[j].pair = task[j].pair
        /\ task'[j].pc \in {"observing", "done"}
        /\ \A k \in Job : k # j => task'[k] = task[k]
    BY <1>0, <1>7 DEF Receive, Task
  <2>2. Names(Base[j], Kind[j], Sha[j]) /\ Sha[j] # NoAsset
    BY DEF Names
  <2> QED
    BY <1>7, <2>1, <2>2, OneTaskKeepsPairInv DEF Receive, server, Ended
<1>8. ASSUME NEW j \in Job, CheckStack(j) PROVE PairInv'
  <2>1. task'[j].asset = task[j].asset /\ task'[j].pair = task[j].pair
        /\ task[j].pc = "checking" /\ task'[j].pc \in {"failed", "done", "stacking"}
        /\ \A k \in Job : k # j => task'[k] = task[k]
    BY <1>0, <1>8 DEF CheckStack, Task
  <2> QED
    BY <1>8, <1>a, <2>1, OneTaskKeepsPairInv DEF CheckStack, server, Ended, Stacking
<1>9. ASSUME NEW j \in Job, Serve(j) PROVE PairInv'
  <2>1. PICK o : task' = [task EXCEPT ![j].pc = "answered", ![j].outcome = o]
    BY <1>9 DEF Serve
  <2>2. task'[j].asset = task[j].asset /\ task'[j].pair = task[j].pair /\ task'[j].pc = "answered"
        /\ \A k \in Job : k # j => task'[k] = task[k]
    BY <1>0, <2>1 DEF Task
  <2> QED
    BY <1>9, <1>a, <2>2, OneTaskKeepsPairInv DEF Serve, Ended
<1>10. ASSUME NEW j \in Job, LateUpload(j) PROVE PairInv'
  BY <1>10, RestKeepsPairInv DEF LateUpload
<1>11. ASSUME NEW j \in Job, ObserveAsset(j) PROVE PairInv'
  <2> DEFINE old == EntryOf(tracker, Base[j])
             new == Place(old, Kind[j], task[j].asset)
  <2>1. /\ task[j].pc = "observing" /\ task[j].asset \in Asset
        /\ task'[j].asset = task[j].asset
        /\ UNCHANGED <<stacks, late>>
        /\ \A k \in Job : k # j => task'[k] = task[k]
    BY <1>11, ObserveStep
  <2>2. \/ tracker' = tracker /\ task'[j].pc = "done" /\ task'[j].pair = EmptyEntry
        \/ /\ Kind[j] \in Stackable /\ Complete(new) /\ tracker' = Without(tracker, Base[j])
           /\ task'[j].pc = "checking" /\ task'[j].pair = new
        \/ /\ Kind[j] \in Stackable /\ tracker' = Store(tracker, Base[j], new)
           /\ task'[j].pc = "done" /\ task'[j].pair = EmptyEntry
    BY <1>11, ObserveStep
  <2>3. <<j, "stack">> \notin late
    BY <2>1 DEF PairInv, Ended
  <2>4. old \in StackEntry
    BY EntryOfType DEF TypeOK
  <2>5. /\ old.jpeg # NoAsset => Names(Base[j], "Jpeg", old.jpeg)
        /\ old.raf # NoAsset => Names(Base[j], "Raf", old.raf)
    BY DEF PairInv, EntryOf, EmptyEntry
  <2>6. Names(Base[j], Kind[j], task[j].asset)
    BY <1>a, <2>1
  <2>7. Kind[j] \in Stackable =>
          /\ new.jpeg # NoAsset => Names(Base[j], "Jpeg", new.jpeg)
          /\ new.raf # NoAsset => Names(Base[j], "Raf", new.raf)
    <3> HIDE DEF old
    <3>1. CASE Kind[j] = "Jpeg"
      <4>1. new.jpeg = task[j].asset /\ new.raf = old.raf
        BY <2>4, <3>1, PlaceFills DEF Stackable
      <4> QED
        BY <2>5, <2>6, <3>1, <4>1
    <3>2. CASE Kind[j] = "Raf"
      <4>1. new.jpeg = old.jpeg /\ new.raf = task[j].asset
        BY <2>4, <3>2, PlaceFills DEF Stackable
      <4> QED
        BY <2>5, <2>6, <3>2, <4>1
    <3> QED
      BY <3>1, <3>2 DEF Stackable
  <2> HIDE DEF new
  <2>8. \A b \in DOMAIN tracker' :
          /\ tracker'[b].jpeg # NoAsset => Names(b, "Jpeg", tracker'[b].jpeg)
          /\ tracker'[b].raf # NoAsset => Names(b, "Raf", tracker'[b].raf)
    BY <2>2, <2>7 DEF PairInv, Store, Without
  <2>9. task'[j].pair # EmptyEntry => WholePair(Base[j], task'[j].pair)
    BY <2>2, <2>7 DEF Complete, WholePair
  <2>10. task'[j].pc = "checking" => task'[j].pair # EmptyEntry
    BY <2>2 DEF Complete, EmptyEntry
  <2> QED
    <3>1. \A k \in Job : task'[k].pair # EmptyEntry => WholePair(Base[k], task'[k].pair)
      BY <2>1, <2>2, <2>3, <2>9 DEF PairInv
    <3> HIDE DEF WholePair, Names
    <3> QED
      BY <2>1, <2>2, <2>3, <2>8, <2>10, <3>1, <1>a DEF PairInv, Stacking
<1>12. ASSUME NEW j \in Job, CreateStack(j) PROVE PairInv'
  <2>1. task'[j].asset = task[j].asset /\ task'[j].pair = task[j].pair
        /\ task[j].pc = "stacking" /\ task'[j].pc \in {"done", "panicked"}
        /\ \A k \in Job : k # j => task'[k] = task[k]
    BY <1>0, <1>12 DEF CreateStack, Task
  <2>2. task[j].pair # EmptyEntry /\ WholePair(Base[j], task[j].pair)
    BY <2>1 DEF PairInv, Stacking
  <2>3. late' \subseteq late \cup {<<j, "stack">>} /\ stacks' \subseteq stacks \cup {StackOf(j, TRUE)}
        /\ UNCHANGED tracker
    BY <1>12 DEF CreateStack
  <2>4. \A s \in stacks' : \E b \in Basename : WholePair(b, s.pair)
    BY <2>2, <2>3 DEF PairInv, StackOf
  <2> QED
    BY <1>a, <2>1, <2>2, <2>3, <2>4 DEF PairInv, Stacking, WholePair, Names, Ended
<1>13. ASSUME NEW j \in Job, LateStack(j) PROVE PairInv'
  <2>1. task[j].pair # EmptyEntry /\ WholePair(Base[j], task[j].pair)
    BY <1>13 DEF LateStack, PairInv
  <2>2. stacks' = stacks \cup {StackOf(j, FALSE)} /\ UNCHANGED <<task, tracker>> /\ late' \subseteq late
    BY <1>13 DEF LateStack
  <2>3. \A s \in stacks' : \E b \in Basename : WholePair(b, s.pair)
    BY <2>1, <2>2 DEF PairInv, StackOf
  <2> QED
    BY <2>2, <2>3, RestKeepsPairInv
<1>14. CASE UNCHANGED vars
  BY <1>14, RestKeepsPairInv DEF vars
<1> QED
  BY <1>1, <1>2, <1>3, <1>4, <1>5, <1>6, <1>7, <1>8, <1>9, <1>10, <1>11, <1>12, <1>13, <1>14
  DEF Next, CameraStep, RunStep, TaskStep, ServerStep, Terminated

LEMMA PairAlways == Spec => []PairInv
<1>1. Init => PairInv
  BY PairInit
<1>2. TypeOK /\ BarrierInv /\ PairInv /\ [Next]_vars => PairInv'
  BY PairStep
<1> QED
  BY <1>1, <1>2, TypeCorrect, BarrierAlways, PTL DEF Spec

\* Whatever order the tasks observe their assets in, and over all sessions, a stack
\* joins the JPEG and the RAF of one basename, the JPEG as its primary.
THEOREM StacksJoinNamesakes == Spec => []StacksPairNamesakes
<1>1. TypeOK /\ PairInv => StacksPairNamesakes
  <2> SUFFICES ASSUME TypeOK, PairInv, NEW s \in stacks
               PROVE  \E j, r \in Job :
                        /\ Kind[j] = "Jpeg" /\ Kind[r] = "Raf" /\ Base[j] = Base[r]
                        /\ s.pair = [jpeg |-> Sha[j], raf |-> Sha[r]]
    BY DEF StacksPairNamesakes
  <2>1. PICK b \in Basename : WholePair(b, s.pair)
    BY DEF PairInv
  <2>2. PICK j \in Job : Base[j] = b /\ Kind[j] = "Jpeg" /\ Sha[j] = s.pair.jpeg
    BY <2>1 DEF WholePair, Names
  <2>3. PICK r \in Job : Base[r] = b /\ Kind[r] = "Raf" /\ Sha[r] = s.pair.raf
    BY <2>1 DEF WholePair, Names
  <2>4. s.pair \in StackEntry
    BY DEF TypeOK, Stack
  <2>5. s.pair = [jpeg |-> Sha[j], raf |-> Sha[r]]
    BY <2>2, <2>3, <2>4 DEF StackEntry
  <2> QED
    BY <2>2, <2>3, <2>5
<1> QED
  BY <1>1, TypeCorrect, PairAlways, PTL

\* The table keeps half pairs only: what it holds is bounded by the unpaired photos.
THEOREM TableKeepsHalves == Spec => []TableHoldsHalfPairs
<1>1. Init => TableHoldsHalfPairs
  BY DEF Init, TableHoldsHalfPairs, EmptyTable
<1>2. TypeOK /\ PairInv /\ TableHoldsHalfPairs /\ [Next]_vars => TableHoldsHalfPairs'
  BY HalfPairsStep
<1> QED
  BY <1>1, <1>2, TypeCorrect, PairAlways, PTL DEF Spec

-----------------------------------------------------------------------------
(* An id names an asset that the server has.                                *)

LEMMA StoredInit == Init => StoredInv
BY DEF Init, StoredInv, NewTask, EmptyEntry, EmptyTable, Ids

LEMMA RestKeepsStored ==
  ASSUME StoredInv, UNCHANGED <<task, tracker, stacks>>, library \subseteq library'
  PROVE  StoredInv'
BY DEF StoredInv

\* A step of j that keeps the table, the stacks and j's pair.
LEMMA OneTaskKeepsStored ==
  ASSUME StoredInv, NEW j \in Job,
         task'[j].pair = task[j].pair,
         task'[j].pc = "answered" => Sha[j] \in library',
         task'[j].asset # NoAsset => task'[j].asset \in library',
         task'[j].pc \in {"observing", "checking", "stacking", "done"}
           => task'[j].asset # NoAsset,
         \A k \in Job : k # j => task'[k] = task[k],
         UNCHANGED <<tracker, stacks>>, library \subseteq library'
  PROVE  StoredInv'
<1> HIDE DEF Ids
<1>1. \A k \in Job : task'[k].pc = "answered" => Sha[k] \in library'
  BY DEF StoredInv
<1>2. \A k \in Job : task'[k].asset # NoAsset => task'[k].asset \in library'
  BY DEF StoredInv
<1>3. \A k \in Job : task'[k].pc \in {"observing", "checking", "stacking", "done"}
                       => task'[k].asset # NoAsset
  BY DEF StoredInv
<1>4. \A k \in Job : Ids(task'[k].pair) \subseteq library'
  BY DEF StoredInv
<1> QED
  BY <1>1, <1>2, <1>3, <1>4 DEF StoredInv

\* ObserveAsset(j) moves j's own id and those of an entry into the table or a pair.
LEMMA ObserveKeepsStored ==
  ASSUME TypeOK, PairInv, StoredInv, NEW j \in Job, ObserveAsset(j)
  PROVE  StoredInv'
<1> DEFINE old == EntryOf(tracker, Base[j])
           new == Place(old, Kind[j], task[j].asset)
<1>1. /\ task[j].pc = "observing" /\ task[j].asset \in Asset
      /\ task'[j].asset = task[j].asset
      /\ UNCHANGED <<stacks, library>>
      /\ \A k \in Job : k # j => task'[k] = task[k]
  BY ObserveStep
<1>2. \/ tracker' = tracker /\ task'[j].pc = "done" /\ task'[j].pair = EmptyEntry
      \/ /\ Kind[j] \in Stackable /\ tracker' = Without(tracker, Base[j])
         /\ task'[j].pc = "checking" /\ task'[j].pair = new
      \/ /\ Kind[j] \in Stackable /\ tracker' = Store(tracker, Base[j], new)
         /\ task'[j].pc = "done" /\ task'[j].pair = EmptyEntry
  BY ObserveStep
<1>3. old \in StackEntry
  BY EntryOfType DEF TypeOK
<1>4. Ids(old) \subseteq library
  BY DEF StoredInv, EntryOf, EmptyEntry, Ids
<1>5. task[j].asset \in library /\ task[j].asset # NoAsset
  BY <1>1 DEF StoredInv
<1>6. Kind[j] \in Stackable => Ids(new) \subseteq library
  <2> HIDE DEF old
  <2>1. Kind[j] \in Stackable =>
          new \in {[jpeg |-> task[j].asset, raf |-> old.raf],
                   [jpeg |-> old.jpeg, raf |-> task[j].asset]}
    BY <1>3, PlaceFills DEF Stackable
  <2> QED
    BY <1>4, <1>5, <2>1 DEF Ids
<1>7. Ids(EmptyEntry) = {}
  BY DEF Ids, EmptyEntry
<1> HIDE DEF new, old, Ids
<1>8. \A b \in DOMAIN tracker' : Ids(tracker'[b]) \subseteq library
  BY <1>2, <1>6 DEF StoredInv, Store, Without
<1>9. \A k \in Job : Ids(task'[k].pair) \subseteq library
  BY <1>1, <1>2, <1>6, <1>7 DEF StoredInv
<1> QED
  BY <1>1, <1>2, <1>5, <1>8, <1>9 DEF StoredInv

LEMMA StoredStep == TypeOK /\ BarrierInv /\ PairInv /\ StoredInv /\ [Next]_vars => StoredInv'
<1> SUFFICES ASSUME TypeOK, BarrierInv, PairInv, StoredInv, [Next]_vars PROVE StoredInv'
  OBVIOUS
<1> USE PipelineAssumption, NoAssetAssumption
<1>0. task \in [Job -> Task]
  BY DEF TypeOK
<1>a. \A j \in Job : task[j].asset # NoAsset => task[j].asset \in library
  BY DEF StoredInv
<1>1. ASSUME NEW j \in Job, EnqueueUpload(j) PROVE StoredInv'
  <2>1. task'[j].asset = task[j].asset /\ task'[j].pair = task[j].pair /\ task'[j].pc = "queued"
        /\ \A k \in Job : k # j => task'[k] = task[k]
    BY <1>0, <1>1 DEF EnqueueUpload, Task
  <2> QED
    BY <1>1, <1>a, <2>1, OneTaskKeepsStored DEF EnqueueUpload
<1>2. ASSUME NEW j \in Job, EnqueueKnown(j) PROVE StoredInv'
  <2>1. PICK k \in Job : Sha[k] \in library
                         /\ task' = [task EXCEPT ![j].pc = "queued", ![j].asset = Sha[k]]
    BY <1>2 DEF EnqueueKnown
  <2>2. task'[j].asset = Sha[k] /\ task'[j].pair = task[j].pair /\ task'[j].pc = "queued"
        /\ \A l \in Job : l # j => task'[l] = task[l]
    BY <1>0, <2>1 DEF Task
  <2>3. UNCHANGED <<tracker, stacks, library>>
    BY <1>2 DEF EnqueueKnown
  <2>4. task'[j].asset \in library' /\ task'[j].pc \notin {"answered", "observing", "checking",
                                                         "stacking", "done"}
    BY <2>1, <2>2, <2>3
  <2> QED
    BY <2>2, <2>3, <2>4, OneTaskKeepsStored
<1>3. CASE EnqueueBarrier \/ TakeCount \/ Close \/ RecvBarrier \/ AckBarrier \/ RecvClosed \/ Return
  BY <1>3, RestKeepsStored
  DEF EnqueueBarrier, TakeCount, Close, RecvBarrier, AckBarrier, RecvClosed, Return, server
<1>4. ASSUME NEW j \in Job, Spawn(j) PROVE StoredInv'
  <2> DEFINE pc == IF task[j].asset = NoAsset THEN "posting"
                   ELSE IF StackEnabled THEN "observing" ELSE "done"
             n  == IF task[j].asset = NoAsset THEN 1 ELSE 0
  <2>1. task' = [task EXCEPT ![j].pc = pc, ![j].attempt = n]
    BY <1>4 DEF Spawn
  <2>2. pc \in {"posting", "observing", "done"} /\ (pc # "posting" => task[j].asset # NoAsset)
    OBVIOUS
  <2> HIDE DEF pc, n
  <2>3. task'[j].asset = task[j].asset /\ task'[j].pair = task[j].pair /\ task'[j].pc = pc
        /\ \A k \in Job : k # j => task'[k] = task[k]
    BY <1>0, <2>1 DEF Task
  <2>4. UNCHANGED <<tracker, stacks, library>>
    BY <1>4 DEF Spawn, server
  <2> QED
    BY <1>a, <2>2, <2>3, <2>4, OneTaskKeepsStored
<1>5. ASSUME NEW j \in Job, FailAttempt(j) PROVE StoredInv'
  <2>1. task'[j].asset = task[j].asset /\ task'[j].pair = task[j].pair
        /\ task'[j].pc \in {"posting", "failed"}
        /\ \A k \in Job : k # j => task'[k] = task[k]
    BY <1>0, <1>5 DEF FailAttempt, FailedAttempt, Task
  <2> QED
    BY <1>5, <1>a, <2>1, OneTaskKeepsStored DEF FailAttempt
<1>6. ASSUME NEW j \in Job, PanicOnErrorBody(j) PROVE StoredInv'
  <2>1. task'[j].asset = task[j].asset /\ task'[j].pair = task[j].pair /\ task'[j].pc = "panicked"
        /\ \A k \in Job : k # j => task'[k] = task[k]
    BY <1>0, <1>6 DEF PanicOnErrorBody, Task
  <2>2. UNCHANGED <<tracker, stacks, library>>
    BY <1>6 DEF PanicOnErrorBody
  <2> QED
    BY <1>a, <2>1, <2>2, OneTaskKeepsStored
<1>7. ASSUME NEW j \in Job, Receive(j) PROVE StoredInv'
  <2>1. task'[j].asset = Sha[j] /\ task'[j].pair = task[j].pair
        /\ task'[j].pc \in {"observing", "done"}
        /\ \A k \in Job : k # j => task'[k] = task[k]
    BY <1>0, <1>7 DEF Receive, Task
  <2>2. Sha[j] \in library /\ Sha[j] # NoAsset
    BY <1>7 DEF Receive, StoredInv
  <2>3. UNCHANGED <<tracker, stacks, library>>
    BY <1>7 DEF Receive, server
  <2> QED
    BY <2>1, <2>2, <2>3, OneTaskKeepsStored
<1>8. ASSUME NEW j \in Job, CheckStack(j) PROVE StoredInv'
  <2>1. task'[j].asset = task[j].asset /\ task'[j].pair = task[j].pair
        /\ task[j].pc = "checking" /\ task'[j].pc \in {"failed", "done", "stacking"}
        /\ \A k \in Job : k # j => task'[k] = task[k]
    BY <1>0, <1>8 DEF CheckStack, Task
  <2>2. task[j].asset # NoAsset
    BY <2>1 DEF StoredInv
  <2> QED
    BY <1>8, <1>a, <2>1, <2>2, OneTaskKeepsStored DEF CheckStack, server
<1>9. ASSUME NEW j \in Job, Serve(j) PROVE StoredInv'
  <2>1. PICK o : task' = [task EXCEPT ![j].pc = "answered", ![j].outcome = o]
    BY <1>9 DEF Serve
  <2>2. task'[j].asset = task[j].asset /\ task'[j].pair = task[j].pair /\ task'[j].pc = "answered"
        /\ \A k \in Job : k # j => task'[k] = task[k]
    BY <1>0, <2>1 DEF Task
  <2>3. library' = library \cup {Sha[j]} /\ UNCHANGED <<tracker, stacks>>
    BY <1>9 DEF Serve, Ingest
  <2> QED
    BY <1>a, <2>2, <2>3, OneTaskKeepsStored
<1>10. ASSUME NEW j \in Job, LateUpload(j) PROVE StoredInv'
  BY <1>10, RestKeepsStored DEF LateUpload, Ingest
<1>11. ASSUME NEW j \in Job, ObserveAsset(j) PROVE StoredInv'
  BY <1>11, ObserveKeepsStored
<1>12. ASSUME NEW j \in Job, CreateStack(j) PROVE StoredInv'
  <2>1. task'[j].asset = task[j].asset /\ task'[j].pair = task[j].pair
        /\ task[j].pc = "stacking" /\ task'[j].pc \in {"done", "panicked"}
        /\ \A k \in Job : k # j => task'[k] = task[k]
    BY <1>0, <1>12 DEF CreateStack, Task
  <2>2. task[j].asset # NoAsset
    BY <2>1 DEF StoredInv
  <2>3. stacks' \subseteq stacks \cup {StackOf(j, TRUE)} /\ UNCHANGED <<tracker, library>>
    BY <1>12 DEF CreateStack
  <2> HIDE DEF Ids
  <2>4. \A s \in stacks' : Ids(s.pair) \subseteq library
    BY <2>3 DEF StoredInv, StackOf
  <2>5. \A k \in Job : Ids(task'[k].pair) \subseteq library
    BY <2>1 DEF StoredInv
  <2> QED
    BY <2>1, <2>2, <2>3, <2>4, <2>5 DEF StoredInv
<1>13. ASSUME NEW j \in Job, LateStack(j) PROVE StoredInv'
  <2>1. stacks' = stacks \cup {StackOf(j, FALSE)} /\ UNCHANGED <<task, tracker, library>>
    BY <1>13 DEF LateStack
  <2> HIDE DEF Ids
  <2>2. \A s \in stacks' : Ids(s.pair) \subseteq library
    BY <2>1 DEF StoredInv, StackOf
  <2> QED
    BY <2>1, <2>2 DEF StoredInv
<1>14. CASE UNCHANGED vars
  BY <1>14, RestKeepsStored DEF vars
<1> QED
  BY <1>1, <1>2, <1>3, <1>4, <1>5, <1>6, <1>7, <1>8, <1>9, <1>10, <1>11, <1>12, <1>13, <1>14
  DEF Next, CameraStep, RunStep, TaskStep, ServerStep, Terminated

LEMMA StoredAlways == Spec => []StoredInv
<1>1. Init => StoredInv
  BY StoredInit
<1>2. TypeOK /\ BarrierInv /\ PairInv /\ StoredInv /\ [Next]_vars => StoredInv'
  BY StoredStep
<1> QED
  BY <1>1, <1>2, TypeCorrect, BarrierAlways, PairAlways, PTL DEF Spec

\* A task ends well, and a stack is made, only of photos that the server holds, whatever
\* answers, refusals and late requests came before.
THEOREM IdsAlwaysStored == Spec => []IdsAreStored
<1>1. PairInv /\ StoredInv => IdsAreStored
  <2> SUFFICES ASSUME PairInv, StoredInv PROVE IdsAreStored
    OBVIOUS
  <2>1. \A j \in Job : task[j].pc = "done" => task[j].asset \in library
    BY DEF StoredInv
  <2>2. ASSUME NEW s \in stacks PROVE {s.pair.jpeg, s.pair.raf} \subseteq library
    <3>1. PICK b \in Basename : WholePair(b, s.pair)
      BY DEF PairInv
    <3>2. s.pair.jpeg # NoAsset /\ s.pair.raf # NoAsset
      BY <3>1, PipelineAssumption, NoAssetAssumption DEF WholePair, Names
    <3> QED
      BY <3>2 DEF StoredInv, Ids
  <2> QED
    BY <2>1, <2>2 DEF IdsAreStored
<1> QED
  BY <1>1, PairAlways, StoredAlways, PTL

\* A task that a step leads to "failed" came there from its last attempt, or from the
\* check for a stack.
LEMMA HowTasksFail ==
  ASSUME TypeOK, BarrierInv, [Next]_vars, NEW j \in Job, task'[j].pc = "failed"
  PROVE  \/ task'[j] = task[j]
         \/ task'[j].attempt = UploadMaxAttempts
         \/ task[j].pc = "checking" /\ task'[j].asset = task[j].asset
<1>0. task \in [Job -> Task]
  BY DEF TypeOK
<1>1. ASSUME NEW k \in Job, EnqueueUpload(k) \/ EnqueueKnown(k) PROVE task'[j] = task[j]
  BY <1>0, <1>1 DEF EnqueueUpload, EnqueueKnown, Task
<1>2. ASSUME NEW k \in Job, Spawn(k) PROVE task'[j] = task[j]
  <2>1. \E pc \in {"posting", "observing", "done"}, n \in {0, 1} :
          task' = [task EXCEPT ![k].pc = pc, ![k].attempt = n]
    BY <1>2 DEF Spawn
  <2> QED
    BY <1>0, <2>1 DEF Task
<1>3. ASSUME NEW k \in Job, FailAttempt(k)
      PROVE  task'[j] = task[j] \/ task'[j].attempt = UploadMaxAttempts
  BY <1>0, <1>3 DEF FailAttempt, FailedAttempt, Task
<1>4. ASSUME NEW k \in Job, CheckStack(k)
      PROVE  task'[j] = task[j] \/ (task[j].pc = "checking" /\ task'[j].asset = task[j].asset)
  BY <1>0, <1>4 DEF CheckStack, Task
<1>5. ASSUME NEW k \in Job, PanicOnErrorBody(k) \/ CreateStack(k) PROVE task'[j] = task[j]
  BY <1>0, <1>5 DEF PanicOnErrorBody, CreateStack, Task
<1>6. ASSUME NEW k \in Job, Receive(k) PROVE task'[j] = task[j]
  <2>1. \E pc \in {"observing", "done"} : task' = [task EXCEPT ![k].asset = Sha[k], ![k].pc = pc]
    BY <1>6 DEF Receive
  <2> QED
    BY <1>0, <2>1 DEF Task
<1>7. ASSUME NEW k \in Job, ObserveAsset(k) PROVE task'[j] = task[j]
  <2> DEFINE seen == Observe(tracker, Base[k], Kind[k], task[k].asset)
             pc   == IF seen.decision = "Stack" THEN "checking" ELSE "done"
  <2>1. task' = [task EXCEPT ![k].pair = seen.pair, ![k].pc = pc]
    BY <1>7 DEF ObserveAsset
  <2>2. pc # "failed"
    OBVIOUS
  <2> HIDE DEF seen, pc
  <2> QED
    BY <1>0, <2>1, <2>2 DEF Task
<1>8. ASSUME NEW k \in Job, Serve(k) PROVE task'[j] = task[j]
  <2>1. \E o : task' = [task EXCEPT ![k].pc = "answered", ![k].outcome = o]
    BY <1>8 DEF Serve
  <2> QED
    BY <1>0, <2>1 DEF Task
<1>9. ASSUME UNCHANGED task PROVE task'[j] = task[j]
  BY <1>9
<1> QED
  BY <1>1, <1>2, <1>3, <1>4, <1>5, <1>6, <1>7, <1>8, <1>9
  DEF Next, CameraStep, RunStep, TaskStep, ServerStep, Terminated, vars, EnqueueBarrier, TakeCount,
      Close, RecvBarrier, AckBarrier, RecvClosed, Return, LateUpload, LateStack

\* upload_with_retry (src/pipeline.rs) gives a photo up only after UPLOAD_MAX_ATTEMPTS
\* attempts, for any limit and whatever came of the attempts.
THEOREM GivenUpAlwaysAfterAll == Spec => []GivenUpAfterAllAttempts
<1>1. Init => GivenUpAfterAllAttempts
  BY DEF Init, NewTask, GivenUpAfterAllAttempts
<1>2. TypeOK /\ BarrierInv /\ StoredInv /\ GivenUpAfterAllAttempts /\ [Next]_vars
        => GivenUpAfterAllAttempts'
  <2> SUFFICES ASSUME TypeOK, BarrierInv, StoredInv, GivenUpAfterAllAttempts, [Next]_vars,
                      NEW j \in Job, task'[j].pc = "failed", task'[j].asset = NoAsset
               PROVE  task'[j].attempt = UploadMaxAttempts
    BY DEF GivenUpAfterAllAttempts
  <2>1. task[j].pc = "checking" => task[j].asset # NoAsset
    BY DEF StoredInv
  <2> QED
    BY <2>1, HowTasksFail DEF GivenUpAfterAllAttempts
<1> QED
  BY <1>1, <1>2, TypeCorrect, BarrierAlways, StoredAlways, PTL DEF Spec
=============================================================================
