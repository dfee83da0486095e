-------------------------- MODULE CameraLoopProofs --------------------------
(* Theorems about CameraLoop, for any set of ports.                         *)
EXTENDS CameraLoop, TLAPS

Cycle == [connected : Nat, failed : Nat, synced : Nat, afterEmpty : BOOLEAN]

\* What was shown in the cycle is remembered under the port in hand, and while an
\* attempt is under way the cycle has what the attempt may still add.
PopupInv ==
  /\ cycle.connected <= 1 /\ cycle.failed <= 1 /\ cycle.synced <= 1
  /\ cycle.connected = 1 => notifiedFor = port
  /\ cycle.failed = 1 => notifiedFor = port
  /\ cycle.synced = 1 => alreadySynced = port
  /\ loop = "opening" /\ first => cycle.connected = 0
  /\ loop \in Busy /\ first => cycle.failed = 0
  /\ loop \in {"syncing", "ending"} /\ first => notifiedFor = port
  /\ loop \in Busy => cycle.synced = 0 /\ port # NoPort

LEMMA CycleFields ==
  ASSUME NEW c \in Cycle
  PROVE  /\ [c EXCEPT !.connected = @ + 1] \in Cycle
         /\ [c EXCEPT !.failed = @ + 1] \in Cycle
         /\ [c EXCEPT !.synced = @ + 1] \in Cycle
BY DEF Cycle

LEMMA NewCycleType == ASSUME NEW e \in BOOLEAN PROVE NewCycle(e) \in Cycle
BY DEF NewCycle, Cycle

LEMMA TypeInit == Init => TypeOK
BY NewCycleType DEF Init, TypeOK, OptionalPort, Busy, Cycle

LEMMA TypeStep == TypeOK /\ [Next]_vars => TypeOK'
<1> SUFFICES ASSUME TypeOK, [Next]_vars PROVE TypeOK'
  OBVIOUS
<1> USE DEF OptionalPort, Busy, session, memory
<1>0. cycle \in Cycle /\ \A p : CycleOf(p) \in Cycle
  BY NewCycleType DEF TypeOK, Cycle, CycleOf
<1>1. CASE World
  BY <1>1 DEF World, Plug, Unplug, Signal, TypeOK
<1>2. CASE NoCamera
  BY <1>2, NewCycleType DEF NoCamera, Poll, Forget, TypeOK, Cycle
<1>3. CASE StillSynced \/ Detect
  BY <1>0, <1>3 DEF StillSynced, Detect, Poll, TypeOK, Cycle
<1>4. CASE Open \/ SettleOk \/ SettleError
  BY <1>0, <1>4, CycleFields DEF Open, SettleOk, SettleError, TypeOK, Cycle
<1>5. CASE ListFails \/ OpenFails \/ EndSession \/ Wake \/ Exit
  BY <1>5 DEF ListFails, Poll, OpenFails, EndSession, Wake, Exit, TypeOK
<1>6. CASE UNCHANGED vars
  BY <1>6 DEF vars, TypeOK
<1> QED
  BY <1>1, <1>2, <1>3, <1>4, <1>5, <1>6 DEF Next, LoopStep, Exited

\* Every reachable state of the loop is well typed.
THEOREM TypeCorrect == Spec => []TypeOK
<1>1. Init => TypeOK
  BY TypeInit
<1>2. TypeOK /\ [Next]_vars => TypeOK'
  BY TypeStep
<1> QED
  BY <1>1, <1>2, PTL DEF Spec

LEMMA PopupInit == Init => PopupInv
BY DEF Init, PopupInv, NewCycle, Busy

LEMMA PopupStep == TypeOK /\ PopupInv /\ [Next]_vars => PopupInv'
<1> SUFFICES ASSUME TypeOK, PopupInv, [Next]_vars PROVE PopupInv'
  OBVIOUS
<1> USE DEF Busy, session, memory
<1>0. cycle \in Cycle
  BY DEF TypeOK, Cycle
<1>1. CASE World \/ UNCHANGED vars
  BY <1>1 DEF World, Plug, Unplug, Signal, vars, PopupInv
<1>2. CASE NoCamera
  BY <1>2 DEF NoCamera, Poll, NewCycle, PopupInv
<1>3. CASE StillSynced
  BY <1>0, <1>3 DEF StillSynced, Poll, CycleOf, NewCycle, PopupInv
<1>4. CASE Detect
  <2>1. CASE plugged = port
    <3>1. /\ port' = port /\ cycle' = cycle /\ loop' = "opening" /\ first' = (notifiedFor # port)
          /\ port \notin {NoPort, alreadySynced} /\ UNCHANGED <<alreadySynced, notifiedFor>>
      BY <1>4, <2>1 DEF Detect, CycleOf
    <3>2. /\ cycle.connected \in Nat /\ cycle.failed \in Nat /\ cycle.synced \in Nat
      BY <1>0 DEF Cycle
    <3>3. /\ cycle.synced = 0
          /\ notifiedFor # port => cycle.connected = 0 /\ cycle.failed = 0
      BY <3>1, <3>2 DEF PopupInv
    <3> QED
      BY <3>1, <3>3 DEF PopupInv
  <2>2. CASE plugged # port
    BY <1>4, <2>2 DEF Detect, Poll, CycleOf, NewCycle, PopupInv
  <2> QED
    BY <2>1, <2>2
<1>5. CASE Open
  <2>1. CASE first
    <3>1. cycle' = [cycle EXCEPT !.connected = @ + 1] /\ notifiedFor' = port
          /\ loop = "opening" /\ loop' = "syncing" /\ UNCHANGED <<alreadySynced, port, first>>
      BY <1>5, <2>1 DEF Open
    <3>2. cycle'.connected = cycle.connected + 1 /\ cycle'.failed = cycle.failed
          /\ cycle'.synced = cycle.synced
      BY <1>0, <3>1 DEF Cycle
    <3> QED
      BY <1>0, <2>1, <3>1, <3>2 DEF PopupInv, Cycle
  <2>2. CASE ~first
    BY <1>5, <2>2 DEF Open, PopupInv
  <2> QED
    BY <2>1, <2>2
<1>6. CASE SettleOk
  <2>1. cycle'.synced = cycle.synced + 1 /\ cycle'.connected = cycle.connected
        /\ cycle'.failed = cycle.failed
    BY <1>0, <1>6 DEF SettleOk, Cycle
  <2> QED
    BY <1>0, <1>6, <2>1 DEF SettleOk, PopupInv, Cycle
<1>7. CASE SettleError
  <2>1. CASE first
    <3>1. cycle'.failed = cycle.failed + 1 /\ cycle'.connected = cycle.connected
          /\ cycle'.synced = cycle.synced
      BY <1>0, <1>7, <2>1 DEF SettleError, Cycle
    <3> QED
      BY <1>0, <1>7, <2>1, <3>1 DEF SettleError, PopupInv, Cycle
  <2>2. CASE ~first
    BY <1>7, <2>2 DEF SettleError, PopupInv
  <2> QED
    BY <2>1, <2>2
<1>8. CASE ListFails \/ OpenFails \/ EndSession \/ Wake \/ Exit
  BY <1>8 DEF ListFails, Poll, OpenFails, EndSession, Wake, Exit, PopupInv
<1> QED
  BY <1>1, <1>2, <1>3, <1>4, <1>5, <1>6, <1>7, <1>8 DEF Next, LoopStep, Exited

LEMMA PopupAlways == Spec => []PopupInv
<1>1. Init => PopupInv
  BY PopupInit
<1>2. TypeOK /\ PopupInv /\ [Next]_vars => PopupInv'
  BY PopupStep
<1> QED
  BY <1>1, <1>2, TypeCorrect, PTL DEF Spec

\* However often a session fails and is retried, a plug-in cycle has one "Camera
\* connected" and one "Sync failed".
THEOREM PopupsOncePerCycle == Spec => []OnePopupPerCycle
<1>1. PopupInv => OnePopupPerCycle
  BY DEF PopupInv, OnePopupPerCycle
<1> QED
  BY <1>1, PopupAlways, PTL

\* A camera is synced once per plug-in cycle.
THEOREM SyncedOncePerCycle == Spec => []OneSyncPerCycle
<1>1. PopupInv => OneSyncPerCycle
  BY DEF PopupInv, OneSyncPerCycle
<1> QED
  BY <1>1, PopupAlways, PTL
=============================================================================
