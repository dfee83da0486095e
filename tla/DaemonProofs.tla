---------------------------- MODULE DaemonProofs ----------------------------
(* Theorems about Daemon, for any set of ports and messages.  A step of the *)
(* process is a step of CameraLoop or none, or a new process begins, so     *)
(* what was proved of the loop carries over; RestInv joins the loop to the  *)
(* conversation with the pipeline.                                          *)
EXTENDS Daemon, CameraLoopProofs

Asking == {"waiting", "answered"}

\* The camera task asks for the barrier exactly while it ends a session; when it is not
\* in a session, and when the pipeline has answered or finished, nothing is pending.
RestInv ==
  /\ process = "starting" => camera = "starting"
  /\ camera = "starting" => loop = "polling" /\ phase = "open" /\ pending = {}
  /\ camera = "running" => (loop = "ending" <=> phase \in Asking)
  /\ camera = "running" /\ phase \in {"closed", "finished"} => loop = "exited"
  /\ camera \in {"failed", "panicked"} => phase \notin Asking
  /\ camera = "running" /\ loop \notin {"syncing", "ending"} => pending = {}
  /\ phase \in {"answered", "finished"} => pending = {}
  /\ process = "exited" => phase = "finished"

DInv == DTypeOK /\ PopupInv /\ RestInv

-----------------------------------------------------------------------------
(* The steps, sorted by what they leave alone.                             *)


\* Each step of the process is one of the loop, or none, or the start of a new process.
LEMMA StepOfLoop == TypeOK /\ [DNext]_dvars => [Next]_vars \/ Init'
<1> SUFFICES ASSUME TypeOK, [DNext]_dvars PROVE [Next]_vars \/ Init'
  OBVIOUS
<1> USE DEF task, pipeline
<1>1. CASE StartFails \/ Launch \/ DropSender \/ Return \/ OpenContext \/ SessionPanics
  BY <1>1 DEF StartFails, Launch, DropSender, Return, OpenContext, SessionPanics, vars
<1>2. CASE Watch \/ AskBarrier \/ Settle
  BY <1>2 DEF Watch, AskBarrier, Settle, Next, LoopStep
<1>3. CASE SendJob \/ (\E j \in Job : PipelineSettles(j)) \/ PipelineAnswers \/ PipelineEnds \/ Kill
  BY <1>3 DEF SendJob, PipelineSettles, PipelineAnswers, PipelineEnds, Kill, vars
<1>4. CASE Hands
  BY <1>4 DEF Hands, Next, World
<1>5. CASE Arm \/ Stop
  BY <1>5 DEF Arm, Stop, Next, World, vars
<1>6. CASE StartByHand \/ Restart
  BY <1>6 DEF StartByHand, Restart, StartAgain, Init, TypeOK
<1>7. CASE UNCHANGED dvars
  BY <1>7 DEF dvars, vars
<1> QED
  BY <1>1, <1>2, <1>3, <1>4, <1>5, <1>6, <1>7 DEF DNext, CameraStep, Outside

\* The loop's part of the invariant.
LEMMA LoopPart == TypeOK /\ PopupInv /\ [DNext]_dvars => TypeOK' /\ PopupInv'
<1> SUFFICES ASSUME TypeOK, PopupInv, [DNext]_dvars PROVE TypeOK' /\ PopupInv'
  OBVIOUS
<1>1. CASE [Next]_vars
  BY <1>1, TypeStep, PopupStep
<1>2. CASE Init'
  <2>1. Init' => TypeOK'
    BY TypeInit, PTL
  <2>2. Init' => PopupInv'
    BY PopupInit, PTL
  <2> QED
    BY <1>2, <2>1, <2>2
<1> QED
  BY <1>1, <1>2, StepOfLoop

-----------------------------------------------------------------------------
LEMMA DTypeInit == DInit => DTypeOK
BY TypeInit DEF DInit, DTypeOK, P!Init, P!BTypeOK, P!Phase

LEMMA DTypeStep == DTypeOK /\ PopupInv /\ [DNext]_dvars => DTypeOK'
<1> SUFFICES ASSUME DTypeOK, PopupInv, [DNext]_dvars PROVE DTypeOK'
  OBVIOUS
<1>0. TypeOK'
  BY LoopPart DEF DTypeOK
<1> USE <1>0 DEF DTypeOK, task, pipeline, P!BTypeOK, P!Phase
<1>1. CASE StartFails \/ Launch \/ Arm \/ Return \/ OpenContext \/ SessionPanics
  BY <1>1 DEF StartFails, Launch, Arm, Return, OpenContext, SessionPanics
<1>2. CASE Watch \/ Kill
  BY <1>2 DEF Watch, Kill
<1>3. CASE DropSender \/ AskBarrier \/ Settle
  BY <1>3 DEF DropSender, AskBarrier, Settle, P!Close, P!Ask, P!Resume, P!Move
<1>4. CASE SendJob \/ (\E j \in Job : PipelineSettles(j))
  BY <1>4 DEF SendJob, PipelineSettles, P!Accept, P!Settle
<1>5. CASE PipelineAnswers \/ PipelineEnds
  BY <1>5 DEF PipelineAnswers, PipelineEnds, P!Answer, P!Finish, P!Move
<1>6. CASE Hands \/ Stop
  BY <1>6 DEF Hands, Stop
<1>7. CASE StartByHand \/ Restart
  BY <1>7 DEF StartByHand, Restart, StartAgain
<1>8. CASE UNCHANGED dvars
  BY <1>8 DEF dvars
<1> QED
  BY <1>1, <1>2, <1>3, <1>4, <1>5, <1>6, <1>7, <1>8 DEF DNext, CameraStep, Outside

LEMMA RestInit == DInit => RestInv
BY DEF DInit, Init, P!Init, RestInv, Asking

LEMMA RestStep == DTypeOK /\ RestInv /\ [DNext]_dvars => RestInv'
<1> SUFFICES ASSUME DTypeOK, RestInv, [DNext]_dvars PROVE RestInv'
  OBVIOUS
<1> USE DEF task, pipeline, Asking
<1>1. CASE StartFails \/ Launch \/ Kill
  BY <1>1 DEF StartFails, Launch, Kill, RestInv
<1>2. CASE DropSender
  BY <1>2 DEF DropSender, SenderDropped, Gone, Up, P!Close, P!Move, RestInv
<1>3. CASE Return
  BY <1>3 DEF Return, BothEnded, Gone, Up, RestInv
<1>4. CASE OpenContext
  BY <1>4 DEF OpenContext, Up, RestInv
<1>5. CASE Watch
  <2>1. /\ camera = "running" /\ UNCHANGED <<process, camera, phase, pending>>
        /\ loop \notin {"syncing", "ending", "exited"} /\ loop' # "ending"
    BY <1>5 DEF Watch, Alive, ListFails, NoCamera, StillSynced, Detect, Poll, OpenFails, Open,
                Wake, Exit
  <2> QED
    BY <2>1 DEF RestInv
<1>6. CASE SendJob
  BY <1>6 DEF SendJob, Alive, Up, P!Accept, RestInv
<1>7. CASE AskBarrier
  BY <1>7 DEF AskBarrier, Alive, Up, EndSession, P!Ask, P!Move, RestInv
<1>8. CASE Settle
  <2>1. /\ camera = "running" /\ UNCHANGED <<process, camera, pending>> /\ process = "running"
        /\ phase = "answered" /\ phase' = "open" /\ loop' \in {"polling", "sleeping"}
    BY <1>8 DEF Settle, Alive, Up, SettleOk, SettleError, P!Resume, P!Move
  <2> QED
    BY <2>1 DEF RestInv
<1>9. CASE SessionPanics
  BY <1>9 DEF SessionPanics, Alive, Up, RestInv
<1>10. CASE \E j \in Job : PipelineSettles(j)
  <2>1. /\ pending # {} /\ UNCHANGED <<process, camera, loop, phase>>
    BY <1>10 DEF PipelineSettles, P!Settle
  <2> QED
    BY <2>1 DEF RestInv
<1>11. CASE PipelineAnswers \/ PipelineEnds
  BY <1>11 DEF PipelineAnswers, PipelineEnds, Up, P!Answer, P!Finish, P!Move, RestInv
<1>12. CASE Hands
  BY <1>12 DEF Hands, Plug, Unplug, RestInv
<1>13. CASE Arm \/ Stop
  BY <1>13 DEF Arm, Stop, Signal, vars, RestInv
<1>14. CASE StartByHand \/ Restart
  BY <1>14 DEF StartByHand, Restart, StartAgain, RestInv
<1>15. CASE UNCHANGED dvars
  BY <1>15 DEF dvars, RestInv
<1> QED
  BY <1>1, <1>2, <1>3, <1>4, <1>5, <1>6, <1>7, <1>8, <1>9, <1>10, <1>11, <1>12, <1>13, <1>14,
     <1>15 DEF DNext, CameraStep, Outside

LEMMA DInvAlways == DSpec => []DInv
<1>1. DInit => DInv
  BY DTypeInit, PopupInit, RestInit DEF DInv, DInit
<1>2. DInv /\ [DNext]_dvars => DInv'
  BY DTypeStep, LoopPart, RestStep DEF DInv, DTypeOK
<1> QED
  BY <1>1, <1>2, PTL DEF DSpec

-----------------------------------------------------------------------------
\* Every reachable state of the process is well typed.
THEOREM DaemonTypeCorrect == DSpec => []DTypeOK
<1>1. DInv => DTypeOK
  BY DEF DInv
<1> QED
  BY <1>1, DInvAlways, PTL

\* A process that ends with status 0 leaves nothing pending, however its camera task ended.
THEOREM ExitAlwaysDrains == DSpec => []ExitDrains
<1>1. DInv => ExitDrains
  BY DEF DInv, RestInv, ExitDrains
<1> QED
  BY <1>1, DInvAlways, PTL

\* Outside its sessions the camera task never has a message pending in the pipeline.
THEOREM IdleAlwaysDrained == DSpec => []IdleIsDrained
<1>1. DInv => IdleIsDrained
  BY DEF DInv, RestInv, IdleIsDrained, Alive
<1> QED
  BY <1>1, DInvAlways, PTL

\* Popups and syncs stay at one per plug-in cycle when the loop runs in the process, with
\* sessions that panic, crashes and restarts.
THEOREM OncePerCycleInProcess == DSpec => [](OnePopupPerCycle /\ OneSyncPerCycle)
<1>1. DInv => OnePopupPerCycle /\ OneSyncPerCycle
  BY DEF DInv, PopupInv, OnePopupPerCycle, OneSyncPerCycle
<1> QED
  BY <1>1, DInvAlways, PTL
=============================================================================
