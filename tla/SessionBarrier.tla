--------------------------- MODULE SessionBarrier ---------------------------
(***************************************************************************)
(* What the upload pipeline promises the camera task, with the channel,    *)
(* the retries and the server left out.  Jobs are accepted and later       *)
(* settled (well or badly) in any order; the barrier that ends a session   *)
(* is answered, and the pipeline finishes, only when nothing is pending.   *)
(***************************************************************************)
CONSTANT Job

VARIABLES phase,     \* where the conversation with the camera task stands
          pending,   \* jobs accepted and not yet settled
          settled    \* jobs that ended

bvars == <<phase, pending, settled>>

Phase == {"open", "waiting", "answered", "closed", "finished"}

BTypeOK == /\ phase \in Phase
           /\ pending \subseteq Job
           /\ settled \subseteq Job

Init == phase = "open" /\ pending = {} /\ settled = {}

Accept(j) == /\ phase = "open"
             /\ j \notin pending \cup settled
             /\ pending' = pending \cup {j}
             /\ UNCHANGED <<phase, settled>>

Settle(j) == /\ j \in pending
             /\ pending' = pending \ {j}
             /\ settled' = settled \cup {j}
             /\ UNCHANGED phase

Move(from, to) == phase = from /\ phase' = to /\ UNCHANGED <<pending, settled>>

Ask    == Move("open", "waiting")
Answer == pending = {} /\ Move("waiting", "answered")
Resume == Move("answered", "open")
Close  == Move("open", "closed")
Finish == pending = {} /\ Move("closed", "finished")

Next == \/ \E j \in Job : Accept(j) \/ Settle(j)
        \/ Ask \/ Answer \/ Resume \/ Close \/ Finish

Safety   == Init /\ [][Next]_bvars
Fairness == /\ \A j \in Job : WF_bvars(Settle(j))
            /\ WF_bvars(Answer)
            /\ WF_bvars(Finish)
Spec     == Safety /\ Fairness
=============================================================================
