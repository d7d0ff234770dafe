---------------------------- MODULE RunLifecycle ----------------------------
(***************************************************************************)
(* What the owner of a run may rely on, whatever happens to processes,     *)
(* queues and leases: the status GET /runs/{run_id} shows moves only along *)
(* these steps, and a resume key buys at most one attempt.                 *)
(***************************************************************************)
CONSTANTS Run, Key, Outcome

VARIABLES
    view,           \* the status shown for each run
    used            \* the resume keys that bought an attempt of it

Init ==
    /\ view = [r \in Run |-> "absent"]
    /\ used = [r \in Run |-> {}]

Accept(r) ==
    /\ view[r] = "absent"
    /\ view' = [view EXCEPT ![r] = "queued"]
    /\ UNCHANGED used

Begin(r) ==
    /\ view[r] = "queued"
    /\ view' = [view EXCEPT ![r] = "running"]
    /\ UNCHANGED used

Finish(r, outcome) ==
    /\ view[r] = "running"
    /\ view' = [view EXCEPT ![r] = outcome]
    /\ UNCHANGED used

\* The service could not deliver the run, or its resumption, to a worker.
Abandon(r) ==
    /\ view[r] \in {"queued", "running", "interrupted"}
    /\ view' = [view EXCEPT ![r] = "abandoned"]
    /\ UNCHANGED used

\* Leases of several runs may run out at the same instant.
Lapse(S) ==
    /\ \A r \in S : view[r] \in {"queued", "running"}
    /\ view' = [r \in Run |-> IF r \in S THEN "interrupted" ELSE view[r]]
    /\ UNCHANGED used

\* Only the owner brings an interrupted run back, with a key not used before.
Resume(r, k) ==
    /\ view[r] = "interrupted"
    /\ k \notin used[r]
    /\ view' = [view EXCEPT ![r] = "running"]
    /\ used' = [used EXCEPT ![r] = @ \cup {k}]

Next ==
    \/ \E r \in Run : Accept(r) \/ Begin(r) \/ Abandon(r)
    \/ \E r \in Run, outcome \in Outcome : Finish(r, outcome)
    \/ \E S \in SUBSET Run : Lapse(S)
    \/ \E r \in Run, k \in Key : Resume(r, k)

Spec == Init /\ [][Next]_<<view, used>>

=============================================================================
