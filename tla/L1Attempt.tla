------------------------------ MODULE L1Attempt ------------------------------
(***************************************************************************)
(* RunWorker._run_l1 (runtime/worker.py): one L1 run, from its claim to    *)
(* its terminal state, with the heartbeat task beside it, the run store    *)
(* and the egress ledger below it, and the provider and the tools outside. *)
(*                                                                         *)
(* Between two awaits the attempt only computes. So its body is a script:  *)
(* the events still to be appended, one await each, and what comes after   *)
(* them; the attempt looks at lease_lost before every operation except     *)
(* between two tool summaries. An exception that no handler of _run_l1     *)
(* catches ends the attempt, and the run is left to its lease.             *)
(***************************************************************************)
EXTENDS AnswerCheck

CONSTANTS MaxDisclosed  \* the evidence one answer request may carry

ASSUME DisclosedAssumption ==
    /\ MaxDisclosed \in Nat \ {0}
    /\ MaxCitations \in Nat /\ MaxChecks \in Nat
    /\ MaxDisclosed <= MaxChecks

VARIABLES
    status,         \* specpilot_run.status
    lease,          \* is lease_expires_at in the future
    trace,          \* the events the attempt appended, and the terminal one
    reserved,       \* the stages with an egress reservation
    job,            \* the locals of _run_l1
    beating,        \* the heartbeat task
    leaseLost       \* the event the heartbeat sets

vars == <<agent, toolCalls, status, lease, trace, reserved, job, beating, leaseLost>>
storeVars == <<status, lease, trace>>
beatVars == <<beating, leaseLost>>
agentVars == <<agent, toolCalls>>

Stage == {"planning", "evidence", "answer"}
Ended == {"answered", "refused", "failed", "egress_blocked"}

\* The events of runs/contracts.py that _run_l1 appends, with what the
\* properties read of them.
Started(stage) == [kind |-> "started", stage |-> stage]
Finished(stage, error) == [kind |-> "finished", stage |-> stage, error |-> error]
Admitted(stage) == [kind |-> "egress", stage |-> stage, admitted |-> TRUE]
Blocked(stage) == [kind |-> "egress", stage |-> stage, admitted |-> FALSE]
PlanSummary == [kind |-> "plan"]
ToolFinished(call) == [kind |-> "tool", call |-> call]
EvidenceSummary(ids) == [kind |-> "evidence", ids |-> ids]
VerifierSummary(passed, faults) == [kind |-> "verifier", passed |-> passed, faults |-> faults]
AnswerEvent(outcome) ==
    [kind |-> "answer", verdict |-> outcome.verdict, provider |-> outcome.provider]
TerminalEvent(s) == [kind |-> "terminal", status |-> s]

StageError == {"none", "provider_error", "invalid_tool_plan", "policy"}
Event ==
    {Started(s) : s \in Stage} \cup {Finished(s, e) : s \in Stage, e \in StageError}
      \cup {Admitted(s) : s \in Stage} \cup {Blocked(s) : s \in Stage}
      \cup {PlanSummary} \cup {ToolFinished(c) : c \in ToolCallSummary}
      \cup {EvidenceSummary(ids) : ids \in SUBSET Hash}
      \cup [kind : {"verifier"}, passed : SUBSET Hash, faults : SUBSET Faults]
      \cup [kind : {"answer"}, verdict : {"answered", "refused"}, provider : BOOLEAN]
      \cup {TerminalEvent(s) : s \in Ended \cup {"interrupted"}}

\* The bounds of EvidenceSummaryEvent and VerifierSummaryEvent, which raise
\* when an event that breaks them is constructed.
Constructible(e) ==
    CASE e.kind = "evidence" -> Cardinality(e.ids) <= MaxDisclosed
      [] e.kind = "verifier" -> Cardinality(e.passed) + Cardinality(e.faults) <= MaxChecks
      [] OTHER -> TRUE

\* at: queued, check (about to look at lease_lost), append, the operations
\* plan, collect and answer, waiting (for the provider), ending (the finally
\* clause), complete, ended. script is what is still to be appended, next the
\* operation after it, stage the active_stage, terminal the one to write.
Job ==
    [at : {"queued", "check", "append", "plan", "collect", "answer", "waiting",
           "ending", "complete", "ended"},
     script : Seq(Event), next : {"plan", "collect", "answer", "ending"},
     stage : Stage, selected : Seq(Clause), terminal : Ended \cup {"none"}]

TypeOK ==
    /\ AgentTypeOK
    /\ status \in {"queued", "running", "interrupted"} \cup Ended
    /\ lease \in BOOLEAN /\ beating \in BOOLEAN /\ leaseLost \in BOOLEAN
    /\ trace \in Seq(Event)
    /\ reserved \subseteq {"planning", "answer"}
    /\ job \in Job

Init ==
    /\ agent = Resting /\ toolCalls = 0
    /\ status = "queued" /\ lease = TRUE /\ trace = <<>>
    /\ reserved = {}
    /\ job = [at |-> "queued", script |-> <<>>, next |-> "plan", stage |-> "planning",
              selected |-> <<>>, terminal |-> "none"]
    /\ beating = FALSE /\ leaseLost = FALSE
-----------------------------------------------------------------------------
(* The run store *)

\* What claim, append and complete require of the row.
Leased(s) == status = s /\ lease

LeaseExpires ==
    /\ status \in {"queued", "running"} /\ lease
    /\ lease' = FALSE
    /\ UNCHANGED <<agentVars, status, trace, reserved, job, beatVars>>

\* reconcile_expired, by another process.
ReconcileExpired ==
    /\ status \in {"queued", "running"} /\ ~lease
    /\ status' = "interrupted"
    /\ trace' = Append(trace, TerminalEvent("interrupted"))
    /\ UNCHANGED <<agentVars, lease, reserved, job, beatVars>>
-----------------------------------------------------------------------------
(* RunWorker._heartbeat *)

Beat ==
    /\ beating /\ ~Leased("running")
    /\ leaseLost' = TRUE /\ beating' = FALSE
    /\ UNCHANGED <<agentVars, storeVars, reserved, job>>

\* The heartbeat's own store call fails, whatever the state of the lease.
BeatFails ==
    /\ beating
    /\ leaseLost' = TRUE /\ beating' = FALSE
    /\ UNCHANGED <<agentVars, storeVars, reserved, job>>
-----------------------------------------------------------------------------
(* RunWorker._run_l1 *)

\* Append the events of script, then go on to next.
Then(script, next) == [job EXCEPT !.at = "check", !.script = script, !.next = next]

\* An exception leaves _run_l1: its finally clause stops the heartbeat.
Raise ==
    /\ job' = [job EXCEPT !.at = "ended"]
    /\ beating' = FALSE
    /\ UNCHANGED <<leaseLost, agentVars>>

\* The first append looks at no lease.
Claim ==
    /\ job.at = "queued"
    /\ IF Leased("queued")
       THEN /\ status' = "running" /\ beating' = TRUE
            /\ job' = [Then(<<Started("planning")>>, "plan") EXCEPT !.at = "append"]
       ELSE /\ job' = [job EXCEPT !.at = "ended"]
            /\ UNCHANGED <<status, beating>>
    /\ UNCHANGED <<agentVars, lease, trace, reserved, leaseLost>>

\* if lease_lost.is_set(): return
CheckLease ==
    /\ job.at = "check"
    /\ job' = [job EXCEPT
         !.at = IF leaseLost THEN "ending"
                ELSE IF job.script # <<>> THEN "append" ELSE job.next,
         !.terminal = IF leaseLost THEN "none" ELSE @]
    /\ UNCHANGED <<agentVars, storeVars, reserved, beatVars>>

\* Mutant: an append is fenced by the owner alone.
AppendFencedOwned == TRUE

AppendFenced == Leased("running")

\* _append; _append_tool_summaries does not look at the lease between two.
AppendNext ==
    /\ job.at = "append"
    /\ Constructible(Head(job.script))
    /\ AppendFenced
    /\ trace' = Append(trace, Head(job.script))
    /\ LET rest == Tail(job.script) IN
         job' = [job EXCEPT
           !.script = rest,
           !.at = IF rest # <<>> /\ Head(job.script).kind = "tool" /\ Head(rest).kind = "tool"
                  THEN "append" ELSE "check"]
    /\ UNCHANGED <<agentVars, status, lease, reserved, beatVars>>

\* The event cannot be constructed, the row refuses it, or the store fails
\* before or after the insertion committed.
AppendRaises ==
    /\ job.at = "append"
    /\ Raise
    /\ \/ UNCHANGED trace
       \/ /\ Constructible(Head(job.script)) /\ AppendFenced
          /\ trace' = Append(trace, Head(job.script))
    /\ UNCHANGED <<status, lease, reserved>>

FinishErrorStage(error) == Finished(job.stage, error)

\* The handlers of _run_l1, which close the active stage and choose a terminal.
Handle(event, error, terminal) ==
    [Then(<<event, FinishErrorStage(error)>>, "ending") EXCEPT !.terminal = terminal]

\* transport.send commits a reservation and puts the request on the wire.
Send ==
    /\ \/ job.at = "plan"
       \/ job.at = "answer" /\ job.selected # <<>>
    /\ reserved' = reserved \cup {job.stage}
    /\ job' = [job EXCEPT !.at = "waiting"]
    /\ UNCHANGED <<agentVars, storeVars, beatVars>>

\* EgressPolicyViolation with an admission code; project_gate_error raises for
\* any other code, and accounting failures are not caught.
SendBlocked ==
    /\ \/ job.at = "plan"
       \/ job.at = "answer" /\ job.selected # <<>>
    /\ \/ /\ job' = Handle(Blocked(job.stage), "policy", "egress_blocked")
          /\ UNCHANGED <<beating, leaseLost, agentVars>>
       \/ Raise
    /\ UNCHANGED <<storeVars, reserved>>

\* Mutant: the handler of an invalid plan does not report the request it cost.
InvalidPlanUnreported ==
    [Then(<<FinishErrorStage("invalid_tool_plan")>>, "ending") EXCEPT !.terminal = "refused"]

InvalidPlan == Handle(Admitted("planning"), "invalid_tool_plan", "refused")

PlanReceived ==
    /\ job.at = "waiting" /\ job.stage = "planning"
    /\ \/ /\ \E plan \in Plan :
               IF ValidPlan(plan)
               THEN /\ agent' = Collecting(plan)
                    /\ job' = [Then(<<Admitted("planning"), PlanSummary,
                                      Finished("planning", "none"), Started("evidence")>>,
                                    "collect") EXCEPT !.stage = "evidence"]
               ELSE job' = InvalidPlan /\ UNCHANGED agent
          /\ UNCHANGED <<toolCalls, beatVars>>
       \/ /\ job' = Handle(Admitted("planning"), "provider_error", "failed")
          /\ UNCHANGED <<agentVars, beatVars>>
       \/ Raise
    /\ UNCHANGED <<storeVars, reserved>>

\* EvidenceAgent.collect looks at no lease.
CollectStep ==
    /\ job.at = "collect"
    /\ Collect
    /\ UNCHANGED <<storeVars, reserved, job, beatVars>>

\* The client is gone, or a result fails the integrity checks.
CollectRaises ==
    /\ job.at = "collect" /\ ~agent.done /\ agent.todo # <<>>
    /\ agent.attempts < ToolBudget
    /\ Raise
    /\ UNCHANGED <<storeVars, reserved>>

\* result.evidence[:5]
SelectedEvidence(items) ==
    SubSeq(items, 1, IF Len(items) < MaxDisclosed THEN Len(items) ELSE MaxDisclosed)

Collected ==
    /\ job.at = "collect" /\ agent.done
    /\ LET selected == SelectedEvidence(DedupeEvidence(agent.evidence))
           calls == [i \in DOMAIN agent.calls |-> ToolFinished(agent.calls[i])] IN
         job' = [Then(calls \o <<EvidenceSummary({ContentHash[c] : c \in ToSet(selected)}),
                                 Finished("evidence", "none"), Started("answer")>>,
                      "answer") EXCEPT !.selected = selected, !.stage = "answer"]
    /\ UNCHANGED <<agentVars, storeVars, reserved, beatVars>>

\* What _run_l1 appends for the outcome of run_answer, and the terminal state
\* it projects from it.
Report(outcome) ==
    [Then((IF outcome.admitted THEN <<Admitted("answer")>> ELSE <<>>)
          \o <<VerifierSummary({ContentHash[c] : c \in outcome.citations}, outcome.faults),
               AnswerEvent(outcome),
               Finished("answer", IF outcome.provider THEN "provider_error" ELSE "none")>>,
          "ending") EXCEPT !.terminal = ProjectAnswerOutcome(outcome)]

AnswerUnsent ==
    /\ job.at = "answer" /\ job.selected = <<>>
    /\ job' = Report(NothingRetrieved)
    /\ UNCHANGED <<agentVars, storeVars, reserved, beatVars>>

AnswerReceived ==
    /\ job.at = "waiting" /\ job.stage = "answer"
    /\ \/ /\ \/ \E reply \in Reply : job' = Report(VerifyResponse(job.selected, reply))
             \/ job' = Report(ProviderFailed)
          /\ UNCHANGED <<agentVars, beatVars>>
       \/ Raise
    /\ UNCHANGED <<storeVars, reserved>>

StopHeartbeat ==
    /\ job.at = "ending"
    /\ job' = [job EXCEPT !.at = "complete"]
    /\ beating' = FALSE
    /\ UNCHANGED <<agentVars, storeVars, reserved, leaseLost>>

\* complete() is not called without a terminal or once the lease is lost,
\* returns False when the row is not leased, and may fail before its
\* transaction commits.
Complete ==
    /\ job.at = "complete"
    /\ job' = [job EXCEPT !.at = "ended"]
    /\ \/ /\ job.terminal # "none" /\ ~leaseLost /\ Leased("running")
          /\ status' = job.terminal
          /\ trace' = Append(trace, TerminalEvent(job.terminal))
       \/ UNCHANGED <<status, trace>>
    /\ UNCHANGED <<agentVars, lease, reserved, beatVars>>

\* The process dies, or the worker closes and cancels the attempt.
Die ==
    /\ job.at \notin {"queued", "ended"}
    /\ Raise
    /\ UNCHANGED <<storeVars, reserved>>

Attempt ==
    \/ Claim \/ CheckLease \/ AppendNext \/ AppendRaises \/ Send \/ SendBlocked
    \/ PlanReceived \/ CollectStep \/ CollectRaises \/ Collected
    \/ AnswerUnsent \/ AnswerReceived \/ StopHeartbeat \/ Complete

Next == Attempt \/ Beat \/ BeatFails \/ LeaseExpires \/ ReconcileExpired \/ Die

Spec == Init /\ [][Next]_vars
-----------------------------------------------------------------------------
Occurs(e) == \E i \in DOMAIN trace : trace[i] = e

\* The run was completed by its worker.
Completed == status \in Ended

\* The trace of a completed run reports each request that was reserved, once,
\* and no other; a blocked one is reported as blocked.
EgressReported ==
    Completed => \A s \in Stage :
      /\ s \in reserved <=> Occurs(Admitted(s))
      /\ Cardinality({i \in DOMAIN trace : trace[i] = Admitted(s)}) <= 1
      /\ Occurs(Blocked(s)) => s \notin reserved /\ status = "egress_blocked"

\* The calls that the events of a trace account for.
CallsOf(e) == IF e.kind = "tool" /\ ~Uncalled(e.call) THEN 1 + e.call.retries ELSE 0
CallsIn(events) == UNION {{i} \X (1..CallsOf(events[i])) : i \in DOMAIN events}

\* Tool calls stay within the budget of attempts, retries included, and the
\* trace of a completed run accounts for every call that was made, once.
CallsReported ==
    /\ toolCalls <= ToolBudget
    /\ Completed => toolCalls = Cardinality(CallsIn(trace))

\* An answered run passed at least one citation, failed none, and every
\* citation names evidence that its own request disclosed.
AnsweredIsCited ==
    status = "answered" =>
      \E i, j \in DOMAIN trace :
        /\ i < j /\ trace[i].kind = "evidence" /\ trace[j].kind = "verifier"
        /\ trace[j].passed # {} /\ trace[j].faults = {}
        /\ trace[j].passed \subseteq trace[i].ids
        /\ "answer" \in reserved

\* Once the run is completed or interrupted, no late step of its worker
\* changes its status or adds to its trace.
SettledIsFinal ==
    [][(Completed \/ status = "interrupted") => UNCHANGED <<status, trace>>]_vars
=============================================================================
