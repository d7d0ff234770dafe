---------------------------- MODULE EvidenceAgent ----------------------------
(***************************************************************************)
(* EvidenceAgent.collect (agents/evidence.py): the execution of one tool   *)
(* plan through the MCP client, one call at a time, under a budget of      *)
(* attempts that retries share.                                            *)
(*                                                                         *)
(* The five tools are three kinds of step: "find" (search, contents, term) *)
(* makes one call and returns clause ids, "expand" makes one call for each *)
(* clause and returns ids, "get" makes one call for each clause and        *)
(* returns its text. What a tool returns is a choice; its text is checked  *)
(* against the local corpus, so a clause determines its content hash.      *)
(***************************************************************************)
EXTENDS Naturals, SequencesExt

CONSTANTS
    Clause,
    NoClause,           \* the argument of a call that names no clause
    Hash,               \* content hashes, some of no clause at all
    ContentHash,        \* the content hash of every clause
    Plan,               \* the plans a provider may return
    Result,             \* the lists of clause ids a tool may return
    ToolBudget          \* attempt_budget, and the limit of a plan's cost

ASSUME AgentAssumption ==
    /\ NoClause \notin Clause
    /\ ContentHash \in [Clause -> Hash]
    /\ ToolBudget \in Nat \ {0}
    /\ \A p \in Plan, i \in 1..4 : i \in DOMAIN p =>
         /\ p[i].kind \in {"find", "expand", "get"}
         /\ p[i].from \in Nat /\ p[i].take \in 1..3
         /\ p[i].direct \in Seq(Clause)

VARIABLES
    agent,              \* the locals of collect
    toolCalls           \* history: calls put to the MCP client

-----------------------------------------------------------------------------
(* agents/contracts.py *)

CallCost(step) ==
    CASE step.kind = "find" -> 1
      [] step.from = 0 -> Len(step.direct)
      [] OTHER -> step.take

BaseCallCost(plan) == FoldLeft(LAMBDA sum, step : sum + CallCost(step), 0, plan)

\* ToolPlan's validators and validate_tool_plan. from is the step whose result
\* is used, 0 for clauses the plan names itself.
ValidPlan(plan) ==
    /\ Len(plan) \in 1..4
    /\ \A i \in DOMAIN plan :
         /\ plan[i].from < i
         /\ plan[i].kind # "find" /\ plan[i].from = 0 => Len(plan[i].direct) \in 1..3
    /\ BaseCallCost(plan) <= ToolBudget

\* ToolCallSummary: the calls of one invocation beyond the first are retries.
Summary(retries, error) == [retries |-> retries, error |-> error]
ToolError == {"none", "timeout", "tool_error", "unresolved", "budget"}
ToolCallSummary == [retries : 0..1, error : ToolError]

\* A summary whose invocation never reached the client.
Uncalled(call) == call.error \in {"unresolved", "budget"}

-----------------------------------------------------------------------------
Dedupe(ids) ==
    FoldLeft(LAMBDA seen, id : IF Contains(seen, id) THEN seen ELSE Append(seen, id),
             <<>>, ids)

\* _dedupe_evidence: one item for a clause, and one for a text. A clause seen
\* before has the same text, so the second condition covers the first.
DedupeEvidence(items) ==
    FoldLeft(LAMBDA kept, c :
               IF \E k \in ToSet(kept) : ContentHash[k] = ContentHash[c]
               THEN kept ELSE Append(kept, c),
             <<>>, items)

\* _invocations, empty for a reference that resolves to nothing.
Invocations(step, outputs) ==
    CASE step.kind = "find" -> <<NoClause>>
      [] step.from = 0 -> Dedupe(step.direct)
      [] OTHER -> SubSeq(outputs[step.from], 1,
                         IF step.take < Len(outputs[step.from])
                         THEN step.take ELSE Len(outputs[step.from]))

\* step is the step being executed, todo its invocations not yet finished and
\* ids what they have returned; outputs are those of the steps before it.
Resting ==
    [plan |-> <<>>, step |-> 0, todo |-> <<>>, ids |-> <<>>, outputs |-> <<>>,
     attempts |-> 0, retries |-> 0, evidence |-> <<>>, calls |-> <<>>, done |-> TRUE]
Collecting(plan) ==
    [Resting EXCEPT !.plan = plan, !.step = 1, !.done = FALSE,
                    !.todo = Invocations(plan[1], <<>>)]

AgentTypeOK ==
    /\ agent.plan \in Plan \cup {<<>>}
    /\ agent.step \in 0..4
    /\ agent.todo \in Seq(Clause \cup {NoClause})
    /\ agent.ids \in Seq(Clause) /\ agent.outputs \in Seq(Seq(Clause))
    /\ agent.attempts \in 0..ToolBudget /\ agent.retries \in 0..1
    /\ agent.evidence \in Seq(Clause)
    /\ agent.calls \in Seq(ToolCallSummary)
    /\ agent.done \in BOOLEAN
    /\ toolCalls \in Nat

\* The end of a step, and the beginning of the next one if there is one.
FinishStep(a) ==
    LET outputs == Append(a.outputs, Dedupe(a.ids)) IN
    IF a.step = Len(a.plan)
    THEN [a EXCEPT !.outputs = outputs, !.done = TRUE]
    ELSE [a EXCEPT !.outputs = outputs, !.step = @ + 1, !.ids = <<>>,
                   !.todo = Invocations(a.plan[a.step + 1], outputs)]

\* Mutant: collect returns early without the summary of the call that ended it.
StopsSilently(a, call) == [a EXCEPT !.done = TRUE]

\* collect returns early, with what it has, after a summary that says why.
Stops(a, call) == [a EXCEPT !.calls = Append(@, call), !.done = TRUE]

\* A step that refers to an earlier one which found nothing.
Unresolved ==
    /\ ~agent.done /\ agent.todo = <<>>
    /\ agent' = Stops(agent, Summary(0, "unresolved"))
    /\ UNCHANGED toolCalls

\* An invocation whose first attempt the budget does not allow.
BudgetSpent ==
    /\ ~agent.done /\ agent.todo # <<>> /\ agent.attempts = ToolBudget
    /\ agent' = Stops(agent, Summary(0, "budget"))
    /\ UNCHANGED toolCalls

\* call_tool succeeded and its result passed _decode_success.
Returned(ids) ==
    LET a == [agent EXCEPT !.attempts = @ + 1, !.retries = 0, !.todo = Tail(@),
                !.calls = Append(@, Summary(agent.retries, "none")),
                !.ids = @ \o ids,
                !.evidence = IF agent.plan[agent.step].kind = "get"
                             THEN Append(@, Head(agent.todo)) ELSE @] IN
    agent' = IF a.todo = <<>> THEN FinishStep(a) ELSE a

\* One retry, of a timeout, that the budget still allows.
MayRetry == agent.retries = 0 /\ agent.attempts + 1 < ToolBudget

CallTool ==
    /\ ~agent.done /\ agent.todo # <<>> /\ agent.attempts < ToolBudget
    /\ toolCalls' = toolCalls + 1
    /\ \/ /\ agent.plan[agent.step].kind = "get"
          /\ Returned(<<Head(agent.todo)>>)
       \/ /\ agent.plan[agent.step].kind # "get"
          /\ \E ids \in Result : Returned(Dedupe(ids))
       \/ /\ MayRetry
          /\ agent' = [agent EXCEPT !.attempts = @ + 1, !.retries = @ + 1]
       \/ /\ ~MayRetry
          /\ agent' = Stops([agent EXCEPT !.attempts = @ + 1], Summary(agent.retries, "timeout"))
       \/ agent' = Stops([agent EXCEPT !.attempts = @ + 1], Summary(agent.retries, "tool_error"))

Collect == Unresolved \/ BudgetSpent \/ CallTool
=============================================================================
