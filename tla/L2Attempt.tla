------------------------------ MODULE L2Attempt ------------------------------
(***************************************************************************)
(* runtime/l2.py run_l2_attempt over the checkpoint store and the egress   *)
(* ledger: the attempts of one L2 run, one after the other, with what a    *)
(* process loss between any two awaits leaves behind.                      *)
(*                                                                         *)
(* The checkpoint keeps no prose, so a resumed attempt repeats the model   *)
(* calls whose results were lost, each under a generation that is written  *)
(* before the send.  An attempt that has lost its lease ends at its next   *)
(* look at lease_is_live; RunService shows that it is fenced until then.   *)
(***************************************************************************)
EXTENDS Integers, FiniteSetsExt

CONSTANTS
    Claim,              \* claim ids
    NoClaim,
    MaxClaims,          \* candidates in one Compliance reply
    ToolBudget,         \* _L2_TOOL_BUDGET
    GenerationBudget,   \* reconstruction_generations and reservation_ids
    MaxAttempts,        \* bound: attempts of the run
    NoRow

VARIABLES
    status,             \* running, interrupted or the terminal status
    checkpoint,         \* the stored checkpoint
    sends,              \* egress_reservation: the state of each logical key
    sealed,             \* egress_run_seal
    frame,              \* the locals of the attempt that runs, if any
    leaseLive,          \* lease_is_live()
    raised,             \* history: why a checkpoint write of an attempt raised
    recoveries          \* history: recovery actions that called MCP

vars == <<status, checkpoint, sends, sealed, frame, leaseLive, raised, recoveries>>

ASSUME L2Assumption ==
    /\ MaxClaims \in Nat \ {0} /\ ToolBudget \in Nat \ {0}
    /\ GenerationBudget \in Nat \ {0} /\ MaxAttempts \in Nat
    /\ NoClaim \notin Claim

CheckpointStage ==
    {"planned", "evidence_collected", "candidate_built", "deterministic_verified",
     "recovery_reserved", "recovery_completed", "semantic_verified", "completed"}

LegalTransitions ==
    [planned |-> {"planned", "evidence_collected"},
     evidence_collected |-> {"evidence_collected", "candidate_built"},
     candidate_built |-> {"candidate_built", "deterministic_verified",
                          "recovery_reserved", "recovery_completed"},
     deterministic_verified |-> {"deterministic_verified", "semantic_verified",
                                 "recovery_reserved", "recovery_completed"},
     recovery_reserved |-> {"recovery_reserved", "recovery_completed", "semantic_verified"},
     recovery_completed |-> {"recovery_completed", "deterministic_verified"},
     semantic_verified |-> {"semantic_verified", "deterministic_verified", "completed"},
     completed |-> {}]

\* logical_stage_key, without the run id; the claim of planning and of
\* compliance is NoClaim.
SendKey ==
    [stage : {"planning", "compliance", "verifier"}, claim : Claim \cup {NoClaim},
     recovery : BOOLEAN, generation : 0..GenerationBudget]
SendState == {"none", "reserved", "succeeded", "failed_known"}

Target(stage, claim, recovery) ==
    [stage |-> stage, claim |-> claim, recovery |-> recovery, generation |-> 0]
Planning == Target("planning", NoClaim, FALSE)
Compliance == Target("compliance", NoClaim, FALSE)

RunCheckpoint ==
    [version : Nat \ {0}, attempt : Nat \ {0}, stage : CheckpointStage,
     evidence : BOOLEAN, tools : Nat, listed : SUBSET SendKey,
     generations : SUBSET SendKey, recovery : BOOLEAN,
     recoveryClaim : Claim \cup {NoClaim}, count : Nat, completed : SUBSET Claim]

ASSUME NoRowAssumption == NoRow \notin RunCheckpoint

Terminal == {"answered", "refused", "failed", "egress_blocked"}

\* What pc waits for:
\*   first     the first checkpoint write        entry     a resumed attempt's stage
\*   prepare   _prepare_generation               ready     the lease, then transport.send
\*   waiting   the provider                      planned, complied, judged  its result
\*   collect   the evidence agent                collected its result
\*   batched   the accepted candidates           loop      the next candidate
\*   failed    a verifier's fault                recover   the recovery runner
\*   recovered its result                        verified  deterministic success
\*   close     a claim's result                  erring    an exception handler
\*   done      RunWorker's complete
Pc ==
    {"idle", "first", "entry", "prepare", "ready", "waiting", "planned", "complied",
     "judged", "collect", "collected", "batched", "loop", "failed", "recover",
     "recovered", "verified", "close", "erring", "done"}
Frame ==
    [pc : Pc, cp : RunCheckpoint \cup {NoRow}, outer : Nat, key : SendKey,
     tools : Nat, recovered : BOOLEAN, listed : SUBSET SendKey, todo : SUBSET Claim,
     claim : Claim \cup {NoClaim}, cost : 0..2, reserved : Nat, semantic : BOOLEAN,
     resumed : BOOLEAN, outcome : Terminal \cup {"none"}]

\* cp is the checkpoint variable of the innermost function, outer the version
\* of the one in run_l2_attempt, which its exception handlers use.
IdleFrame ==
    [pc |-> "idle", cp |-> NoRow, outer |-> 0, key |-> Planning, tools |-> 0,
     recovered |-> FALSE, listed |-> {}, todo |-> {}, claim |-> NoClaim, cost |-> 0,
     reserved |-> 0, semantic |-> FALSE, resumed |-> FALSE, outcome |-> "none"]

TypeOK ==
    /\ status \in {"running", "interrupted"} \cup Terminal
    /\ checkpoint \in RunCheckpoint \cup {NoRow}
    /\ sends \in [SendKey -> SendState]
    /\ sealed \in BOOLEAN /\ leaseLive \in BOOLEAN
    /\ frame \in Frame
    /\ raised \in {"none", "stale", "stage", "body"}
    /\ recoveries \in Nat

Init ==
    /\ status = "running"
    /\ checkpoint = NoRow
    /\ sends = [k \in SendKey |-> "none"]
    /\ sealed = FALSE /\ leaseLive = TRUE
    /\ frame = [IdleFrame EXCEPT !.pc = "first"]
    /\ raised = "none"
    /\ recoveries = 0

ledgerVars == <<sends, sealed>>
runVars == <<status, leaseLive>>

-----------------------------------------------------------------------------
(* checkpoints/contracts.py and PostgresCheckpointStore.write *)

\* The validators of RunCheckpoint; model_copy runs none of them.
Valid(c) ==
    /\ c.stage \in {"recovery_reserved", "recovery_completed"} => c.recovery
    /\ c.stage = "recovery_reserved" <=> c.recoveryClaim # NoClaim
    /\ Cardinality(c.completed) <= c.count
    /\ c.count <= MaxClaims
    /\ c.tools <= ToolBudget
    /\ Cardinality(c.listed) <= GenerationBudget
    /\ Cardinality(c.generations) <= GenerationBudget

\* validate_transition without the stage table and the immutable bindings.
Monotonic(old, new) ==
    /\ new.attempt = old.attempt
    /\ new.tools >= old.tools
    /\ old.listed \subseteq new.listed
    /\ old.generations \subseteq new.generations
    /\ old.recovery => new.recovery
    /\ new.count >= old.count
    /\ old.completed \subseteq new.completed
    /\ old.stage = "recovery_reserved" =>
           new.recoveryClaim = IF new.stage = "recovery_reserved"
                               THEN old.recoveryClaim ELSE NoClaim

WriteResult(new) ==
    IF checkpoint.version + 1 # new.version THEN "stale"
    ELSE IF new.stage \notin LegalTransitions[checkpoint.stage] THEN "stage"
    ELSE IF ~Valid(checkpoint) \/ ~Monotonic(checkpoint, new) THEN "body"
    ELSE "none"

\* The attempt goes on with next; or the write raises, nothing in
\* run_l2_attempt catches it and RunWorker._run_safely writes nothing.
WriteThen(new, next) ==
    \/ /\ WriteResult(new) = "none"
       /\ checkpoint' = new
       /\ frame' = next
       /\ UNCHANGED raised
    \/ /\ WriteResult(new) # "none"
       /\ raised' = WriteResult(new)
       /\ frame' = IdleFrame
       /\ UNCHANGED checkpoint

\* _advance, and the frame that holds its result.
Advance(f, stage) ==
    [f.cp EXCEPT !.version = @ + 1, !.stage = stage, !.tools = f.tools,
                 !.recovery = f.recovered, !.listed = @ \cup f.listed,
                 !.recoveryClaim = IF stage = "recovery_reserved" THEN @ ELSE NoClaim]
Goto(f, pc) == [f EXCEPT !.pc = pc]
Inner(f, c) == [f EXCEPT !.cp = c]
Outer(f, c) == [f EXCEPT !.cp = c, !.outer = c.version]

\* A caller that does not allow the same stage keeps the checkpoint it has.
AdvanceThen(f, stage, next) ==
    IF f.cp.stage = stage
    THEN frame' = next /\ UNCHANGED <<checkpoint, raised>>
    ELSE WriteThen(Advance(f, stage), Inner(next, Advance(f, stage)))

Finish(f, outcome) == [f EXCEPT !.pc = "done", !.outcome = outcome]

-----------------------------------------------------------------------------
(* The start of an attempt *)

FirstCheckpoint ==
    /\ frame.pc = "first"
    /\ LET first == [version |-> 1, attempt |-> 1, stage |-> "planned",
                     evidence |-> FALSE, tools |-> 0, listed |-> {},
                     generations |-> {Planning}, recovery |-> FALSE,
                     recoveryClaim |-> NoClaim, count |-> 0, completed |-> {}]
       IN  /\ checkpoint' = first
           /\ frame' = Outer(Goto(frame, "ready"), first)
    /\ UNCHANGED <<runVars, ledgerVars, raised, recoveries>>

Settled(k) == sends[k] \in {"succeeded", "failed_known"}

\* begin_resume: only the reservations that the checkpoint lists are looked at.
Resume ==
    /\ status = "interrupted"
    /\ checkpoint # NoRow /\ Valid(checkpoint)
    /\ checkpoint.attempt < MaxAttempts
    /\ \A k \in checkpoint.listed : Settled(k)
    /\ LET taken == [checkpoint EXCEPT !.version = @ + 1, !.attempt = @ + 1]
       IN  /\ checkpoint' = taken
           /\ frame' = Outer([IdleFrame EXCEPT !.pc = "entry", !.tools = taken.tools,
                                 !.recovered = taken.recovery, !.listed = taken.listed],
                             taken)
    /\ status' = "running" /\ leaseLive' = TRUE
    /\ UNCHANGED <<ledgerVars, raised, recoveries>>

\* Mutant: a semantic checkpoint is taken for the end of the batch.
ResultsCompleteEarly(c) == c.stage \in {"completed", "semantic_verified"}

ResultsComplete(c) ==
    \/ c.stage = "completed"
    \/ c.stage = "semantic_verified" /\ c.count > 0 /\ Cardinality(c.completed) = c.count

\* restored: the evidence could be rebuilt from the frozen corpus.
Enter(restored) ==
    /\ frame.pc = "entry"
    /\ restored => frame.cp.evidence
    /\ frame' =
           IF ResultsComplete(frame.cp) THEN Finish(frame, "answered")
           ELSE IF frame.cp.stage = "planned"
           THEN [frame EXCEPT !.pc = "prepare", !.key = Planning]
           ELSE IF restored THEN [frame EXCEPT !.pc = "prepare", !.key = Compliance]
           ELSE Finish(frame, "refused")
    /\ UNCHANGED <<runVars, checkpoint, ledgerVars, raised, recoveries>>

Generations(c, k) == {g \in c.generations : [g EXCEPT !.generation = 0] = k}
NextGeneration(c, k) ==
    IF Generations(c, k) = {} THEN 0
    ELSE Max({g.generation : g \in Generations(c, k)}) + 1

\* Mutant: the generation is not persisted before the send.
PrepareGenerationLocal ==
    /\ frame.pc = "prepare"
    /\ LET next == [frame.key EXCEPT !.generation = NextGeneration(frame.cp, frame.key)]
       IN  IF Cardinality(frame.cp.generations) >= GenerationBudget
           THEN frame' = Finish(frame, "refused")
           ELSE frame' = [frame EXCEPT !.pc = "ready", !.key = next]
    /\ UNCHANGED <<runVars, checkpoint, ledgerVars, raised, recoveries>>

\* The generation is written before the send; the version that _one_claim
\* writes does not reach run_l2_attempt's own variable.
PrepareGeneration ==
    /\ frame.pc = "prepare"
    /\ LET next == [frame.key EXCEPT !.generation = NextGeneration(frame.cp, frame.key)]
           new == [frame.cp EXCEPT !.version = @ + 1, !.generations = @ \cup {next}]
           then == [frame EXCEPT !.pc = "ready", !.key = next]
       IN  IF Cardinality(frame.cp.generations) >= GenerationBudget
           THEN frame' = Finish(frame, "refused") /\ UNCHANGED <<checkpoint, raised>>
           ELSE WriteThen(new, IF next.stage = "verifier" THEN Inner(then, new)
                               ELSE Outer(then, new))
    /\ UNCHANGED <<runVars, ledgerVars, recoveries>>

-----------------------------------------------------------------------------
(* PolicyBoundTransport.send, as one of the three agents calls it *)

Transmit ==
    /\ frame.pc = "ready" /\ leaseLive
    /\ ~sealed
    /\ sends[frame.key] = "none"
    /\ sends' = [sends EXCEPT ![frame.key] = "reserved"]
    /\ frame' = Goto(frame, "waiting")
    /\ UNCHANGED <<runVars, checkpoint, sealed, raised, recoveries>>

\* EgressPolicyViolation: a seal, a cap or a lapsed authorization; or, for a
\* key that was used before, TransportReplayError.
RefuseSend ==
    /\ frame.pc = "ready" /\ leaseLive
    /\ frame' = IF sealed \/ sends[frame.key] = "none"
                THEN Finish(frame, "egress_blocked")
                ELSE [frame EXCEPT !.pc = "erring", !.outcome = "refused"]
    /\ UNCHANGED <<runVars, checkpoint, ledgerVars, raised, recoveries>>

ResultPc(k) ==
    IF k.stage = "planning" THEN "planned"
    ELSE IF k.stage = "compliance" THEN "complied" ELSE "judged"

Receive ==
    /\ frame.pc = "waiting"
    /\ sends' = [sends EXCEPT ![frame.key] = "succeeded"]
    /\ frame' = Goto(frame, ResultPc(frame.key))
    /\ UNCHANGED <<runVars, checkpoint, sealed, raised, recoveries>>

\* ProviderAttemptError, or a reply that does not parse.
ReceiveError(outcome) ==
    /\ frame.pc = "waiting"
    /\ sends' = [sends EXCEPT ![frame.key] =
           IF outcome = "failed" THEN "failed_known" ELSE "succeeded"]
    /\ frame' = [frame EXCEPT !.pc = "erring", !.outcome = outcome]
    /\ UNCHANGED <<runVars, checkpoint, sealed, raised, recoveries>>

\* The outcome cannot be recorded, or the send is cancelled: the run is sealed
\* and the exception leaves the attempt.
SendAborts(state) ==
    /\ frame.pc = "waiting"
    /\ sends' = [sends EXCEPT ![frame.key] = state]
    /\ sealed' = TRUE
    /\ frame' = IdleFrame
    /\ UNCHANGED <<runVars, checkpoint, raised, recoveries>>

List(f) == [f EXCEPT !.listed = @ \cup {f.key}]

\* The handlers write with run_l2_attempt's checkpoint variable.
HandleError ==
    /\ frame.pc = "erring"
    /\ LET f == List([frame EXCEPT !.cp.version = frame.outer])
           new == Advance(f, f.cp.stage)
       IN  WriteThen(new, Finish(Outer(f, new), frame.outcome))
    /\ UNCHANGED <<runVars, ledgerVars, recoveries>>

-----------------------------------------------------------------------------
(* Planning and evidence *)

\* Only the first attempt writes here: a resumed one is at the same stage and
\* does not allow it, so the receipt is listed with the evidence.
RecordPlan ==
    /\ frame.pc = "planned" /\ leaseLive
    /\ LET f == List(Goto(frame, "collect"))
           new == Advance(f, "planned")
       IN  IF f.cp.attempt = 1 THEN WriteThen(new, Outer(f, new))
           ELSE frame' = f /\ UNCHANGED <<checkpoint, raised>>
    /\ UNCHANGED <<runVars, ledgerVars, recoveries>>

\* EvidenceAgent.collect: calls within what the attempt knows to be left.
Collect(calls) ==
    /\ frame.pc = "collect" /\ leaseLive
    /\ frame.tools + calls <= ToolBudget
    /\ frame' = [frame EXCEPT !.pc = "collected", !.tools = @ + calls]
    /\ UNCHANGED <<runVars, checkpoint, ledgerVars, raised, recoveries>>

RecordEvidence(found) ==
    /\ frame.pc = "collected" /\ leaseLive
    /\ LET f == [frame EXCEPT !.pc = "prepare", !.key = Compliance]
           new == [Advance(f, "evidence_collected") EXCEPT !.evidence = found]
       IN  WriteThen(new, Outer(f, new))
    /\ UNCHANGED <<runVars, ledgerVars, recoveries>>

-----------------------------------------------------------------------------
(* The Compliance batch *)

RecordCandidates(batch) ==
    /\ frame.pc = "complied" /\ leaseLive
    /\ LET f == List([frame EXCEPT !.pc = "batched", !.todo = batch])
           new == [Advance(f, "candidate_built") EXCEPT !.count = Cardinality(batch)]
       IN  IF f.cp.stage = "evidence_collected" THEN WriteThen(new, Outer(f, new))
           ELSE frame' = f /\ UNCHANGED <<checkpoint, raised>>
    /\ UNCHANGED <<runVars, ledgerVars, recoveries>>

\* Mutant: a reconstructed batch is taken as it comes.
BatchConsistentAlways(c, batch) == TRUE

\* _candidate_batch_is_consistent and _recovery_reservation_is_consistent.
BatchConsistent(c, batch) ==
    /\ c.count = 0 \/ Cardinality(batch) = c.count
    /\ c.completed \subseteq batch
    /\ c.stage = "recovery_reserved" => c.recoveryClaim \in batch \ c.completed

AcceptBatch ==
    /\ frame.pc = "batched"
    /\ LET f == [frame EXCEPT !.pc = "loop", !.todo = @ \ frame.cp.completed]
           new == [Advance(f, f.cp.stage) EXCEPT !.count = Cardinality(frame.todo)]
       IN  IF BatchConsistent(frame.cp, frame.todo)
           THEN WriteThen(new, Outer(f, new))
           ELSE frame' = Finish(frame, "refused") /\ UNCHANGED <<checkpoint, raised>>
    /\ UNCHANGED <<runVars, ledgerVars, recoveries>>

CompleteAttempt ==
    /\ frame.pc = "loop" /\ frame.todo = {}
    /\ AdvanceThen(frame, "completed", Finish(frame, "answered"))
    /\ UNCHANGED <<runVars, ledgerVars, recoveries>>

-----------------------------------------------------------------------------
(* _one_claim *)

\* The candidate whose recovery was reserved comes first.
NextClaim(c) ==
    /\ frame.pc = "loop" /\ c \in frame.todo
    /\ frame.cp.stage = "recovery_reserved" => c = frame.cp.recoveryClaim

Take(c) == [frame EXCEPT !.claim = c, !.semantic = FALSE, !.resumed = frame.recovered]

\* recovery_result_lost, or the model proposed insufficient_evidence.
ClaimInsufficient(c) ==
    /\ NextClaim(c)
    /\ frame' = IF frame.cp.stage = "recovery_reserved"
                THEN [Take(c) EXCEPT !.pc = "close", !.tools = frame.cp.tools,
                                     !.recovered = TRUE]
                ELSE Goto(Take(c), "close")
    /\ UNCHANGED <<runVars, checkpoint, ledgerVars, raised, recoveries>>

ClaimPasses(c) ==
    /\ NextClaim(c) /\ frame.cp.stage # "recovery_reserved"
    /\ frame' = Goto(Take(c), "verified")
    /\ UNCHANGED <<runVars, checkpoint, ledgerVars, raised, recoveries>>

\* cost: the most calls that recovery from the fault could make.
ClaimFails(c, cost) ==
    /\ NextClaim(c) /\ frame.cp.stage # "recovery_reserved"
    /\ frame' = [Take(c) EXCEPT !.pc = "failed", !.cost = cost]
    /\ UNCHANGED <<runVars, checkpoint, ledgerVars, raised, recoveries>>

ReserveRecoveryAttempts(tools, cost) == Min({ToolBudget, tools + cost})

\* Mutant: recovery starts without its durable reservation.
ReserveRecoveryLate ==
    /\ frame.pc = "failed"
    /\ frame' = [frame EXCEPT !.pc = "recover",
                              !.reserved = ReserveRecoveryAttempts(frame.tools, frame.cost)]
    /\ UNCHANGED <<runVars, checkpoint, ledgerVars, raised, recoveries>>

ReserveRecovery ==
    /\ frame.pc = "failed"
    /\ LET reserved == IF frame.recovered THEN frame.tools
                       ELSE ReserveRecoveryAttempts(frame.tools, frame.cost)
           f == [frame EXCEPT !.pc = "recover", !.reserved = reserved]
           new == [Advance(f, "recovery_reserved") EXCEPT
                      !.tools = reserved, !.recovery = TRUE, !.recoveryClaim = frame.claim]
       IN  IF reserved > frame.tools THEN WriteThen(new, Inner(f, new))
           ELSE frame' = f /\ UNCHANGED <<checkpoint, raised>>
    /\ UNCHANGED <<runVars, ledgerVars, recoveries>>

CanRecover == ~frame.recovered /\ frame.tools < ToolBudget

\* _recover returns None: recovered before, no budget, or the lease is lost.
\* (A lease lost during the runner is Recover and then AttemptEnds.)
NoRecovery ==
    /\ frame.pc = "recover"
    /\ ~CanRecover \/ ~leaseLive
    /\ frame' = [frame EXCEPT !.pc = "close", !.tools = frame.reserved,
                              !.recovered = @ \/ frame.reserved > frame.tools]
    /\ UNCHANGED <<runVars, checkpoint, ledgerVars, raised, recoveries>>

\* The runner makes at most cost calls, and none when no direction applies.
Recover(calls) ==
    /\ frame.pc = "recover"
    /\ CanRecover /\ leaseLive
    /\ calls <= frame.cost /\ frame.tools + calls <= ToolBudget
    /\ recoveries' = recoveries + (IF calls > 0 THEN 1 ELSE 0)
    /\ frame' = [frame EXCEPT !.pc = "recovered", !.recovered = TRUE,
                              !.tools = Max({frame.tools + calls, frame.reserved})]
    /\ UNCHANGED <<runVars, checkpoint, ledgerVars, raised>>

\* passes: the rebuilt candidate satisfies the deterministic verifier; found:
\* the evidence is not empty, and its references replace those of before.
RecordRecovery(passes, found) ==
    /\ frame.pc = "recovered"
    /\ AdvanceThen([frame EXCEPT !.cp.evidence = @ \/ found], "recovery_completed",
                   Goto(frame, IF passes THEN "verified" ELSE "close"))
    /\ UNCHANGED <<runVars, ledgerVars, recoveries>>

\* holds: after a resumed recovery the rebuilt candidate is verified again.
RecordVerified(holds) ==
    /\ frame.pc = "verified"
    /\ ~holds => frame.resumed
    /\ AdvanceThen(frame, "deterministic_verified",
                   IF holds
                   THEN [frame EXCEPT !.pc = "prepare",
                            !.key = Target("verifier", frame.claim, frame.recovered)]
                   ELSE Goto(frame, "close"))
    /\ UNCHANGED <<runVars, ledgerVars, recoveries>>

\* The semantic receipt is written before anything else happens.
RecordJudgement ==
    /\ frame.pc = "judged" /\ frame.key \notin frame.listed
    /\ LET f == List(frame)
           new == Advance(f, f.cp.stage)
       IN  WriteThen(new, Inner(f, new))
    /\ UNCHANGED <<runVars, ledgerVars, recoveries>>

Supported ==
    /\ frame.pc = "judged" /\ frame.key \in frame.listed /\ leaseLive
    /\ AdvanceThen(frame, "semantic_verified", Goto(frame, "close"))
    /\ UNCHANGED <<runVars, ledgerVars, recoveries>>

\* A first refusal may be recovered from, a second one ends the claim.
Unsupported(cost) ==
    /\ frame.pc = "judged" /\ frame.key \in frame.listed /\ leaseLive
    /\ frame' = IF frame.semantic THEN Goto(frame, "close")
                ELSE [frame EXCEPT !.pc = "failed", !.cost = cost, !.semantic = TRUE]
    /\ UNCHANGED <<runVars, checkpoint, ledgerVars, raised, recoveries>>

\* The claim's result is appended before the next candidate is looked at.
CloseClaim ==
    /\ frame.pc = "close" /\ leaseLive
    /\ LET f == [frame EXCEPT !.pc = "loop", !.todo = @ \ {frame.claim}]
           new == [Advance(f, "semantic_verified") EXCEPT
                      !.completed = @ \cup {frame.claim}]
       IN  WriteThen(new, Outer(f, new))
    /\ UNCHANGED <<runVars, ledgerVars, recoveries>>

-----------------------------------------------------------------------------
(* The end of an attempt *)

\* RunWorker: complete, unless the lease is lost or refused.
CompleteRun ==
    /\ frame.pc = "done" /\ leaseLive
    /\ status' = frame.outcome
    /\ frame' = IdleFrame
    /\ UNCHANGED <<leaseLive, checkpoint, ledgerVars, raised, recoveries>>

\* The heartbeat finds the lease gone.
LoseLease ==
    /\ frame.pc # "idle" /\ leaseLive
    /\ leaseLive' = FALSE
    /\ UNCHANGED <<status, checkpoint, ledgerVars, frame, raised, recoveries>>

\* The lease is seen lost, a store, audit or tool call raises, or the process dies.
AttemptEnds ==
    /\ frame.pc # "idle"
    /\ frame' = IdleFrame
    /\ UNCHANGED <<runVars, checkpoint, ledgerVars, raised, recoveries>>

\* reconcile_expired.
Interrupt ==
    /\ status = "running" /\ frame.pc = "idle"
    /\ status' = "interrupted"
    /\ UNCHANGED <<leaseLive, checkpoint, ledgerVars, frame, raised, recoveries>>

SendStep ==
    \/ PrepareGeneration \/ Transmit \/ RefuseSend \/ Receive
    \/ \E outcome \in {"failed", "refused"} : ReceiveError(outcome)
    \/ \E state \in SendState \ {"none"} : SendAborts(state)
    \/ HandleError

\* The round after a semantic recovery takes the same steps once more.
ClaimStep ==
    \/ \E c \in Claim : ClaimInsufficient(c) \/ ClaimPasses(c)
    \/ \E c \in Claim, cost \in 0..2 : ClaimFails(c, cost)
    \/ ReserveRecovery \/ NoRecovery
    \/ \E calls \in 0..2 : Recover(calls)
    \/ \E passes, found \in BOOLEAN : RecordRecovery(passes, found)
    \/ \E holds \in BOOLEAN : RecordVerified(holds)
    \/ RecordJudgement \/ Supported
    \/ \E cost \in {0, 2} : Unsupported(cost)
    \/ CloseClaim

Next ==
    \/ FirstCheckpoint \/ Resume
    \/ \E restored \in BOOLEAN : Enter(restored)
    \/ SendStep
    \/ RecordPlan
    \/ \E calls \in 1..ToolBudget : Collect(calls)
    \/ \E found \in BOOLEAN : RecordEvidence(found)
    \/ \E batch \in SUBSET Claim :
           /\ batch # {} /\ IsFiniteSet(batch) /\ Cardinality(batch) <= MaxClaims
           /\ RecordCandidates(batch)
    \/ AcceptBatch \/ CompleteAttempt
    \/ ClaimStep
    \/ CompleteRun \/ LoseLease \/ AttemptEnds \/ Interrupt

Spec == Init /\ [][Next]_vars

-----------------------------------------------------------------------------
(* Properties *)

Sent == {k \in SendKey : sends[k] # "none"}

\* _prepare_generation writes before the send, so whatever crashes the run, no
\* attempt sends under a key that an earlier one used, and all attempts
\* together send no more than the generation budget allows.
SendsAnnounced ==
    /\ Sent # {} => Sent \subseteq checkpoint.generations
    /\ Cardinality(Sent) <= GenerationBudget
    /\ frame.pc = "ready" => frame.key \notin Sent

\* The reservation of recovery outlives the process: MCP is called for recovery
\* in one attempt of the run at most, and only once the checkpoint says so.
RecoveryOnce ==
    /\ recoveries <= 1
    /\ recoveries > 0 => checkpoint.recovery

\* Nothing that run_l2_attempt builds with model_copy, which validates nothing,
\* is a checkpoint that the next read or write would reject.
CheckpointValid ==
    /\ checkpoint # NoRow => Valid(checkpoint)
    /\ raised # "body"

\* An answered run has a result for every candidate of the batch it counted,
\* over however many attempts the results were collected.
AnsweredIsComplete ==
    status = "answered" =>
        /\ checkpoint.count > 0
        /\ Cardinality(checkpoint.completed) = checkpoint.count

-----------------------------------------------------------------------------
(* What the repository's documents say and the code does not do *)

\* "A proposed insufficient_evidence needs no semantic gate and remains
\* insufficient": run_l2_attempt only takes steps the stage table allows.
LegalPaths == raised # "stage"
=============================================================================
