--------------------------- MODULE EgressEnforcer ---------------------------
(***************************************************************************)
(* The cap arithmetic of egress/enforcer.py: which requests may be priced  *)
(* at all (_derive) and how one admitted request moves the two budget      *)
(* scopes (_apply_usage, _apply_corpus_usage).  Pure operators, no state.  *)
(*                                                                         *)
(* An excerpt is its disclosure id; tokens and bytes are checked by the    *)
(* same comparisons, so one size stands for both.  Callers deduplicate the *)
(* excerpts of one request, hence a request carries a set of them.  An id  *)
(* is derived from the quote and its span and has one size here, so the    *)
(* refusal disclosure_fact_mismatch of _apply_usage does not arise.        *)
(***************************************************************************)
EXTENDS Integers, FiniteSets

CONSTANTS
    Disclosure,     \* disclosure ids: one quote at one span of the corpus
    Size,           \* token size of a set of disclosures
    Document,       \* document ids of the frozen corpus
    Policy,         \* policy hashes
    Caps,           \* the caps each policy holds
    Root,           \* evaluation_root_id
    Run,            \* run_id
    Claim,          \* atomic_claim_id
    NoClaim,        \* payload kinds without an atomic claim
    Key,            \* idempotency keys
    Request         \* the requests callers build

Level == {"L1", "L2"}
Stage == {"planning", "evidence", "compliance", "verifier", "judge"}
Kind == {"l1_query", "l1_plan", "l2_design", "l2_atomic_claim", "judge"}

UniqueCap == [excerpts : Nat, tokens : Nat]

CapVectors ==
    [allow : [Stage -> SUBSET Kind],
     excerpt : Nat, text : [Kind -> Nat], tocPerCall : Nat, tocPerRun : Nat,
     maxClaims : Nat, claim : UniqueCap,
     online : [Level -> UniqueCap], onlineTransmitted : [Level -> Nat],
     judge : UniqueCap, judgeTransmitted : Nat,
     root : [Level -> UniqueCap], rootTransmitted : [Level -> Nat],
     corpus : UniqueCap, priced : SUBSET Document,
     document : [Document -> UniqueCap]]

\* `bound` : the version metadata match the manifest in the store, the route
\* is the one it names and the token counter belongs to that route. `calls` :
\* max_tool_calls of an L1PlanPayload.
RequestType ==
    [root : Root, run : Run, key : Key, level : Level, stage : Stage,
     kind : Kind, doc : Document, claim : Claim \cup {NoClaim},
     facts : SUBSET Disclosure, text : Nat, toc : Nat, calls : Nat, bound : BOOLEAN]

\* The size of a set is the sum of its members' sizes, which are positive.
ASSUME SizeAssumption ==
    /\ Size \in [SUBSET Disclosure -> Nat]
    /\ Size[{}] = 0
    /\ \A S, T \in SUBSET Disclosure :
           S \cap T = {} => Size[S \cup T] = Size[S] + Size[T]

ASSUME EnforcerAssumption ==
    /\ Caps \in [Policy -> CapVectors]
    /\ Request \subseteq RequestType
    /\ NoClaim \notin Claim
    /\ \A q \in Request : q.claim # NoClaim <=> q.kind = "l2_atomic_claim"

-----------------------------------------------------------------------------
(* Admission that needs no usage: EgressPolicyEnforcer._derive. *)

\* _payload_task_level: a plan of six tool calls is an L1 plan.
KindLevel(q) ==
    \/ q.kind = "judge"
    \/ q.kind = "l1_query" /\ q.level = "L1"
    \/ q.kind = "l1_plan" /\ q.level = IF q.calls = 6 THEN "L1" ELSE "L2"
    \/ q.kind \in {"l2_design", "l2_atomic_claim"} /\ q.level = "L2"

Derive(q, p, authorized) ==
    /\ KindLevel(q)
    /\ q.kind \in Caps[p].allow[q.stage]
    /\ q.bound
    /\ authorized
    /\ q.doc \in Caps[p].priced
    /\ q.text <= Caps[p].text[q.kind]
    /\ \A d \in q.facts : Size[{d}] <= Caps[p].excerpt
    /\ q.toc <= Caps[p].tocPerCall

WithinUnique(S, cap) == Cardinality(S) <= cap.excerpts /\ Size[S] <= cap.tokens

-----------------------------------------------------------------------------
(* The evaluation-root scope: UsageSnapshot and _apply_usage. *)

RunUsage ==
    [facts : SUBSET Disclosure, transmitted : Nat, toc : Nat,
     claims : SUBSET Claim, claimFacts : [Claim -> SUBSET Disclosure]]

UsageSnapshot ==
    [level : Level, policy : Policy, facts : SUBSET Disclosure,
     transmitted : Nat, judge : SUBSET Disclosure, judgeTransmitted : Nat,
     runs : [Run -> RunUsage]]

EmptyRunUsage ==
    [facts |-> {}, transmitted |-> 0, toc |-> 0, claims |-> {},
     claimFacts |-> [c \in Claim |-> {}]]

EmptyUsage(q, p) ==
    [level |-> q.level, policy |-> p, facts |-> {}, transmitted |-> 0,
     judge |-> {}, judgeTransmitted |-> 0,
     runs |-> [r \in Run |-> EmptyRunUsage]]

UpdatedClaims(u, q) ==
    [u EXCEPT !.claims = @ \cup {q.claim},
              !.claimFacts[q.claim] = @ \cup q.facts]

ApplyToRun(u, q) ==
    LET counted == [u EXCEPT !.facts = @ \cup q.facts,
                             !.transmitted = @ + Size[q.facts],
                             !.toc = @ + q.toc]
    IN  IF q.claim = NoClaim THEN counted ELSE UpdatedClaims(counted, q)

\* Mutant: transmitted counts an excerpt only the first time.
ApplyUsageUnseenOnly(u, q) ==
    LET shared == [u EXCEPT !.facts = @ \cup q.facts,
                            !.transmitted = @ + Size[q.facts \ u.facts]]
    IN  IF q.stage = "judge"
        THEN [shared EXCEPT !.judge = @ \cup q.facts,
                            !.judgeTransmitted = @ + Size[q.facts]]
        ELSE [shared EXCEPT !.runs[q.run] = ApplyToRun(@, q)]

ApplyUsage(u, q) ==
    LET shared == [u EXCEPT !.facts = @ \cup q.facts,
                            !.transmitted = @ + Size[q.facts]]
    IN  IF q.stage = "judge"
        THEN [shared EXCEPT !.judge = @ \cup q.facts,
                            !.judgeTransmitted = @ + Size[q.facts]]
        ELSE [shared EXCEPT !.runs[q.run] = ApplyToRun(@, q)]

\* _apply_to_run and _updated_claim_usage: the claim caps bite only for a
\* request that names a claim, and then only for that claim.
RunAdmits(u, q, level, caps) ==
    /\ q.claim # NoClaim =>
           /\ Cardinality(u.claims) <= caps.maxClaims
           /\ WithinUnique(u.claimFacts[q.claim], caps.claim)
    /\ WithinUnique(u.facts, caps.online[level])
    /\ u.transmitted <= caps.onlineTransmitted[level]
    /\ u.toc <= caps.tocPerRun

\* Mutant: the run scope is not looked at.
UsageAdmitsRootOnly(u, q, caps) ==
    /\ WithinUnique(u.facts, caps.root[u.level])
    /\ u.transmitted <= caps.rootTransmitted[u.level]

\* What _apply_usage requires of the snapshot it returns for request q: the
\* shared scope, then the judge's or the request's own run's.
UsageAdmits(u, q, caps) ==
    /\ WithinUnique(u.facts, caps.root[u.level])
    /\ u.transmitted <= caps.rootTransmitted[u.level]
    /\ IF q.stage = "judge"
       THEN /\ WithinUnique(u.judge, caps.judge)
            /\ u.judgeTransmitted <= caps.judgeTransmitted
       ELSE RunAdmits(u.runs[q.run], q, u.level, caps)

-----------------------------------------------------------------------------
(* The corpus scope: CorpusUsage and _apply_corpus_usage. *)

Account == [facts : SUBSET Disclosure, tokens : Nat]

CorpusUsage ==
    [policy : Policy, facts : SUBSET Disclosure, tokens : Nat,
     docs : [Document -> Account]]

EmptyCorpusUsage(p) ==
    [policy |-> p, facts |-> {}, tokens |-> 0,
     docs |-> [d \in Document |-> [facts |-> {}, tokens |-> 0]]]

\* Only facts not known yet are added to the running total.
AppliedDocument(a, q) ==
    [facts |-> a.facts \cup q.facts, tokens |-> a.tokens + Size[q.facts \ a.facts]]

\* Mutant: the totals move, the list of disclosures does not.
ApplyCorpusUsageTotalsOnly(c, q) ==
    [c EXCEPT !.tokens = @ + Size[q.facts \ c.facts],
              !.docs[q.doc] = AppliedDocument(@, q)]

ApplyCorpusUsage(c, q) ==
    [c EXCEPT !.facts = @ \cup q.facts,
              !.tokens = @ + Size[q.facts \ c.facts],
              !.docs[q.doc] = AppliedDocument(@, q)]

WithinAccount(a, cap) ==
    Cardinality(a.facts) <= cap.excerpts /\ a.tokens <= cap.tokens

\* Mutant: only the pooled corpus cap is checked.
CorpusAdmitsPooled(c, q, caps) == WithinAccount(c, caps.corpus)

CorpusAdmits(c, q, caps) ==
    /\ WithinAccount(c, caps.corpus)
    /\ WithinAccount(c.docs[q.doc], caps.document[q.doc])

=============================================================================
