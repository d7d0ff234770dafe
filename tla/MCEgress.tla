----------------------------- MODULE MCEgress -----------------------------
(* Small instances of EgressTransport: two excerpts of one document. *)
EXTENDS EgressTransport, TLC

CONSTANT Late       \* the tasks of processes started with policy p2

\* Sizes of the two excerpts: one and two tokens.
MCSize ==
    [S \in SUBSET Disclosure |->
        (IF "d1" \in S THEN 1 ELSE 0) + (IF "d2" \in S THEN 2 ELSE 0)]

MCAllow ==
    [s \in Stage |->
        CASE s = "planning" -> {"l1_plan"}
          [] s = "judge" -> {"judge"}
          [] OTHER -> {"l1_query", "l2_design", "l2_atomic_claim"}]

Unique(n, t) == [excerpts |-> n, tokens |-> t]

\* Caps small enough that every one of them is met within three reservations.
MCCapVector(corpus, document) ==
    [allow |-> MCAllow, excerpt |-> 2, text |-> [k \in Kind |-> 1],
     tocPerCall |-> 1, tocPerRun |-> 1, maxClaims |-> 1, claim |-> Unique(1, 2),
     online |-> [l \in Level |-> Unique(2, 3)],
     onlineTransmitted |-> [l \in Level |-> 4],
     judge |-> Unique(1, 2), judgeTransmitted |-> 2,
     root |-> [l \in Level |-> Unique(2, 3)],
     rootTransmitted |-> [l \in Level |-> 5],
     corpus |-> corpus, priced |-> Document,
     document |-> [d \in Document |-> document]]

\* p2 is tighter: one excerpt of the document.
MCCaps ==
    [p \in Policy |->
        IF p = "p1" THEN MCCapVector(Unique(2, 3), Unique(2, 3))
                  ELSE MCCapVector(Unique(2, 3), Unique(1, 1))]

Design(root, run, key, facts) ==
    [root |-> root, run |-> run, key |-> key, level |-> "L2",
     stage |-> "compliance", kind |-> "l2_design", doc |-> "doc",
     claim |-> NoClaim, facts |-> facts, text |-> 1, toc |-> 1, calls |-> 0,
     bound |-> TRUE]

AtomicClaim(root, run, key, claim, facts) ==
    [Design(root, run, key, facts) EXCEPT
        !.stage = "verifier", !.kind = "l2_atomic_claim", !.claim = claim, !.toc = 0]

JudgeCall(root, run, key, facts) ==
    [Design(root, run, key, facts) EXCEPT
        !.stage = "judge", !.kind = "judge", !.toc = 0]

\* Requests that meet the root, run, claim, judge and toc caps.
BudgetRequests ==
    {Design("r1", "i1", "k1", {"d1"}),
     AtomicClaim("r1", "i1", "k2", "c1", {"d2"}),
     AtomicClaim("r1", "i1", "k3", "c2", {"d1"}),
     JudgeCall("r1", "i2", "k1", {"d2"})}

\* Requests of two roots under racing rebinds.
RebindRequests ==
    {Design("r1", "i1", "k1", {"d1"}), Design("r2", "i1", "k1", {"d1", "d2"})}

MCPolicyOf == [t \in Task |-> IF t \in Late THEN "p2" ELSE "p1"]

\* Uuids are interchangeable, and so are the tasks of one policy.
Uuids == Permutations(Reservation) \cup Permutations(Epoch)
MCSymmetry == Uuids \cup Permutations(Task \ Late) \cup Permutations(Operator)

=============================================================================
