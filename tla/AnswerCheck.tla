----------------------------- MODULE AnswerCheck -----------------------------
(***************************************************************************)
(* The pure part of the answer path: reading a provider's reply            *)
(* (answer/reply.py), checking its citations against what the request      *)
(* disclosed (answer/verify.py), and the terminal state that follows       *)
(* (runs/outcomes.py).                                                     *)
(*                                                                         *)
(* A reply is its shape and the set of evidence ids it cites; ids repeated *)
(* in it are one citation. All evidence of a request is of one corpus, so  *)
(* the cross_manifest fault cannot occur here and is left out.             *)
(***************************************************************************)
EXTENDS EvidenceAgent, FiniteSets

CONSTANTS
    MaxCitations,       \* _MAX_CITATIONS of parse_reply
    MaxChecks           \* the checks a VerifierSummaryEvent may hold

\* What parse_reply makes of a reply: unusable, a refusal, or an answer.
Reply ==
    [shape : {"unusable", "insufficient"}, cited : {{}}]
      \cup [shape : {"answer"}, cited : {h \in SUBSET Hash : Cardinality(h) <= MaxCitations}]

Faults == Hash \cup {"no_citation", "parse_fault"}

AnswerOutcome ==
    [verdict : {"answered", "refused"},
     reason : {"none", "no_evidence", "insufficient", "unverifiable"},
     citations : SUBSET Clause, faults : SUBSET Faults,
     admitted : BOOLEAN, provider : BOOLEAN]

Refused(reason, faults, admitted, provider) ==
    [verdict |-> "refused", reason |-> reason, citations |-> {}, faults |-> faults,
     admitted |-> admitted, provider |-> provider]

\* run_answer without evidence sends nothing.
NothingRetrieved == Refused("no_evidence", {}, FALSE, FALSE)

\* run_answer after a ProviderAttemptError.
ProviderFailed == Refused("insufficient", {}, TRUE, TRUE)

\* Mutant: a citation is accepted when the corpus holds it, shown or not.
VerifyAnswerOfCorpus(disclosed, cited) ==
    LET verified == {c \in Clause : ContentHash[c] \in cited} IN
    IF verified = {}
    THEN Refused("unverifiable", {"no_citation"}, TRUE, FALSE)
    ELSE [verdict |-> "answered", reason |-> "none", citations |-> verified,
          faults |-> {}, admitted |-> TRUE, provider |-> FALSE]

\* verify_answer for a reply that claims an answer. Any fault sinks the answer.
VerifyAnswer(disclosed, cited) ==
    LET shown == {ContentHash[c] : c \in ToSet(disclosed)}
        faults == cited \ shown
        verified == {c \in ToSet(disclosed) : ContentHash[c] \in cited} IN
    IF faults # {} \/ verified = {}
    THEN Refused("unverifiable", IF faults = {} THEN {"no_citation"} ELSE faults, TRUE, FALSE)
    ELSE [verdict |-> "answered", reason |-> "none", citations |-> verified,
          faults |-> {}, admitted |-> TRUE, provider |-> FALSE]

\* verify_response
VerifyResponse(disclosed, reply) ==
    IF reply.shape = "unusable" THEN Refused("insufficient", {"parse_fault"}, TRUE, FALSE)
    ELSE IF reply.shape = "insufficient" THEN Refused("insufficient", {}, TRUE, FALSE)
    ELSE VerifyAnswer(disclosed, reply.cited)

ProjectAnswerOutcome(outcome) ==
    IF outcome.provider THEN "failed"
    ELSE IF outcome.verdict = "answered" THEN "answered" ELSE "refused"
=============================================================================
