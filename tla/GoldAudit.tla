----------------------------- MODULE GoldAudit -----------------------------
(***************************************************************************)
(* The annotation commands of the command line (cli.py) over the stores of *)
(* PoolingStore: an author adds, reviews, deep-reviews and retires items   *)
(* and registers audit runs, while reviewers work through runs with        *)
(* pool-review, each in a process of its own. A command reads the stores   *)
(* when it starts, may wait for a human for a long time, and then checks   *)
(* and writes its records one by one. Nothing locks the stores: another    *)
(* process may write between any two reads, and between a check and the    *)
(* write that it was made for. A command may be interrupted at any step.   *)
(*                                                                         *)
(* Session pc (what it does next):                                         *)
(*   heads, decisions, supersessions, applications, retirements            *)
(*               reads the records of that name                            *)
(*   items       takes the next item of the run                            *)
(*   asked       has printed the review sheet                              *)
(*   deciding    create_decision reads the decisions                       *)
(*   comparing   create_decision reads the supersessions and compares      *)
(*   writing     create_decision writes                                    *)
(*   replacing   supersede_decision reads the decisions                    *)
(*   swapping    supersede_decision reads the supersessions and compares   *)
(*   replaced    supersede_decision writes the replacement                 *)
(*   superseding supersede_decision writes the supersession                *)
(*   decided     apply_decision amends the annotation                      *)
(*   amended     apply_decision writes the application                     *)
(*   applied     reads the applications again                              *)
(*   blocked     reads the supersessions and looks for blocked heads       *)
(*   sealing     reads the decisions to be sealed                          *)
(*   applying    reads the applications to be sealed                       *)
(*   checking    seal_run                                                  *)
(*   signing     create_seal writes                                        *)
(*                                                                         *)
(* All runs use one retrieval configuration, with the same candidates for  *)
(* every item.                                                             *)
(***************************************************************************)
EXTENDS PoolingStore

CONSTANTS
    Candidate,      \* the clauses retrieved for an item
    Reviewer,       \* pool-review sessions
    MaxRuns, MaxDecisions, MaxAuthored, MaxChain, MaxOpens

ASSUME AuditAssumption == Candidate \subseteq Clause /\ MaxOpens \in Nat

VARIABLES
    author,         \* the author's command in progress
    session,        \* the pool-review of each reviewer
    opens           \* sessions opened so far

vars == <<annotationVars, poolVars, author, session, opens>>

NoAuthor == [at |-> "idle", anno |-> NoAnnotation, added |-> {}, run |-> <<>>]

NoSession == [at |-> "idle", run |-> <<>>, heads |-> <<>>, seen |-> <<>>,
              known |-> <<>>, gone |-> {}, applied |-> {}, todo |-> {},
              item |-> NoAnnotation, old |-> NoDecision, dec |-> NoDecision]

SessionPc ==
    {"idle", "heads", "decisions", "supersessions", "applications", "retirements",
     "items", "asked", "deciding", "comparing", "writing", "replacing", "swapping",
     "replaced", "superseding", "decided", "amended", "applied", "blocked", "sealing",
     "applying", "checking", "signing"}

Init ==
    /\ AnnotationInit /\ PoolInit
    /\ author = NoAuthor
    /\ session = [r \in Reviewer |-> NoSession]
    /\ opens = 0

TypeOK ==
    /\ AnnotationTypeOK /\ PoolTypeOK
    /\ author.at \in {"idle", "reviewed", "reading", "found", "registering"}
    /\ \A r \in Reviewer :
         LET s == session[r] IN
         /\ s.at \in SessionPc
         /\ s.at # "idle" => /\ s.run \in runs /\ s.todo \subseteq DOMAIN s.run
                             /\ s.gone \subseteq retired
                             /\ s.applied \subseteq StoredDecisions
         /\ s.known # <<>> => \A i \in Item : ToSet(s.known[i]) \subseteq ToSet(decs[i])
         /\ s.at \in {"superseding", "decided", "amended"} =>
              s.dec \in StoredDecisions
    /\ opens \in 0..MaxOpens
-----------------------------------------------------------------------------
(* The author.                                                             *)

\* The records of reviews and deep reviews, which MaxAuthored bounds.
Authored == Cardinality(reviews) + Cardinality(findings)

\* annotation add
Add(i, g) ==
    /\ author.at = "idle"
    /\ Create(RootRecord(i, g))
    /\ UNCHANGED <<retired, reviews, findings, poolVars, author, session, opens>>

\* annotation review: an accepted proposal becomes a record first and a
\* decision second; a rejected one is a decision only.
ReviewAccept(i, g) ==
    /\ author.at = "idle"
    /\ Authored < MaxAuthored
    /\ Create(RootRecord(i, g))
    /\ author' = [NoAuthor EXCEPT !.at = "reviewed", !.anno = RootRecord(i, g)]
    /\ UNCHANGED <<retired, reviews, findings, poolVars, session, opens>>

ReviewDecided ==
    /\ author.at = "reviewed"
    /\ reviews' = reviews \cup {[item |-> author.anno.item, anno |-> author.anno]}
    /\ author' = NoAuthor
    /\ UNCHANGED <<annos, retired, findings, poolVars, session, opens>>

ReviewReject(i) ==
    /\ author.at = "idle"
    /\ Authored < MaxAuthored
    /\ reviews' = reviews \cup {[item |-> i, anno |-> NoAnnotation]}
    /\ UNCHANGED <<annos, retired, findings, poolVars, author, session, opens>>

\* annotation deep-review: the record is the last of the item's in hash order.
DeepOpen(i) ==
    /\ author.at = "idle"
    /\ annos[i] # <<>>
    /\ author' = [NoAuthor EXCEPT !.at = "reading", !.anno = Last(annos[i])]
    /\ UNCHANGED <<annotationVars, poolVars, session, opens>>

\* Mutant: the finding is left out when the gold is amended.
DeepFindingUnwritten(added) ==
    /\ author.at = "reading"
    /\ Authored < MaxAuthored
    /\ added \cap author.anno.gold = {}
    /\ author.anno.gold # {} \/ added = {}
    /\ findings' = IF added = {} THEN findings \cup {[anno |-> author.anno, added |-> {}]}
                   ELSE findings
    /\ author' = IF added = {} THEN NoAuthor
                 ELSE [author EXCEPT !.at = "found", !.added = added]
    /\ UNCHANGED <<annos, retired, reviews, poolVars, session, opens>>

\* The finding is stored, and names the clauses still owed if there are any.
DeepFinding(added) ==
    /\ author.at = "reading"
    /\ Authored < MaxAuthored
    /\ added \cap author.anno.gold = {}
    /\ author.anno.gold # {} \/ added = {}
    /\ findings' = findings \cup {[anno |-> author.anno, added |-> added]}
    /\ author' = IF added = {} THEN NoAuthor
                 ELSE [author EXCEPT !.at = "found", !.added = added]
    /\ UNCHANGED <<annos, retired, reviews, poolVars, session, opens>>

ChainLength(a) ==
    IF a.pred = NoAnnotation THEN 0
    ELSE IF a.pred.pred = NoAnnotation THEN 1
    ELSE IF a.pred.pred.pred = NoAnnotation THEN 2 ELSE 3

DeepAmend ==
    /\ author.at = "found"
    /\ ChainLength(author.anno) < MaxChain
    /\ Amend(author.anno, author.added, "deep")
    /\ author' = NoAuthor
    /\ UNCHANGED <<retired, reviews, findings, poolVars, session, opens>>

\* annotation retire
RetireItem(i) ==
    /\ author.at = "idle"
    /\ Retire(i)
    /\ UNCHANGED <<poolVars, author, session, opens>>

\* _audited_item_ids
Audited ==
    {i \in Item : \E r \in SealedRuns : i \in DOMAIN r
        /\ \E d \in HeadDecisions(decs[i], r) : d \in AppliedTo(r)}

\* annotation pool-register reads the heads, and encodes every question before
\* it creates the run.
RegisterOpen ==
    /\ author.at = "idle"
    /\ Cardinality(runs) < MaxRuns
    /\ HeadsReadable
    /\ LET wanted == {i \in Item : HeadsOf(i) # {}} \ (retired \cup Audited) IN
         /\ wanted # {}
         /\ author' = [NoAuthor EXCEPT !.at = "registering",
                         !.run = [i \in wanted |-> CurrentHead(i)]]
    /\ UNCHANGED <<annotationVars, poolVars, session, opens>>

Register ==
    /\ author.at = "registering"
    /\ CreateRun(author.run)
    /\ author' = NoAuthor
    /\ UNCHANGED <<annotationVars, session, opens>>

\* Refusals, errors, an interrupt or a crash.
AuthorStops ==
    /\ author.at # "idle"
    /\ author' = NoAuthor
    /\ UNCHANGED <<annotationVars, poolVars, session, opens>>
-----------------------------------------------------------------------------
(* annotation pool-review.                                                 *)

At(r, pc) == session[r].at = pc

\* A run that is sealed is reported and left alone.
Open(r, run) ==
    /\ At(r, "idle") /\ opens < MaxOpens
    /\ run \in runs \ SealedRuns
    /\ opens' = opens + 1
    /\ session' = [session EXCEPT ![r] = [NoSession EXCEPT !.at = "heads", !.run = run]]
    /\ UNCHANGED <<annotationVars, poolVars, author>>

ReadHeads(r) ==
    /\ At(r, "heads")
    /\ HeadsReadable
    /\ session' = [session EXCEPT ![r].at = "decisions",
         ![r].heads = [i \in DOMAIN session[r].run |-> CurrentHead(i)]]
    /\ UNCHANGED <<annotationVars, poolVars, author, opens>>

\* read_decisions, in every place where it comes before read_supersessions: at
\* the start, in create_decision and supersede_decision, and before sealing.
ReadDecisions(r, from, to) ==
    /\ At(r, from)
    /\ session' = [session EXCEPT ![r].at = to, ![r].known = decs]
    /\ UNCHANGED <<annotationVars, poolVars, author, opens>>

ReadSupersessions(r) ==
    LET s == session[r] IN
    /\ At(r, "supersessions")
    /\ session' = [session EXCEPT ![r].at = "applications", ![r].known = <<>>,
         ![r].seen = [i \in DOMAIN s.run |-> HeadDecision(s.known[i], s.run)]]
    /\ UNCHANGED <<annotationVars, poolVars, author, opens>>

\* read_applications: at the start, after each application, before sealing.
ReadApplications(r, from, to) ==
    /\ At(r, from)
    /\ session' = [session EXCEPT ![r].at = to, ![r].applied = AppliedTo(session[r].run)]
    /\ UNCHANGED <<annotationVars, poolVars, author, opens>>

ReadRetirements(r) ==
    /\ At(r, "retirements")
    /\ session' = [session EXCEPT ![r].at = "items", ![r].gone = retired,
                                  ![r].todo = DOMAIN session[r].run]
    /\ UNCHANGED <<annotationVars, poolVars, author, opens>>

Passed(s, i) == i \in s.gone \/ s.seen[i] \in s.applied

SkipItem(r, i) ==
    /\ At(r, "items") /\ i \in session[r].todo
    /\ Passed(session[r], i)
    /\ session' = [session EXCEPT ![r].todo = @ \ {i}]
    /\ UNCHANGED <<annotationVars, poolVars, author, opens>>

\* A judgement recorded earlier is applied without asking again.
TakeStored(r, i) ==
    LET s == session[r] IN
    /\ At(r, "items") /\ i \in s.todo
    /\ ~Passed(s, i)
    /\ s.seen[i] # NoDecision /\ ~Blocked(s.seen[i])
    /\ session' = [session EXCEPT ![r].at = "deciding", ![r].item = i,
                                  ![r].dec = s.seen[i], ![r].old = NoDecision]
    /\ UNCHANGED <<annotationVars, poolVars, author, opens>>

\* Otherwise the reviewer is asked, if the item's head is the one registered.
Ask(r, i) ==
    LET s == session[r] IN
    /\ At(r, "items") /\ i \in s.todo
    /\ ~Passed(s, i)
    /\ s.seen[i] = NoDecision \/ Blocked(s.seen[i])
    /\ s.heads[i] = s.run[i]
    /\ session' = [session EXCEPT ![r].at = "asked", ![r].item = i,
                                  ![r].old = s.seen[i]]
    /\ UNCHANGED <<annotationVars, poolVars, author, opens>>

Choice(s) ==
    [run : {s.run}, item : {s.item}, anno : {s.run[s.item]}, outcome : {"complete", "blocked"},
     sel : {{}}, by : Stamp]
    \cup [run : {s.run}, item : {s.item}, anno : {s.run[s.item]}, outcome : {"extended"},
          sel : (SUBSET Candidate) \ {{}}, by : Stamp]

\* An answer replaces the blocked decision that was shown, or is a first one: a
\* blocked one is recorded at once, a judgement by apply_decision.
Answer(r) ==
    LET s == session[r] IN
    /\ At(r, "asked")
    /\ Cardinality(StoredDecisions) < MaxDecisions
    /\ \E d \in Choice(s) :
         session' = [session EXCEPT ![r].dec = d,
           ![r].at = IF s.old = NoDecision THEN "deciding" ELSE "replacing"]
    /\ UNCHANGED <<annotationVars, poolVars, author, opens>>

\* supersede_decision
Swap(r) ==
    LET s == session[r] IN
    /\ At(r, "swapping")
    /\ SupersedeAccepts(s.known[s.item], s.old)
    /\ session' = [session EXCEPT ![r].at = "replaced", ![r].known = <<>>]
    /\ UNCHANGED <<annotationVars, poolVars, author, opens>>

Replace(r) ==
    /\ At(r, "replaced")
    /\ WriteDecision(session[r].dec)
    /\ session' = [session EXCEPT ![r].at = "superseding"]
    /\ UNCHANGED <<annotationVars, runs, supers, apps, seals, author, opens>>

\* The session goes on with the next item after a blocked answer.
NextItem(s) == [s EXCEPT !.at = "items", !.todo = @ \ {s.item}]

Supersede(r) ==
    LET s == session[r] IN
    /\ At(r, "superseding")
    /\ WriteSupersession(s.old, s.dec)
    /\ session' = [session EXCEPT ![r] =
         IF Blocked(s.dec) THEN NextItem(s) ELSE [s EXCEPT !.at = "deciding"]]
    /\ UNCHANGED <<annotationVars, runs, decs, apps, seals, author, opens>>

\* create_decision returns.
Decided(s) == IF Blocked(s.dec) THEN NextItem(s) ELSE [s EXCEPT !.at = "decided"]

\* create_decision, called for a blocked answer or by apply_decision, which
\* first refuses to select what is gold already.
Decide(r) ==
    /\ At(r, "deciding")
    /\ session[r].dec.sel \cap session[r].dec.anno.gold = {}
    /\ ReadDecisions(r, "deciding", "comparing")

Compare(r) ==
    LET s == session[r]
        read == [s EXCEPT !.known = <<>>]
    IN
    /\ At(r, "comparing")
    /\ CreateAccepts(s.known[s.item], s.dec)
    /\ session' = [session EXCEPT ![r] =
         IF HeadDecision(s.known[s.item], s.run) = s.dec THEN Decided(read)
         ELSE [read EXCEPT !.at = "writing"]]
    /\ UNCHANGED <<annotationVars, poolVars, author, opens>>

Record(r) ==
    /\ At(r, "writing")
    /\ WriteDecision(session[r].dec)
    /\ session' = [session EXCEPT ![r] = Decided(session[r])]
    /\ UNCHANGED <<annotationVars, runs, supers, apps, seals, author, opens>>

\* apply_decision goes on with the amendment, then the application.
ApplyAmend(r) ==
    LET s == session[r] IN
    /\ At(r, "decided")
    /\ Amend(s.dec.anno, s.dec.sel, "pool")
    /\ session' = [session EXCEPT ![r].at = "amended"]
    /\ UNCHANGED <<retired, reviews, findings, poolVars, author, opens>>

ApplyRecord(r) ==
    LET s == session[r] IN
    /\ At(r, "amended")
    /\ CreateApplication(s.dec, Successor(s.dec.anno, s.dec.sel, "pool"))
    /\ session' = [session EXCEPT ![r] =
         [s EXCEPT !.at = "applied", !.todo = @ \ {s.item}, !.seen[s.item] = s.dec]]
    /\ UNCHANGED <<annotationVars, runs, decs, supers, seals, author, opens>>

\* The blocked heads are read again from the store before sealing.
Finish(r) ==
    /\ session[r].todo = {}
    /\ ReadDecisions(r, "items", "blocked")

NoneBlocked(r) ==
    LET s == session[r] IN
    /\ At(r, "blocked")
    /\ \A i \in DOMAIN s.run \ s.gone :
         \A d \in HeadDecisions(s.known[i], s.run) : ~Blocked(d)
    /\ session' = [session EXCEPT ![r].at = "sealing", ![r].known = <<>>]
    /\ UNCHANGED <<annotationVars, poolVars, author, opens>>

\* seal_run at its last read, with create_seal's refusal of a run that has a
\* seal: one found later ends the session in the same way.
Check(r) ==
    LET s == session[r] IN
    /\ At(r, "checking")
    /\ SealAccepts(s.known, s.applied, s.run, s.gone)
    /\ s.run \notin SealedRuns
    /\ session' = [session EXCEPT ![r].at = "signing", ![r].known = <<>>,
         ![r].applied = SealedDecisions(s.known, s.run, s.gone)]
    /\ UNCHANGED <<annotationVars, poolVars, author, opens>>

Seal(r) ==
    /\ At(r, "signing")
    /\ WriteSeal(session[r].run, session[r].applied)
    /\ session' = [session EXCEPT ![r] = NoSession]
    /\ UNCHANGED <<annotationVars, runs, decs, supers, apps, author, opens>>

\* Pause, a refusal, an error, an interrupt, or items still blocked.
SessionStops(r) ==
    /\ ~At(r, "idle")
    /\ session' = [session EXCEPT ![r] = NoSession]
    /\ UNCHANGED <<annotationVars, poolVars, author, opens>>
-----------------------------------------------------------------------------
AuthorStep ==
    \/ \E i \in Item, g \in Drafted : Add(i, g) \/ ReviewAccept(i, g)
    \/ \E i \in Item : ReviewReject(i) \/ DeepOpen(i) \/ RetireItem(i)
    \/ \E added \in SUBSET Clause : DeepFinding(added)
    \/ ReviewDecided \/ DeepAmend \/ RegisterOpen \/ Register \/ AuthorStops

SessionStep(r) ==
    \/ \E run \in runs : Open(r, run)
    \/ ReadHeads(r)
    \/ ReadDecisions(r, "decisions", "supersessions")
    \/ ReadSupersessions(r)
    \/ ReadApplications(r, "applications", "retirements")
    \/ ReadRetirements(r)
    \/ \E i \in Item : SkipItem(r, i) \/ TakeStored(r, i) \/ Ask(r, i)
    \/ Answer(r)
    \/ ReadDecisions(r, "replacing", "swapping")
    \/ Swap(r) \/ Replace(r) \/ Supersede(r)
    \/ Decide(r) \/ Compare(r) \/ Record(r)
    \/ ApplyAmend(r) \/ ApplyRecord(r)
    \/ ReadApplications(r, "applied", "items")
    \/ Finish(r) \/ NoneBlocked(r)
    \/ ReadDecisions(r, "sealing", "applying")
    \/ ReadApplications(r, "applying", "checking")
    \/ Check(r) \/ Seal(r) \/ SessionStops(r)

Next == AuthorStep \/ \E r \in Reviewer : SessionStep(r)

Spec == Init /\ [][Next]_vars
-----------------------------------------------------------------------------
(* Properties.                                                             *)

\* What a seal certifies holds for good, whatever other processes wrote since
\* it was checked: about each item that is not retired it names exactly one
\* decision, which is a judgement of the registered annotation, was applied,
\* and whose clauses are in a stored amendment (seal_run, create_seal).
SealIsEarned ==
    \A s \in seals : \A i \in DOMAIN s.run \ retired :
      \E d \in s.decs :
        /\ \A e \in s.decs : e.item = i => e = d
        /\ d.run = s.run /\ d.item = i /\ d.anno = s.run[i] /\ ~Blocked(d)
        /\ \E a \in apps : a.dec = d /\ a.succ \in StoredAnnotations
              /\ a.succ.pred = s.run[i] /\ a.succ.gold = s.run[i].gold \cup d.sel

\* Whatever changed the gold left its evidence first: a pooled amendment its
\* decision, a deep amendment its finding, an accepted review its annotation
\* (apply_decision, _annotation_deep_review, _annotation_review).
EvidenceBeforeEffect ==
    /\ \A a \in StoredAnnotations :
         LET added == a.gold \ a.pred.gold IN
         /\ a.via = "pool" => \E d \in StoredDecisions :
              d.anno = a.pred /\ d.sel = added /\ d.outcome # "blocked"
         /\ a.via = "deep" => [anno |-> a.pred, added |-> added] \in findings
    /\ \A v \in reviews : v.anno # NoAnnotation => v.anno \in StoredAnnotations

\* Every item that is not retired has been judged and its judgement applied.
Complete(s) ==
    \A i \in DOMAIN s.run \ s.gone :
      LET d == HeadDecision(decs[i], s.run) IN
      /\ HeadDecisions(decs[i], s.run) = {d}
      /\ ~Blocked(d) /\ d \in AppliedTo(s.run)

\* A run whose items have all been judged and applied, or have left the gold
\* set, can be sealed (seal_run).
CompleteRunSeals ==
    \A r \in Reviewer :
      At(r, "sealing") /\ Complete(session[r]) /\ session[r].run \notin SealedRuns =>
        SealAccepts(decs, AppliedTo(session[r].run), session[r].run, session[r].gone)

\* A decision is superseded once: "a caller working from a stale view is refused
\* rather than silently overwriting an answer someone else has since recorded"
\* (supersede_decision).
SupersededOnce == \A s, t \in supers : s.old = t.old => s = t

\* Of one run and one item at most one judgement is applied (create_decision:
\* "that item already owns a different decision").
AuditedOnce ==
    \A a, b \in apps : a.dec.run = b.dec.run /\ a.dec.item = b.dec.item => a = b
=============================================================================
