---------------------------- MODULE PoolingStore ----------------------------
(***************************************************************************)
(* PoolingStore (retrieval/pooling.py): the runs of the completeness audit *)
(* with their decisions, supersessions, applications and seals. Records    *)
(* carry what they refer to in place of its id. No operation holds a lock: *)
(* an operation reads the directories it needs one after the other, checks *)
(* what it read, and writes afterwards. Its reads, its check and each of   *)
(* its writes are therefore steps of the session that calls it; here are   *)
(* the checks, as functions of what was read, and the writes.              *)
(***************************************************************************)
EXTENDS AnnotationStore

CONSTANT Stamp      \* the reviewer_id and elapsed_seconds of a decision

VARIABLES
    runs,           \* registered runs: each maps its items to annotations
    decs,           \* the stored decisions about each item, in hash order
    supers,         \* supersessions
    apps,           \* applications
    seals           \* the seals, each with the run and the decisions it names

poolVars == <<runs, decs, supers, apps, seals>>

PoolInit ==
    /\ runs = {} /\ supers = {} /\ apps = {} /\ seals = {}
    /\ decs = [i \in Item |-> <<>>]

Outcome == {"complete", "extended", "blocked"}

NoDecision == [outcome |-> "none"]

Blocked(d) == d.outcome = "blocked"

StoredDecisions == UNION {ToSet(decs[i]) : i \in Item}

IsDecision(d) ==
    /\ d.run \in runs /\ d.item \in DOMAIN d.run /\ d.anno = d.run[d.item]
    /\ d.outcome \in Outcome /\ d.sel \subseteq Clause /\ d.by \in Stamp
    /\ (d.sel # {}) <=> (d.outcome = "extended")

PoolTypeOK ==
    /\ \A r \in runs : \A i \in DOMAIN r : i \in Item /\ r[i] \in ToSet(annos[i])
    /\ decs \in [Item -> Seq(StoredDecisions)]
    /\ \A i \in Item : \A d \in ToSet(decs[i]) : IsDecision(d) /\ d.item = i
    /\ \A s \in supers : {s.old, s.new} \subseteq StoredDecisions
    /\ \A a \in apps : a.dec \in StoredDecisions /\ a.succ \in StoredAnnotations
    /\ \A s \in seals : s.run \in runs /\ s.decs \subseteq StoredDecisions
-----------------------------------------------------------------------------
(* What an operation makes of the decisions ds it has read about an item,  *)
(* at the moment it reads the supersessions.                               *)

\* head_decisions: the places of the decisions that nothing supersedes.
Standing(ds, r) ==
    {n \in DOMAIN ds : ds[n].run = r /\ \A s \in supers : s.old # ds[n]}

HeadDecisions(ds, r) == {ds[n] : n \in Standing(ds, r)}

\* {head.item_id: head for head in head_decisions(...)} keeps the last one.
HeadDecision(ds, r) ==
    IF Standing(ds, r) = {} THEN NoDecision ELSE ds[Max(Standing(ds, r))]

\* create_decision refuses an item that owns a different head.
CreateAccepts(ds, d) == HeadDecision(ds, d.run) \in {NoDecision, d}

\* supersede_decision: the decision to replace must still be the item's head.
SupersedeAccepts(ds, old) == Blocked(old) /\ HeadDecision(ds, old.run) = old

\* read_applications, as the decisions they name.
AppliedTo(r) == {a.dec : a \in {b \in apps : b.dec.run = r}}

SealedRuns == {s.run : s \in seals}

\* Mutant: unapplied decisions do not prevent sealing.
SealAcceptsUnapplied(known, applied, r, gone) ==
    LET live == DOMAIN r \ gone
        heads == UNION {HeadDecisions(known[i], r) : i \in live}
    IN  /\ \A i \in live : \E d \in heads : HeadDecisions(known[i], r) = {d}
        /\ \A d \in heads : d.anno = r[d.item] /\ ~Blocked(d)
        /\ applied \subseteq heads

\* seal_run, given the decisions and the applications that were read and the
\* items its caller holds to be retired.
SealAccepts(known, applied, r, gone) ==
    LET live == DOMAIN r \ gone
        heads == UNION {HeadDecisions(known[i], r) : i \in live}
    IN  /\ \A i \in live : \E d \in heads : HeadDecisions(known[i], r) = {d}
        /\ \A d \in heads : d.anno = r[d.item] /\ ~Blocked(d)
        /\ heads = applied

\* What the seal names once seal_run has accepted.
SealedDecisions(known, r, gone) ==
    UNION {HeadDecisions(known[i], r) : i \in DOMAIN r \ gone}
-----------------------------------------------------------------------------
(* The writes.                                                             *)

\* create_run: the same items may not be registered as a different run.
CreateRun(r) ==
    /\ r # <<>>
    /\ \A q \in runs : DOMAIN q = DOMAIN r => q = r
    /\ runs' = runs \cup {r}
    /\ UNCHANGED <<decs, supers, apps, seals>>

\* _write of a decision.
WriteDecision(d) ==
    \E s \in Insertions(decs[d.item], d) : decs' = [decs EXCEPT ![d.item] = s]

\* _write of a supersession; a decision cannot supersede itself.
WriteSupersession(old, d) ==
    /\ old # d
    /\ supers' = supers \cup {[old |-> old, new |-> d]}

\* create_application: the decision is stored and stays so, and it determines
\* its successor, so the checks cannot be overtaken by another process.
CreateApplication(d, succ) ==
    /\ d \in StoredDecisions
    /\ \A a \in apps : a.dec = d => a.succ = succ
    /\ apps' = apps \cup {[dec |-> d, succ |-> succ]}

\* _write of a seal; sealed_at, which makes every seal a record of its own, is
\* left out.
WriteSeal(r, named) == seals' = seals \cup {[run |-> r, decs |-> named]}
=============================================================================
