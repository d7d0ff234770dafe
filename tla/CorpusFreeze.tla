---------------------------- MODULE CorpusFreeze ----------------------------
(***************************************************************************)
(* Freezing a corpus (corpus/freezing.py): writers change a Qdrant         *)
(* collection under a shared lease, freeze_corpus observes it, snapshots   *)
(* it and publishes a manifest under the exclusive lease, and              *)
(* verify_corpus opens the collection for serving with no lease at all.    *)
(*                                                                         *)
(* A collection that holds every point of its corpus is one of Vector; all *)
(* incomplete contents are "empty". A manifest carries its predecessor in  *)
(* place of the predecessor's id, so it stands for its own content hash.   *)
(* Qdrant applies a request that its client has given up on at any later   *)
(* time, or never.                                                         *)
(***************************************************************************)
EXTENDS SecureRecords, CollectionLease

CONSTANTS
    Vector,         \* the complete contents a collection may have
    Initial,        \* what a collection may hold when the model starts
    NoManifest,
    MaxRequests,    \* mutations sent to Qdrant
    MaxSnapshots,
    MaxCrashes

ASSUME FreezeAssumption ==
    /\ NoManifest \notin Record
    /\ {"absent", "empty"} \cap Vector = {}
    /\ Initial \subseteq {"absent"} \cup Vector
    /\ Publisher = Freezer
    /\ {MaxRequests, MaxSnapshots, MaxCrashes} \subseteq Nat

VARIABLES
    content,        \* what each Qdrant collection holds
    snaps,          \* the snapshots Qdrant keeps
    call,           \* the DenseIndexWriter call of each thread
    orphans,        \* requests whose client has given up, still to be applied
    fz,             \* each freeze_corpus in progress
    reader,         \* the manifest verify_corpus is checking
    reported,       \* manifests freeze_corpus has returned
    serving,        \* manifests that have been given a VerifiedCorpus
    late,           \* orphans that changed a collection frozen or being frozen
    sent, crashes   \* counters of the bounds

freezeVars == <<content, snaps, call, orphans, fz, reader, reported, serving,
                late, sent, crashes>>
vars == <<recordVars, leaseVars, freezeVars>>

Content == {"absent", "empty"} \cup Vector
Request == [id : 1..MaxRequests, coll : Collection,
            kind : {"create", "upsert", "drop"}, vec : Content]
Snapshot == [coll : Collection, id : 1..MaxSnapshots, of : Content]

\* A call of DenseIndexWriter and a call of freeze_corpus.
DenseCall ==
    [at : {"idle", "begun", "sent", "created", "done"}, id : 0..MaxRequests,
     kind : {"none", "create", "upsert", "drop"}, vec : Content]
Freeze ==
    [at : {"idle", "locked", "observed", "allowed", "snapped", "reobserved", "publishing"},
     coll : Collection \cup {NoCollection}, pred : Record \cup {NoManifest},
     inv : Content, snap : 0..MaxSnapshots]

NoCall == [at |-> "idle", id |-> 0, kind |-> "none", vec |-> "empty"]
NoFreeze == [at |-> "idle", coll |-> NoCollection, pred |-> NoManifest,
             inv |-> "absent", snap |-> 0]

Init ==
    /\ RecordsInit /\ LeaseInit
    /\ content \in [Collection -> Initial]
    /\ snaps = {} /\ orphans = {} /\ reported = {} /\ serving = {}
    /\ call = [w \in Writer |-> [t \in Thread |-> NoCall]]
    /\ fz = [f \in Freezer |-> NoFreeze]
    /\ reader = NoManifest
    /\ late = [c \in Collection |-> 0]
    /\ sent = 0 /\ crashes = 0

TypeOK ==
    /\ RecordsTypeOK /\ LeaseTypeOK
    /\ content \in [Collection -> Content]
    /\ snaps \subseteq Snapshot /\ orphans \subseteq Request
    /\ call \in [Writer -> [Thread -> DenseCall]]
    /\ fz \in [Freezer -> Freeze]
    /\ reader \in Record \cup {NoManifest}
    /\ reported \subseteq Record /\ serving \subseteq reported
    /\ late \in [Collection -> Nat]
    /\ sent \in 0..MaxRequests /\ crashes \in 0..MaxCrashes
-----------------------------------------------------------------------------
(* Writers.                                                                *)

\* Mutant: the manifests of the collection are looked up by another name.
BoundElsewhere(c) == {m \in Stored : m.coll = NoCollection}

\* The manifests that bind a collection.
Bound(c) == {m \in Stored : m.coll = c}

Acquire(w, c) ==
    /\ AcquireWriteLease(w, c)
    /\ UNCHANGED <<recordVars, freezeVars>>

\* acquire_write_lease reads every manifest under the lease; a failed read and
\* a manifest of this collection both close the lease.
Grant(w) ==
    /\ lease[w].phase = "checking"
    /\ ScanPasses /\ Bound(lease[w].coll) = {}
    /\ IssueWriteLease(w)
    /\ UNCHANGED <<recordVars, freezeVars>>

Deny(w) ==
    /\ lease[w].phase = "checking"
    /\ ReleaseWriteLease(w)
    /\ UNCHANGED <<recordVars, depth, freezeVars>>

\* A call of DenseIndexWriter: create, upsert of some points, drop, or one
\* that mutates nothing (open, and upsert of no points).
Begin(w, t) ==
    /\ call[w][t].at = "idle"
    /\ EnterOperation(w, t)
    /\ \E kind \in {"none", "create", "upsert", "drop"} :
       \E v \in IF kind = "upsert" THEN Vector ELSE {"empty"} :
         call' = [call EXCEPT ![w][t] =
                    [at |-> IF kind = "none" THEN "done" ELSE "begun",
                     id |-> 0, kind |-> kind, vec |-> v]]
    /\ UNCHANGED <<recordVars, content, snaps, orphans, fz, reader, reported,
                   serving, late, sent, crashes>>

Send(w, t) ==
    /\ call[w][t].at = "begun"
    /\ sent < MaxRequests
    /\ sent' = sent + 1
    /\ call' = [call EXCEPT ![w][t].at = "sent", ![w][t].id = sent + 1]
    /\ UNCHANGED <<recordVars, leaseVars, content, snaps, orphans, fz, reader,
                   reported, serving, late, crashes>>

\* Qdrant: a collection is created only where there is none, and points are
\* stored only in one that exists.
Applied(old, kind, v) ==
    IF kind = "create" THEN IF old = "absent" THEN "empty" ELSE old
    ELSE IF kind = "upsert" THEN IF old = "absent" THEN old ELSE v
    ELSE "absent"

Answered(w, t) ==
    /\ call[w][t].at = "sent"
    /\ LET c == lease[w].coll
           r == call[w][t]
           new == r.kind = "create" /\ content[c] = "absent"
       IN  /\ content' = [content EXCEPT ![c] = Applied(@, r.kind, r.vec)]
           /\ call' = [call EXCEPT ![w][t].at = IF new THEN "created" ELSE "done"]
    /\ UNCHANGED <<recordVars, leaseVars, snaps, orphans, fz, reader, reported,
                   serving, late, sent, crashes>>

Abandoned(w, T) ==
    {[id |-> call[w][t].id, coll |-> lease[w].coll, kind |-> call[w][t].kind,
      vec |-> call[w][t].vec] : t \in {u \in T : call[w][u].at = "sent"}}

\* DenseBackendUnavailable: the client stops waiting, the request is out.
TimesOut(w, t) ==
    /\ call[w][t].at = "sent"
    /\ orphans' = orphans \cup Abandoned(w, {t})
    /\ call' = [call EXCEPT ![w][t].at = "done"]
    /\ UNCHANGED <<recordVars, leaseVars, content, snaps, fz, reader, reported,
                   serving, late, sent, crashes>>

\* create constructs the writer inside its own operation, and __post_init__
\* enters the lease a second time, which may be closing by now.
Construct(w, t) ==
    /\ call[w][t].at = "created"
    /\ EnterOperation(w, t)
    /\ call' = [call EXCEPT ![w][t].at = "done"]
    /\ UNCHANGED <<recordVars, content, snaps, orphans, fz, reader, reported,
                   serving, late, sent, crashes>>

\* The operation ends, also when a bound kept its request from being sent.
End(w, t) ==
    /\ \/ call[w][t].at = "done"
       \/ call[w][t].at = "begun" /\ sent = MaxRequests
    /\ LeaveOperation(w, t)
    /\ call' = [call EXCEPT ![w][t] = NoCall]
    /\ UNCHANGED <<recordVars, content, snaps, orphans, fz, reader, reported,
                   serving, late, sent, crashes>>

Close(w) ==
    /\ \E t \in Thread : BeginClose(w, t)
    /\ UNCHANGED <<recordVars, freezeVars>>

CloseEnds(w) ==
    /\ FinishClose(w)
    /\ UNCHANGED <<recordVars, freezeVars>>

WriterDies(w) ==
    /\ crashes < MaxCrashes
    /\ crashes' = crashes + 1
    /\ LeaseDies(w)
    /\ orphans' = orphans \cup Abandoned(w, Thread)
    /\ call' = [call EXCEPT ![w] = [t \in Thread |-> NoCall]]
    /\ UNCHANGED <<recordVars, content, snaps, fz, reader, reported, serving,
                   late, sent>>

\* Qdrant applies a request nobody waits for any more.
LateApply ==
    \E o \in orphans :
      LET new == Applied(content[o.coll], o.kind, o.vec)
          frozen == \/ flock[o.coll] \cap Freezer # {}
                    \/ \E m \in Stored : m.coll = o.coll
      IN  /\ orphans' = orphans \ {o}
          /\ content' = [content EXCEPT ![o.coll] = new]
          /\ late' = IF frozen /\ new # content[o.coll]
                     THEN [late EXCEPT ![o.coll] = @ + 1] ELSE late
          /\ UNCHANGED <<recordVars, leaseVars, snaps, call, fz, reader,
                         reported, serving, sent, crashes>>
-----------------------------------------------------------------------------
(* freeze_corpus, under the exclusive lease. The enumerations it repeats    *)
(* back to back under that lease are one step: they read the same manifests *)
(* of the collection, and a failure of any of them is Abort.                *)

Locked(f) ==
    /\ fz[f].at = "idle"
    /\ \E c \in Collection, p \in Stored \cup {NoManifest} :
         /\ LockExclusive(f, c)
         /\ fz' = [fz EXCEPT ![f] =
                     [NoFreeze EXCEPT !.at = "locked", !.coll = c, !.pred = p]]
    /\ UNCHANGED <<recordVars, lease, depth, content, snaps, call, orphans,
                   reader, reported, serving, late, sent, crashes>>

\* _observe refuses a collection that does not hold every point.
Observe(f) ==
    /\ fz[f].at = "locked"
    /\ content[fz[f].coll] \in Vector
    /\ fz' = [fz EXCEPT ![f].at = "observed", ![f].inv = content[fz[f].coll]]
    /\ UNCHANGED <<recordVars, leaseVars, content, snaps, call, orphans, reader,
                   reported, serving, late, sent, crashes>>

\* The intent of a manifest is everything but its snapshot.
SameIntent(m, f) ==
    m.coll = fz[f].coll /\ m.pred = fz[f].pred /\ m.inv = fz[f].inv

Matches(f) == {m \in Stored : SameIntent(m, f)}

\* _validate_predecessor_reference
PredecessorStands(f) ==
    \/ fz[f].pred = NoManifest
    \/ fz[f].pred \in Stored /\ fz[f].pred.coll = fz[f].coll

\* Mutant: any durable predecessor will do, or none.
PublishableReference(f) == PredecessorStands(f)

\* _require_publishable_against
Publishable(f) ==
    /\ PredecessorStands(f)
    /\ Bound(fz[f].coll) # {} => fz[f].pred \in Bound(fz[f].coll)

\* freeze_corpus returns the manifest and its lease is closed.
Report(f, m) ==
    /\ reported' = reported \cup {m}
    /\ fz' = [fz EXCEPT ![f] = NoFreeze]
    /\ Unlock(f, fz[f].coll)
    /\ UNCHANGED <<lease, depth, content, snaps, call, orphans, reader, serving,
                   late, sent, crashes>>

HasSnapshot(m) == \E s \in snaps : s.coll = m.coll /\ s.id = m.snap

\* find_by_intent finds the manifest of an earlier freeze.
Replay(f) ==
    /\ fz[f].at = "observed"
    /\ ScanPasses /\ PredecessorStands(f)
    /\ \E m \in Matches(f) :
         Matches(f) = {m} /\ HasSnapshot(m) /\ Report(f, m)
    /\ UNCHANGED recordVars

RequirePublishable(f) ==
    /\ fz[f].at = "observed"
    /\ ScanPasses /\ Matches(f) = {} /\ Publishable(f)
    /\ fz' = [fz EXCEPT ![f].at = "allowed"]
    /\ UNCHANGED <<recordVars, leaseVars, content, snaps, call, orphans, reader,
                   reported, serving, late, sent, crashes>>

CreateSnapshot(f) ==
    /\ fz[f].at = "allowed"
    /\ Cardinality(snaps) < MaxSnapshots
    /\ LET n == Cardinality(snaps) + 1 IN
         /\ snaps' = snaps \cup {[coll |-> fz[f].coll, id |-> n,
                                  of |-> content[fz[f].coll]]}
         /\ fz' = [fz EXCEPT ![f].at = "snapped", ![f].snap = n]
    /\ UNCHANGED <<recordVars, leaseVars, content, call, orphans, reader,
                   reported, serving, late, sent, crashes>>

\* Mutant: the second observation is not compared with the first.
ObserveAgainIgnored(f) ==
    /\ fz[f].at = "snapped"
    /\ fz' = [fz EXCEPT ![f].at = "reobserved"]
    /\ UNCHANGED <<recordVars, leaseVars, content, snaps, call, orphans, reader,
                   reported, serving, late, sent, crashes>>

\* The second observation must equal the first.
ObserveAgain(f) ==
    /\ fz[f].at = "snapped"
    /\ content[fz[f].coll] = fz[f].inv
    /\ fz' = [fz EXCEPT ![f].at = "reobserved"]
    /\ UNCHANGED <<recordVars, leaseVars, content, snaps, call, orphans, reader,
                   reported, serving, late, sent, crashes>>

Manifest(f) == [coll |-> fz[f].coll, pred |-> fz[f].pred, inv |-> fz[f].inv,
                snap |-> fz[f].snap]

\* CorpusManifestStore.create, up to the start of publish, for the manifests
\* within the bound Record.
Create(f) ==
    /\ fz[f].at = "reobserved"
    /\ ScanPasses /\ Matches(f) = {} /\ Publishable(f)
    /\ Manifest(f) \in Record
    /\ CreateTemporary(f, Manifest(f))
    /\ fz' = [fz EXCEPT ![f].at = "publishing"]
    /\ UNCHANGED <<leaseVars, content, snaps, call, orphans, reader, reported,
                   serving, late, sent, crashes>>

Publish(f) ==
    /\ WriteTemporary(f) \/ LinkRecord(f) \/ UnlinkTemporary(f) \/ ReadBack(f)
    /\ UNCHANGED <<leaseVars, freezeVars>>

\* The enumeration after publish, which must find the manifest.
Confirm(f) ==
    /\ pub[f].at = "stored"
    /\ ScanPasses /\ Manifest(f) \in Stored
    /\ EndPublish(f)
    /\ Report(f, Manifest(f))

\* Every refusal and every I/O error: the cleanup of publish runs, and the
\* lease is closed.
Abort(f) ==
    /\ fz[f].at # "idle"
    /\ UndoPublish(f)
    /\ fz' = [fz EXCEPT ![f] = NoFreeze]
    /\ Unlock(f, fz[f].coll)
    /\ UNCHANGED <<lease, depth, content, snaps, call, orphans, reader, reported,
                   serving, late, sent, crashes>>

\* A process that dies leaves its names in the directory.
FreezerDies(f) ==
    /\ crashes < MaxCrashes
    /\ fz[f].at # "idle"
    /\ crashes' = crashes + 1
    /\ EndPublish(f)
    /\ fz' = [fz EXCEPT ![f] = NoFreeze]
    /\ Unlock(f, fz[f].coll)
    /\ UNCHANGED <<lease, depth, content, snaps, call, orphans, reader, reported,
                   serving, late, sent>>
-----------------------------------------------------------------------------
(* verify_corpus, for a manifest whose id a freeze has returned.           *)

\* The manifest is read by its id.
VerifyRead ==
    /\ reader = NoManifest
    /\ ScanPasses
    /\ reader' \in reported \cap Stored
    /\ UNCHANGED <<recordVars, leaseVars, content, snaps, call, orphans, fz,
                   reported, serving, late, sent, crashes>>

\* The snapshot is listed and the live points match the manifest.
VerifyObserve ==
    /\ reader # NoManifest
    /\ HasSnapshot(reader) /\ content[reader.coll] = reader.inv
    /\ serving' = serving \cup {reader}
    /\ reader' = NoManifest
    /\ UNCHANGED <<recordVars, leaseVars, content, snaps, call, orphans, fz,
                   reported, late, sent, crashes>>

VerifyRefuse ==
    /\ reader # NoManifest
    /\ reader' = NoManifest
    /\ UNCHANGED <<recordVars, leaseVars, content, snaps, call, orphans, fz,
                   reported, serving, late, sent, crashes>>
-----------------------------------------------------------------------------
WriterStep(w) ==
    \/ \E c \in Collection : Acquire(w, c)
    \/ Grant(w) \/ Deny(w) \/ Close(w) \/ CloseEnds(w) \/ WriterDies(w)
    \/ \E t \in Thread : \/ Begin(w, t) \/ Send(w, t) \/ Answered(w, t)
                         \/ TimesOut(w, t) \/ Construct(w, t) \/ End(w, t)

FreezerStep(f) ==
    \/ Locked(f) \/ Observe(f) \/ Replay(f) \/ RequirePublishable(f)
    \/ CreateSnapshot(f) \/ ObserveAgain(f) \/ Create(f) \/ Publish(f)
    \/ Confirm(f) \/ Abort(f) \/ FreezerDies(f)

Next ==
    \/ \E w \in Writer : WriterStep(w)
    \/ \E f \in Freezer : FreezerStep(f)
    \/ LateApply
    \/ VerifyRead \/ VerifyObserve \/ VerifyRefuse

\* A thread inside an operation goes on, the client's timeout ends every wait
\* for Qdrant, and the closing thread is woken when no operation is active.
Fairness ==
    \A w \in Writer :
      /\ WF_vars(CloseEnds(w))
      /\ \A t \in Thread :
           WF_vars(Send(w, t) \/ Answered(w, t) \/ TimesOut(w, t)
                     \/ Construct(w, t) \/ End(w, t))

Spec == Init /\ [][Next]_vars /\ Fairness
-----------------------------------------------------------------------------
(* Properties.                                                             *)

\* Once a manifest of a collection is durable, no process holds an open write
\* lease on it, whatever was being acquired, closed or crashing meanwhile
\* (acquire_write_lease, acquire_freeze_lease).
FrozenIsClosed ==
    \A w \in Writer : lease[w].phase \in {"open", "closing"} =>
                        Bound(lease[w].coll) = {}

\* The collection a verified manifest serves is the one the manifest attests,
\* as long as Qdrant applies no request of a client that gave up
\* (verify_corpus, DenseIndex).
ServedIsFrozen ==
    \A m \in serving : late[m.coll] = 0 => content[m.coll] = m.inv

\* The manifests of a collection have one root, no two of them the same
\* intent, and every predecessor is durable too (find_by_intent,
\* _require_publishable_against).
OneLineage ==
    \A m, n \in Stored :
      /\ m.pred # NoManifest => m.pred \in Bound(m.coll)
      /\ m.pred = n.pred /\ (m.inv = n.inv \/ m.pred = NoManifest)
           /\ m.coll = n.coll => m = n

\* The snapshot a manifest names holds the content the manifest attests: the
\* second observation notices one late change, and only two that cancel out
\* escape it (freeze_corpus, after # before).
SnapshotBacked ==
    \A m \in Stored : late[m.coll] < 2 =>
      \E s \in snaps : s.coll = m.coll /\ s.id = m.snap /\ s.of = m.inv

\* A manifest that freeze_corpus has returned stays readable, whatever other
\* publications fail, crash or are cleaned up afterwards (publish).
ReportedStays == \A m \in reported : Readable(m)

\* A close that was started returns: new operations are not admitted, and the
\* ones inside the lease end (_CollectionLease.close).
CloseReturns ==
    \A w \in Writer : lease[w].phase = "closing" ~> lease[w].phase # "closing"
=============================================================================
