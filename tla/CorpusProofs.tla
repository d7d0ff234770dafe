---------------------------- MODULE CorpusProofs ----------------------------
(***************************************************************************)
(* Safety of freezing for any collections, writers, threads, freezers and  *)
(* bounds: leases, the create-only directory, Qdrant's late requests.      *)
(***************************************************************************)
EXTENDS CorpusFreeze, TLAPS, FiniteSetTheorems

-----------------------------------------------------------------------------
(* The inductive invariant *)

\* A lease is its flock, and a freeze has the flock to itself.
Leases ==
    /\ \A w \in Writer : lease[w].phase # "none" =>
         lease[w].coll \in Collection /\ w \in flock[lease[w].coll]
    /\ \A f \in Freezer : fz[f].at # "idle" =>
         fz[f].coll \in Collection /\ flock[fz[f].coll] = {f}

\* A call of DenseIndexWriter runs inside an operation of an issued lease.
Inside(c, d, l) ==
    /\ c.at = "idle" => d = 0
    /\ c.at # "idle" => l.phase \in {"open", "closing"} /\ d > 0
    /\ c.at \in {"begun", "sent", "created"} => d = 1
    /\ c.at \in {"begun", "sent"} => c.kind # "none"
    /\ c.at = "sent" => c.id > 0
Operations ==
    \A w \in Writer, t \in Thread : Inside(call[w][t], depth[w][t], lease[w])

\* A record name and an inode determine each other, and a record's inode holds
\* its bytes; no two publications share an inode.
Directory ==
    /\ \A d, e \in linked : d.rec = e.rec \/ d.ino = e.ino => d = e
    /\ \A e \in linked : body[e.ino] = e.rec /\ e.rec.coll \in Collection
    /\ \A f, g \in Publisher : f # g => pub[f].ino = NoTemp \/ pub[f].ino # pub[g].ino

\* What publish does is what its freeze asked for.  Until the link, nothing
\* has changed that the freeze checked before; until the read back, the record
\* that may still be unlinked was not reported and precedes nothing.
Publishing(f) ==
    /\ pub[f].at = "idle" <=> fz[f].at # "publishing"
    /\ pub[f].at = "idle" => pub[f] = NotPublishing
    /\ pub[f].at # "idle" => pub[f].rec = Manifest(f) /\ Manifest(f) \in Record
                             /\ pub[f].ino \in Temp
    /\ pub[f].at = "created" => body[pub[f].ino] = Blank
    /\ pub[f].at = "written" => body[pub[f].ino] = pub[f].rec
    /\ pub[f].at \in {"created", "written"} =>
         /\ \A e \in linked : e.ino # pub[f].ino
         /\ Matches(f) = {} /\ Publishable(f)
    /\ pub[f].at \in {"linked", "unlinked"} =>
         pub[f].rec \notin reported /\ \A m \in Stored : m.pred # pub[f].rec
Publications == \A f \in Freezer : Publishing(f)

\* The first observation, the snapshot and the second observation of a freeze,
\* with the late changes that could have come between them.
Attested(z, now, changes, kept) ==
    /\ z.at \in {"observed", "allowed"} => now = z.inv \/ changes >= 1
    /\ z.at = "snapped" =>
         \E s \in kept : s.coll = z.coll /\ s.id = z.snap
           /\ (s.of = z.inv \/ (changes >= 1 /\ (now = z.inv => changes >= 2)))
    /\ z.at \in {"reobserved", "publishing"} =>
         \E s \in kept : s.coll = z.coll /\ s.id = z.snap
           /\ (s.of = z.inv \/ changes >= 2)
Freezing ==
    \A f \in Freezer : Attested(fz[f], content[fz[f].coll], late[fz[f].coll], snaps)

\* A reported manifest has lost its temporary name.
Reports ==
    /\ \A m \in reported : \E e \in linked : e.rec = m /\ e.ino \notin temps
    /\ reader # NoManifest => reader \in reported

CorpusInv ==
    /\ TypeOK /\ IsFiniteSet(snaps)
    /\ Leases /\ Operations /\ Directory /\ Publications /\ Freezing /\ Reports
    /\ FrozenIsClosed /\ ServedIsFrozen /\ OneLineage /\ SnapshotBacked

-----------------------------------------------------------------------------
(* What a step leaves alone *)

LEMMA RecordsStay ==
    ASSUME CorpusInv, UNCHANGED <<temps, linked, body, pub, fz, reported>>
    PROVE  /\ RecordsTypeOK' /\ Directory' /\ Publications' /\ OneLineage'
           /\ Stored' = Stored
  <1>1. Stored' = Stored
    BY DEF Stored
  <1>2. Directory' /\ RecordsTypeOK'
    BY DEF CorpusInv, TypeOK, RecordsTypeOK, Directory
  <1>3. OneLineage'
    BY <1>1 DEF CorpusInv, OneLineage, Bound
  <1>4. Publications'
    BY <1>1 DEF CorpusInv, Publications, Publishing, Matches, SameIntent, Publishable,
       PredecessorStands, Bound, Manifest
  <1> QED
    BY <1>1, <1>2, <1>3, <1>4

LEMMA FreezesStay ==
    ASSUME CorpusInv, UNCHANGED <<fz, content, late, snaps>>
    PROVE  Freezing' /\ IsFiniteSet(snaps)'
  BY DEF CorpusInv, Freezing, Attested

LEMMA ReportsStay ==
    ASSUME CorpusInv, UNCHANGED <<linked, temps, reported, reader, serving, content, late, snaps>>
    PROVE  Reports' /\ ServedIsFrozen' /\ SnapshotBacked'
  BY DEF CorpusInv, Reports, ServedIsFrozen, SnapshotBacked, Stored

\* A lease of another process does not change with the flock that one takes or
\* gives back.
LEMMA LeaseTypes ==
    ASSUME CorpusInv
    PROVE  /\ flock \in [Collection -> SUBSET (Writer \cup Freezer)]
           /\ lease \in [Writer -> WriteLease]
           /\ depth \in [Writer -> [Thread -> 0..2]]
           /\ call \in [Writer -> [Thread -> DenseCall]]
           /\ fz \in [Freezer -> Freeze]
           /\ Writer \cap Freezer = {}
  BY LeaseAssumption DEF CorpusInv, TypeOK, LeaseTypeOK

-----------------------------------------------------------------------------
(* Write leases *)

\* The write lease of one writer changes, with the flock or without.
LEMMA WriterLease ==
    ASSUME CorpusInv, NEW w \in Writer, NEW l \in WriteLease,
           lease' = [lease EXCEPT ![w] = l],
           flock' \in [Collection -> SUBSET (Writer \cup Freezer)],
           \A c \in Collection : flock'[c] \ {w} = flock[c] \ {w},
           \A c \in Collection : w \in flock'[c] /\ w \notin flock[c] => flock[c] \cap Freezer = {},
           l.phase # "none" => l.coll \in Collection /\ w \in flock'[l.coll],
           l.phase \in {"open", "closing"} => Bound(l.coll) = {},
           UNCHANGED <<temps, linked, body, pub, content, snaps, fz, reader, reported,
                       serving, late>>,
           depth' \in [Writer -> [Thread -> 0..2]],
           call' \in [Writer -> [Thread -> DenseCall]],
           \A v \in Writer \ {w} : call'[v] = call[v] /\ depth'[v] = depth[v],
           \/ call'[w] = call[w] /\ depth'[w] = depth[w]
                /\ (l.phase \in {"open", "closing"} \/ \A t \in Thread : call[w][t].at = "idle")
           \/ \A t \in Thread : call'[w][t].at = "idle" /\ depth'[w][t] = 0,
           orphans' \subseteq Request, sent' \in 0..MaxRequests, crashes' \in 0..MaxCrashes
    PROVE  CorpusInv'
  <1>1. lease'[w] = l /\ (\A v \in Writer \ {w} : lease'[v] = lease[v])
        /\ lease' \in [Writer -> WriteLease]
    BY LeaseTypes
  <1>2. TypeOK'
    BY <1>1, RecordsStay DEF CorpusInv, TypeOK, LeaseTypeOK
  <1>3. Leases'
    <2>1. ASSUME NEW v \in Writer, lease'[v].phase # "none"
          PROVE  lease'[v].coll \in Collection /\ v \in flock'[lease'[v].coll]
      <3>1. CASE v = w
        BY <1>1, <2>1, <3>1
      <3>2. CASE v # w
        <4>1. lease[v].coll \in Collection /\ v \in flock[lease[v].coll]
          BY <1>1, <2>1, <3>2 DEF CorpusInv, Leases
        <4> QED
          BY <1>1, <3>2, <4>1
      <3> QED
        BY <3>1, <3>2
    <2>2. ASSUME NEW f \in Freezer, fz'[f].at # "idle"
          PROVE  fz'[f].coll \in Collection /\ flock'[fz'[f].coll] = {f}
      <3>1. fz[f].coll \in Collection /\ flock[fz[f].coll] = {f} /\ w # f
        BY <2>2, LeaseTypes DEF CorpusInv, Leases
      <3> DEFINE c == fz[f].coll
      <3>2. w \notin flock'[c] /\ flock'[c] \ {w} = flock[c] \ {w}
        BY <3>1
      <3> HIDE DEF c
      <3>3. flock'[c] = {f}
        BY <3>1, <3>2 DEF c
      <3> QED
        BY <3>1, <3>3 DEF c
    <2> QED
      BY <2>1, <2>2 DEF Leases
  <1>4. Operations'
    <2>1. ASSUME NEW v \in Writer, NEW t \in Thread
          PROVE  Inside(call'[v][t], depth'[v][t], lease'[v])
      <3>1. Inside(call[v][t], depth[v][t], lease[v])
        BY DEF CorpusInv, Operations
      <3>2. CASE v # w
        BY <1>1, <3>1, <3>2
      <3>3. CASE v = w /\ call'[w] = call[w] /\ depth'[w] = depth[w]
                 /\ (l.phase \in {"open", "closing"} \/ \A u \in Thread : call[w][u].at = "idle")
        <4>1. call'[v][t] = call[v][t] /\ depth'[v][t] = depth[v][t] /\ lease'[v] = l
          BY <1>1, <3>3
        <4> QED
          BY <3>1, <3>3, <4>1 DEF Inside
      <3>4. CASE v = w /\ \A u \in Thread : call'[w][u].at = "idle" /\ depth'[w][u] = 0
        BY <3>4 DEF Inside
      <3> QED
        BY <3>2, <3>3, <3>4
    <2> QED
      BY <2>1 DEF Operations
  <1>5. FrozenIsClosed'
    <2>2. ASSUME NEW v \in Writer, lease'[v].phase \in {"open", "closing"}
          PROVE  \A m \in Stored : m.coll # lease'[v].coll
      <3>1. CASE v = w
        BY <1>1, <2>2, <3>1 DEF Bound
      <3>2. CASE v # w
        BY <1>1, <2>2, <3>2 DEF CorpusInv, FrozenIsClosed, Bound
      <3> QED
        BY <3>1, <3>2
    <2>3. Stored' = Stored
      BY RecordsStay
    <2> QED
      BY <2>2, <2>3 DEF FrozenIsClosed, Bound
  <1> QED
    BY <1>2, <1>3, <1>4, <1>5, RecordsStay, FreezesStay, ReportsStay DEF CorpusInv

\* What a writer that gives its lease back leaves behind.
LEMMA Released ==
    ASSUME CorpusInv, NEW w \in Writer, ReleaseWriteLease(w), lease[w].phase # "none"
    PROVE  /\ NoLease \in WriteLease /\ NoLease.phase = "none"
           /\ lease' = [lease EXCEPT ![w] = NoLease]
           /\ flock' \in [Collection -> SUBSET (Writer \cup Freezer)]
           /\ \A c \in Collection : flock'[c] \ {w} = flock[c] \ {w}
           /\ \A c \in Collection : w \in flock'[c] => w \in flock[c]
  <1> DEFINE d == lease[w].coll
  <1>1. d \in Collection /\ flock' = [flock EXCEPT ![d] = @ \ {w}]
    BY DEF CorpusInv, Leases, ReleaseWriteLease, Unlock
  <1>2. NoLease \in WriteLease /\ NoLease.phase = "none"
    BY DEF NoLease, WriteLease
  <1> HIDE DEF d
  <1>3. /\ flock' \in [Collection -> SUBSET (Writer \cup Freezer)]
        /\ flock'[d] = flock[d] \ {w}
        /\ \A c \in Collection \ {d} : flock'[c] = flock[c]
    BY <1>1, LeaseTypes
  <1> QED
    BY <1>2, <1>3 DEF ReleaseWriteLease

LEMMA AcquireKeeps ==
    ASSUME CorpusInv, NEW w \in Writer, NEW c \in Collection, Acquire(w, c)
    PROVE  CorpusInv'
  <1> DEFINE l == [coll |-> c, phase |-> "checking"]
  <1>1. /\ lease[w].phase = "none" /\ lease' = [lease EXCEPT ![w] = l]
        /\ flock[c] \cap Freezer = {} /\ flock' = [flock EXCEPT ![c] = @ \cup {w}]
        /\ UNCHANGED <<temps, linked, body, pub, content, snaps, fz, reader, reported,
                       serving, late, depth, call, orphans, sent, crashes>>
    BY DEF Acquire, AcquireWriteLease, LockShared, recordVars, freezeVars
  <1>2. l \in WriteLease /\ l.coll = c /\ l.phase = "checking"
    BY DEF WriteLease
  <1>3. /\ flock' \in [Collection -> SUBSET (Writer \cup Freezer)]
        /\ flock'[c] = flock[c] \cup {w}
        /\ \A d \in Collection \ {c} : flock'[d] = flock[d]
    BY <1>1, LeaseTypes
  <1>4. \A t \in Thread : call[w][t].at = "idle"
    BY <1>1 DEF CorpusInv, Operations, Inside
  <1>5. /\ orphans \subseteq Request /\ sent \in 0..MaxRequests /\ crashes \in 0..MaxCrashes
    BY DEF CorpusInv, TypeOK
  <1>6. /\ \A d \in Collection : flock'[d] \ {w} = flock[d] \ {w}
        /\ \A d \in Collection : w \in flock'[d] /\ w \notin flock[d] =>
                                  flock[d] \cap Freezer = {}
    BY <1>1, <1>3
  <1> HIDE DEF l
  <1> QED
    BY <1>1, <1>2, <1>3, <1>4, <1>5, <1>6, LeaseTypes, WriterLease

\* acquire_write_lease hands out a lease on a collection no manifest binds, and
\* close only closes it to new operations.
LEMMA PhaseKeeps ==
    ASSUME CorpusInv, NEW w \in Writer, NEW phase \in {"open", "closing"},
           lease' = [lease EXCEPT ![w].phase = phase], lease[w].phase # "none",
           Bound(lease[w].coll) = {},
           UNCHANGED <<flock, depth, recordVars, freezeVars>>
    PROVE  CorpusInv'
  <1> DEFINE l == [lease[w] EXCEPT !.phase = phase]
  <1>1. l \in WriteLease /\ l.coll = lease[w].coll /\ l.phase = phase
        /\ lease' = [lease EXCEPT ![w] = l]
    BY LeaseTypes DEF WriteLease
  <1>2. lease[w].coll \in Collection /\ w \in flock[lease[w].coll]
    BY DEF CorpusInv, Leases
  <1>3. /\ orphans \subseteq Request /\ sent \in 0..MaxRequests /\ crashes \in 0..MaxCrashes
    BY DEF CorpusInv, TypeOK
  <1> HIDE DEF l
  <1> QED
    BY <1>1, <1>2, <1>3, LeaseTypes, WriterLease DEF recordVars, freezeVars

LEMMA GrantCloseKeeps ==
    ASSUME CorpusInv, NEW w \in Writer, Grant(w) \/ Close(w)
    PROVE  CorpusInv'
  <1>1. CASE Grant(w)
    <2>1. /\ lease[w].phase = "checking" /\ Bound(lease[w].coll) = {}
          /\ lease' = [lease EXCEPT ![w].phase = "open"]
          /\ UNCHANGED <<flock, depth, recordVars, freezeVars>>
      BY <1>1 DEF Grant, IssueWriteLease
    <2> QED
      BY <2>1, PhaseKeeps
  <1>2. CASE Close(w)
    <2>1. /\ lease[w].phase = "open"
          /\ lease' = [lease EXCEPT ![w].phase = "closing"]
          /\ UNCHANGED <<flock, depth, recordVars, freezeVars>>
      BY <1>2 DEF Close, BeginClose
    <2>2. Bound(lease[w].coll) = {}
      BY <2>1 DEF CorpusInv, FrozenIsClosed
    <2> QED
      BY <2>1, <2>2, PhaseKeeps
  <1> QED
    BY <1>1, <1>2

LEMMA DenyCloseEndsKeeps ==
    ASSUME CorpusInv, NEW w \in Writer, Deny(w) \/ CloseEnds(w)
    PROVE  CorpusInv'
  <1>1. /\ ReleaseWriteLease(w) /\ lease[w].phase # "none"
        /\ lease[w].phase = "checking" \/ Drained(w)
        /\ UNCHANGED <<temps, linked, body, pub, content, snaps, fz, reader, reported,
                       serving, late, depth, call, orphans, sent, crashes>>
    BY DEF Deny, CloseEnds, FinishClose, recordVars, freezeVars
  <1>2. \A t \in Thread : call[w][t].at = "idle"
    BY <1>1 DEF CorpusInv, Operations, Inside, Drained
  <1>3. /\ orphans \subseteq Request /\ sent \in 0..MaxRequests /\ crashes \in 0..MaxCrashes
    BY DEF CorpusInv, TypeOK
  <1> QED
    BY <1>1, <1>2, <1>3, Released, LeaseTypes, WriterLease

LEMMA CallTypes ==
    /\ NoCall \in DenseCall /\ NoCall.at = "idle"
    /\ NoFreeze \in Freeze /\ NoFreeze.at = "idle"
  BY FreezeAssumption DEF NoCall, DenseCall, NoFreeze, Freeze, Content

\* Requests that are out when their client stops waiting.
LEMMA AbandonedTypes ==
    ASSUME CorpusInv, NEW w \in Writer, NEW T \in SUBSET Thread
    PROVE  Abandoned(w, T) \subseteq Request
  <1>1. ASSUME NEW t \in Thread, call[w][t].at = "sent"
        PROVE  [id |-> call[w][t].id, coll |-> lease[w].coll, kind |-> call[w][t].kind,
                vec |-> call[w][t].vec] \in Request
    <2>1. call[w][t] \in DenseCall
      BY LeaseTypes
    <2>2. Inside(call[w][t], depth[w][t], lease[w])
      BY DEF CorpusInv, Operations
    <2>3. /\ lease[w].phase # "none" /\ call[w][t].kind # "none" /\ call[w][t].id > 0
      BY <1>1, <2>2 DEF Inside
    <2>4. lease[w].coll \in Collection
      BY <2>3 DEF CorpusInv, Leases
    <2> DEFINE i == call[w][t].id
               k == call[w][t].kind
               v == call[w][t].vec
    <2>5. i \in 1..MaxRequests /\ k \in {"create", "upsert", "drop"} /\ v \in Content
      BY <2>1, <2>3, FreezeAssumption DEF DenseCall
    <2> HIDE DEF i, k, v
    <2>6. [id |-> i, coll |-> lease[w].coll, kind |-> k, vec |-> v] \in Request
      BY <2>4, <2>5 DEF Request
    <2> QED
      BY <2>6 DEF i, k, v
  <1> QED
    BY <1>1 DEF Abandoned

LEMMA WriterDiesKeeps ==
    ASSUME CorpusInv, NEW w \in Writer, WriterDies(w)
    PROVE  CorpusInv'
  <1>1. /\ ReleaseWriteLease(w) /\ lease[w].phase # "none"
        /\ depth' = [depth EXCEPT ![w] = [t \in Thread |-> 0]]
        /\ call' = [call EXCEPT ![w] = [t \in Thread |-> NoCall]]
        /\ orphans' = orphans \cup Abandoned(w, Thread)
        /\ crashes < MaxCrashes /\ crashes' = crashes + 1
        /\ UNCHANGED <<temps, linked, body, pub, content, snaps, fz, reader, reported,
                       serving, late, sent>>
    BY DEF WriterDies, LeaseDies, recordVars
  <1>2. /\ orphans' \subseteq Request /\ sent \in 0..MaxRequests
    BY <1>1, AbandonedTypes DEF CorpusInv, TypeOK
  <1>3. crashes' \in 0..MaxCrashes
    BY <1>1, FreezeAssumption DEF CorpusInv, TypeOK
  <1>4. /\ depth' \in [Writer -> [Thread -> 0..2]]
        /\ \A t \in Thread : depth'[w][t] = 0
        /\ \A v \in Writer \ {w} : depth'[v] = depth[v]
    BY <1>1, LeaseTypes
  <1>5. /\ call' \in [Writer -> [Thread -> DenseCall]]
        /\ \A t \in Thread : call'[w][t] = NoCall
        /\ \A v \in Writer \ {w} : call'[v] = call[v]
    BY <1>1, LeaseTypes, CallTypes
  <1> QED
    BY <1>1, <1>2, <1>3, <1>4, <1>5, CallTypes, Released, WriterLease

-----------------------------------------------------------------------------
(* Calls of DenseIndexWriter *)

\* One call moves on; content changes only where the lease is on.
LEMMA CallMoves ==
    ASSUME CorpusInv, NEW w \in Writer, NEW t \in Thread, NEW c \in DenseCall, NEW d \in 0..2,
           call' = [call EXCEPT ![w][t] = c], depth' = [depth EXCEPT ![w][t] = d],
           Inside(c, d, lease[w]),
           content' \in [Collection -> Content],
           \A x \in Collection : content'[x] = content[x]
               \/ (x = lease[w].coll /\ lease[w].phase \in {"open", "closing"}),
           orphans' \subseteq Request, sent' \in 0..MaxRequests,
           UNCHANGED <<flock, lease, temps, linked, body, pub, snaps, fz, reader, reported,
                       serving, late, crashes>>
    PROVE  CorpusInv'
  <1>1. /\ call' \in [Writer -> [Thread -> DenseCall]] /\ call'[w][t] = c
        /\ \A v \in Writer, u \in Thread : v # w \/ u # t => call'[v][u] = call[v][u]
    BY LeaseTypes
  <1>2. /\ depth' \in [Writer -> [Thread -> 0..2]] /\ depth'[w][t] = d
        /\ \A v \in Writer, u \in Thread : v # w \/ u # t => depth'[v][u] = depth[v][u]
    BY LeaseTypes
  <1>3. TypeOK'
    BY <1>1, <1>2, RecordsStay DEF CorpusInv, TypeOK, LeaseTypeOK
  <1>4. Leases'
    BY DEF CorpusInv, Leases
  <1>5. Operations'
    <2>1. ASSUME NEW v \in Writer, NEW u \in Thread
          PROVE  Inside(call'[v][u], depth'[v][u], lease'[v])
      <3>1. CASE v = w /\ u = t
        BY <1>1, <1>2, <3>1
      <3>2. CASE v # w \/ u # t
        BY <1>1, <1>2, <3>2 DEF CorpusInv, Operations
      <3> QED
        BY <3>1, <3>2
    <2> QED
      BY <2>1 DEF Operations
  <1>6. FrozenIsClosed'
    BY DEF CorpusInv, FrozenIsClosed, Bound, Stored
  <1>7. ASSUME NEW x \in Collection, \E m \in Stored : m.coll = x
        PROVE  content'[x] = content[x]
    BY <1>7 DEF CorpusInv, FrozenIsClosed, Bound
  <1>8. ASSUME NEW f \in Freezer, fz[f].at # "idle"
        PROVE  content'[fz[f].coll] = content[fz[f].coll]
    <2>1. fz[f].coll \in Collection /\ flock[fz[f].coll] = {f}
      BY <1>8 DEF CorpusInv, Leases
    <2>2. lease[w].phase \in {"open", "closing"} => w \in flock[lease[w].coll]
      BY DEF CorpusInv, Leases
    <2> QED
      BY <2>1, <2>2, LeaseTypes
  <1>9. Freezing'
    BY <1>8 DEF CorpusInv, Freezing, Attested
  <1>10. Reports' /\ SnapshotBacked'
    BY DEF CorpusInv, Reports, SnapshotBacked, Stored
  <1>11. ServedIsFrozen'
    <2>1. ASSUME NEW m \in serving PROVE m \in Stored /\ m.coll \in Collection
      <3>1. m \in reported
        BY DEF CorpusInv, TypeOK
      <3>2. PICK e \in linked : e.rec = m
        BY <3>1 DEF CorpusInv, Reports
      <3> QED
        BY <3>2 DEF Stored, CorpusInv, Directory
    <2> QED
      BY <1>7, <2>1 DEF CorpusInv, ServedIsFrozen
  <1> QED
    BY <1>3, <1>4, <1>5, <1>6, <1>9, <1>10, <1>11, RecordsStay DEF CorpusInv

LEMMA BeginKeeps ==
    ASSUME CorpusInv, NEW w \in Writer, NEW t \in Thread, Begin(w, t)
    PROVE  CorpusInv'
  <1>1. /\ call[w][t].at = "idle" /\ MayEnter(w, t)
        /\ depth' = [depth EXCEPT ![w][t] = @ + 1]
        /\ UNCHANGED <<flock, lease, temps, linked, body, pub, content, snaps, orphans, fz,
                       reader, reported, serving, late, sent, crashes>>
    BY DEF Begin, EnterOperation, recordVars
  <1>2. PICK kind \in {"none", "create", "upsert", "drop"} :
          \E v \in IF kind = "upsert" THEN Vector ELSE {"empty"} :
            call' = [call EXCEPT ![w][t] =
                       [at |-> IF kind = "none" THEN "done" ELSE "begun",
                        id |-> 0, kind |-> kind, vec |-> v]]
    BY DEF Begin
  <1>3. PICK v \in IF kind = "upsert" THEN Vector ELSE {"empty"} :
          call' = [call EXCEPT ![w][t] =
                     [at |-> IF kind = "none" THEN "done" ELSE "begun",
                      id |-> 0, kind |-> kind, vec |-> v]]
    BY <1>2
  <1> DEFINE at == IF kind = "none" THEN "done" ELSE "begun"
             c == [at |-> at, id |-> 0, kind |-> kind, vec |-> v]
  <1>4. at \in {"begun", "done"} /\ (at = "begun" => kind # "none") /\ v \in Content
    BY DEF Content
  <1>5. call' = [call EXCEPT ![w][t] = c]
    BY <1>3
  <1> HIDE DEF at
  <1>6. /\ c \in DenseCall /\ c.at = at /\ c.kind = kind
    BY <1>4, FreezeAssumption DEF DenseCall
  <1> HIDE DEF c
  <1>7. depth[w][t] + 1 = 1 /\ 1 \in 0..2
    BY <1>1 DEF CorpusInv, Operations, Inside
  <1>8. depth' = [depth EXCEPT ![w][t] = 1]
    BY <1>1, <1>7
  <1>9. lease[w].phase \in {"open", "closing"}
    BY <1>1 DEF MayEnter
  <1>10. Inside(c, 1, lease[w])
    BY <1>4, <1>6, <1>9 DEF Inside
  <1>11. /\ orphans \subseteq Request /\ sent \in 0..MaxRequests
        /\ content \in [Collection -> Content]
    BY DEF CorpusInv, TypeOK
  <1> QED
    BY <1>1, <1>5, <1>6, <1>7, <1>10, <1>11, <1>8, CallMoves

\* A call of which only the phase changes.
LEMMA CallGoesOn ==
    ASSUME CorpusInv, NEW w \in Writer, NEW t \in Thread,
           NEW at \in {"created", "done"}, call[w][t].at \in {"sent", "created"},
           call' = [call EXCEPT ![w][t].at = at],
           NEW d \in {1, 2}, depth' = [depth EXCEPT ![w][t] = d], at = "created" => d = 1,
           content' \in [Collection -> Content],
           \A x \in Collection : content'[x] = content[x] \/ x = lease[w].coll,
           orphans' \subseteq Request,
           UNCHANGED <<flock, lease, temps, linked, body, pub, snaps, fz, reader, reported,
                       serving, late, sent, crashes>>
    PROVE  CorpusInv'
  <1> DEFINE c == [call[w][t] EXCEPT !.at = at]
  <1>1. call[w][t] \in DenseCall /\ Inside(call[w][t], depth[w][t], lease[w])
    BY LeaseTypes DEF CorpusInv, Operations
  <1>2. c \in DenseCall /\ c.at = at /\ call' = [call EXCEPT ![w][t] = c]
    BY <1>1, LeaseTypes DEF DenseCall
  <1> HIDE DEF c
  <1>3. lease[w].phase \in {"open", "closing"}
    BY <1>1 DEF Inside
  <1>4. Inside(c, d, lease[w]) /\ d \in 0..2
    BY <1>2, <1>3 DEF Inside
  <1>5. sent \in 0..MaxRequests
    BY DEF CorpusInv, TypeOK
  <1> QED
    BY <1>2, <1>3, <1>4, <1>5, CallMoves

LEMMA SendKeeps ==
    ASSUME CorpusInv, NEW w \in Writer, NEW t \in Thread, Send(w, t)
    PROVE  CorpusInv'
  <1> DEFINE n == sent + 1
             c == [call[w][t] EXCEPT !.at = "sent", !.id = n]
  <1>1. /\ call[w][t].at = "begun" /\ sent < MaxRequests /\ sent' = n
        /\ call' = [call EXCEPT ![w][t].at = "sent", ![w][t].id = sent + 1]
        /\ UNCHANGED <<flock, lease, depth, temps, linked, body, pub, content, snaps, orphans,
                       fz, reader, reported, serving, late, crashes>>
    BY DEF Send, recordVars, leaseVars
  <1>2. n \in 1..MaxRequests /\ n \in 0..MaxRequests
    BY <1>1, FreezeAssumption DEF CorpusInv, TypeOK
  <1>3. call' = [call EXCEPT ![w][t] = c]
    BY <1>1, LeaseTypes
  <1> HIDE DEF n
  <1>4. call[w][t] \in DenseCall /\ Inside(call[w][t], depth[w][t], lease[w])
        /\ depth[w][t] \in 0..2
    BY LeaseTypes DEF CorpusInv, Operations
  <1>5. c \in DenseCall /\ c.at = "sent" /\ c.id = n /\ c.kind = call[w][t].kind
    BY <1>2, <1>4 DEF DenseCall
  <1> HIDE DEF c
  <1>6. Inside(c, depth[w][t], lease[w])
    BY <1>1, <1>2, <1>4, <1>5 DEF Inside
  <1>7. depth' = [depth EXCEPT ![w][t] = depth[w][t]]
    BY <1>1, LeaseTypes
  <1>8. orphans \subseteq Request /\ content \in [Collection -> Content] /\ n \in 0..MaxRequests
    BY <1>2 DEF CorpusInv, TypeOK
  <1> QED
    BY <1>1, <1>3, <1>4, <1>5, <1>6, <1>7, <1>8, CallMoves

LEMMA AppliedType ==
    ASSUME NEW old \in Content, NEW kind, NEW v \in Content
    PROVE  Applied(old, kind, v) \in Content
  BY DEF Applied, Content

LEMMA AnsweredKeeps ==
    ASSUME CorpusInv, NEW w \in Writer, NEW t \in Thread, Answered(w, t)
    PROVE  CorpusInv'
  <1> DEFINE x == lease[w].coll
             r == call[w][t]
             new == r.kind = "create" /\ content[x] = "absent"
             at == IF new THEN "created" ELSE "done"
             y == Applied(content[x], r.kind, r.vec)
  <1>1. /\ r.at = "sent" /\ content' = [content EXCEPT ![x] = y]
        /\ call' = [call EXCEPT ![w][t].at = at]
        /\ UNCHANGED <<flock, lease, depth, temps, linked, body, pub, snaps, orphans,
                       fz, reader, reported, serving, late, sent, crashes>>
    BY DEF Answered, recordVars, leaseVars
  <1>2. r \in DenseCall /\ Inside(r, depth[w][t], lease[w])
    BY LeaseTypes DEF CorpusInv, Operations
  <1>3. x \in Collection /\ depth[w][t] = 1
    BY <1>1, <1>2 DEF Inside, CorpusInv, Leases
  <1>4. content \in [Collection -> Content] /\ orphans \subseteq Request
    BY DEF CorpusInv, TypeOK
  <1>5. y \in Content
    BY <1>2, <1>3, <1>4, AppliedType DEF DenseCall
  <1>6. at \in {"created", "done"}
    OBVIOUS
  <1> HIDE DEF y, at, r
  <1>7. /\ content' \in [Collection -> Content]
        /\ \A z \in Collection : content'[z] = content[z] \/ z = x
    BY <1>1, <1>3, <1>4, <1>5
  <1>8. depth' = [depth EXCEPT ![w][t] = 1]
    BY <1>1, <1>3, LeaseTypes
  <1>9. call[w][t].at \in {"sent", "created"}
    BY <1>1 DEF r
  <1> HIDE DEF x
  <1> QED
    BY <1>1, <1>4, <1>6, <1>7, <1>8, <1>9, CallGoesOn DEF x

LEMMA TimesOutKeeps ==
    ASSUME CorpusInv, NEW w \in Writer, NEW t \in Thread, TimesOut(w, t)
    PROVE  CorpusInv'
  <1>1. /\ call[w][t].at = "sent" /\ orphans' = orphans \cup Abandoned(w, {t})
        /\ call' = [call EXCEPT ![w][t].at = "done"]
        /\ UNCHANGED <<flock, lease, depth, temps, linked, body, pub, content, snaps,
                       fz, reader, reported, serving, late, sent, crashes>>
    BY DEF TimesOut, recordVars, leaseVars
  <1>2. Inside(call[w][t], depth[w][t], lease[w])
    BY DEF CorpusInv, Operations
  <1>3. depth' = [depth EXCEPT ![w][t] = 1]
    BY <1>1, <1>2, LeaseTypes DEF Inside
  <1>4. orphans' \subseteq Request /\ content \in [Collection -> Content]
    BY <1>1, AbandonedTypes DEF CorpusInv, TypeOK
  <1> QED
    BY <1>1, <1>3, <1>4, CallGoesOn

LEMMA ConstructKeeps ==
    ASSUME CorpusInv, NEW w \in Writer, NEW t \in Thread, Construct(w, t)
    PROVE  CorpusInv'
  <1>1. /\ call[w][t].at = "created" /\ depth' = [depth EXCEPT ![w][t] = @ + 1]
        /\ call' = [call EXCEPT ![w][t].at = "done"]
        /\ UNCHANGED <<flock, lease, temps, linked, body, pub, content, snaps, orphans,
                       fz, reader, reported, serving, late, sent, crashes>>
    BY DEF Construct, EnterOperation, recordVars
  <1>2. Inside(call[w][t], depth[w][t], lease[w])
    BY DEF CorpusInv, Operations
  <1>3. depth[w][t] + 1 = 2
    BY <1>1, <1>2 DEF Inside
  <1>4. depth' = [depth EXCEPT ![w][t] = 2]
    BY <1>1, <1>3
  <1>5. orphans \subseteq Request /\ content \in [Collection -> Content]
    BY DEF CorpusInv, TypeOK
  <1> QED
    BY <1>1, <1>4, <1>5, CallGoesOn

LEMMA EndKeeps ==
    ASSUME CorpusInv, NEW w \in Writer, NEW t \in Thread, End(w, t)
    PROVE  CorpusInv'
  <1>1. /\ depth' = [depth EXCEPT ![w][t] = 0]
        /\ call' = [call EXCEPT ![w][t] = NoCall]
        /\ UNCHANGED <<flock, lease, temps, linked, body, pub, content, snaps, orphans,
                       fz, reader, reported, serving, late, sent, crashes>>
    BY DEF End, LeaveOperation, recordVars
  <1>2. Inside(NoCall, 0, lease[w]) /\ 0 \in 0..2
    BY CallTypes DEF Inside
  <1>3. /\ orphans \subseteq Request /\ content \in [Collection -> Content]
        /\ sent \in 0..MaxRequests
    BY DEF CorpusInv, TypeOK
  <1> QED
    BY <1>1, <1>2, <1>3, CallTypes, CallMoves

\* A late change of a collection that is frozen or being frozen is counted.
LEMMA LateApplyKeeps ==
    ASSUME CorpusInv, LateApply
    PROVE  CorpusInv'
  <1>1. PICK o \in orphans :
          LET new == Applied(content[o.coll], o.kind, o.vec)
              frozen == \/ flock[o.coll] \cap Freezer # {}
                        \/ \E m \in Stored : m.coll = o.coll
          IN  /\ orphans' = orphans \ {o}
              /\ content' = [content EXCEPT ![o.coll] = new]
              /\ late' = IF frozen /\ new # content[o.coll]
                         THEN [late EXCEPT ![o.coll] = @ + 1] ELSE late
              /\ UNCHANGED <<recordVars, leaseVars, snaps, call, fz, reader,
                             reported, serving, sent, crashes>>
    BY DEF LateApply
  <1> DEFINE x == o.coll
             new == Applied(content[x], o.kind, o.vec)
             frozen == \/ flock[x] \cap Freezer # {}
                       \/ \E m \in Stored : m.coll = x
  <1>2. /\ x \in Collection /\ content \in [Collection -> Content]
        /\ late \in [Collection -> Nat] /\ o.vec \in Content
    BY DEF CorpusInv, TypeOK, Request
  <1>3. new \in Content
    BY <1>2, AppliedType
  <1>4. /\ content' \in [Collection -> Content] /\ content'[x] = new
        /\ \A y \in Collection \ {x} : content'[y] = content[y]
    BY <1>1, <1>2, <1>3
  <1>5. /\ late' \in [Collection -> Nat]
        /\ \A y \in Collection \ {x} : late'[y] = late[y]
        /\ late'[x] >= late[x]
        /\ frozen /\ new # content[x] => late'[x] = late[x] + 1
    BY <1>1, <1>2
  <1>6. /\ UNCHANGED <<flock, lease, depth, temps, linked, body, pub, snaps, call, fz,
                       reader, reported, serving, sent, crashes>>
        /\ orphans' \subseteq Request
    BY <1>1 DEF recordVars, leaseVars, CorpusInv, TypeOK
  <1>7. Stored' = Stored
    BY <1>6 DEF Stored
  <1> HIDE DEF new, x
  <1>8. ASSUME NEW y \in Collection, flock[y] \cap Freezer # {} \/ \E m \in Stored : m.coll = y
        PROVE  /\ late'[y] >= late[y] /\ late[y] \in Nat /\ late'[y] \in Nat
               /\ content'[y] = content[y] \/ late'[y] = late[y] + 1
    BY <1>2, <1>4, <1>5, <1>8
  <1> HIDE DEF frozen
  <1>9. TypeOK'
    BY <1>4, <1>5, <1>6, RecordsStay DEF CorpusInv, TypeOK, LeaseTypeOK
  <1>10. Leases' /\ Operations' /\ FrozenIsClosed' /\ Reports'
    BY <1>6, <1>7 DEF CorpusInv, Leases, Operations, FrozenIsClosed, Bound, Reports
  <1>11. Freezing'
    <2> SUFFICES ASSUME NEW f \in Freezer, fz[f].at # "idle"
                 PROVE  /\ fz[f].at \in {"observed", "allowed"} =>
                             content'[fz[f].coll] = fz[f].inv \/ late'[fz[f].coll] >= 1
                        /\ fz[f].at = "snapped" =>
                             \E s \in snaps : s.coll = fz[f].coll /\ s.id = fz[f].snap
                               /\ \/ s.of = fz[f].inv
                                  \/ /\ late'[fz[f].coll] >= 1
                                     /\ content'[fz[f].coll] = fz[f].inv => late'[fz[f].coll] >= 2
                        /\ fz[f].at \in {"reobserved", "publishing"} =>
                             \E s \in snaps : s.coll = fz[f].coll /\ s.id = fz[f].snap
                               /\ (s.of = fz[f].inv \/ late'[fz[f].coll] >= 2)
      BY <1>6 DEF Freezing, Attested
    <2> DEFINE y == fz[f].coll
    <2>1. y \in Collection /\ flock[y] \cap Freezer # {}
      BY DEF CorpusInv, Leases
    <2>2. /\ late'[y] >= late[y] /\ late[y] \in Nat /\ late'[y] \in Nat
          /\ content'[y] = content[y] \/ late'[y] = late[y] + 1
      BY <1>8, <2>1
    <2>3. CASE fz[f].at \in {"observed", "allowed"}
      <3>1. content[y] = fz[f].inv \/ late[y] >= 1
        BY <2>3 DEF CorpusInv, Freezing, Attested
      <3> HIDE DEF y
      <3>2. content'[y] = fz[f].inv \/ late'[y] >= 1
        BY <2>2, <3>1
      <3> QED
        BY <2>3, <3>2 DEF y
    <2>4. CASE fz[f].at = "snapped"
      <3>1. PICK s \in snaps : s.coll = fz[f].coll /\ s.id = fz[f].snap
               /\ (s.of = fz[f].inv \/ (late[y] >= 1 /\ (content[y] = fz[f].inv => late[y] >= 2)))
        BY <2>4 DEF CorpusInv, Freezing, Attested
      <3> HIDE DEF y
      <3>2. s.of = fz[f].inv \/ (late'[y] >= 1 /\ (content'[y] = fz[f].inv => late'[y] >= 2))
        BY <2>2, <3>1
      <3> QED
        BY <2>4, <3>1, <3>2 DEF y
    <2>5. CASE fz[f].at \in {"reobserved", "publishing"}
      <3>1. PICK s \in snaps : /\ s.coll = fz[f].coll /\ s.id = fz[f].snap
                               /\ s.of = fz[f].inv \/ late[y] >= 2
        BY <2>5 DEF CorpusInv, Freezing, Attested
      <3> HIDE DEF y
      <3>2. s.of = fz[f].inv \/ late'[y] >= 2
        BY <2>2, <3>1
      <3> QED
        BY <2>5, <3>1, <3>2 DEF y
    <2> QED
      BY <2>3, <2>4, <2>5
  <1>12. ASSUME NEW m \in Stored PROVE m.coll \in Collection
    BY DEF Stored, CorpusInv, Directory
  <1>13. ServedIsFrozen'
    <2>1. ASSUME NEW m \in serving, late'[m.coll] = 0 PROVE content'[m.coll] = m.inv
      <3>1. m \in Stored
        BY DEF CorpusInv, TypeOK, Reports, Stored
      <3>2. m.coll \in Collection
        BY <1>12, <3>1
      <3>3. late[m.coll] = 0 /\ content'[m.coll] = content[m.coll]
        BY <1>8, <2>1, <3>1, <3>2
      <3> QED
        BY <3>3 DEF CorpusInv, ServedIsFrozen
    <2> QED
      BY <1>6, <2>1 DEF ServedIsFrozen
  <1>14. SnapshotBacked'
    <2>1. ASSUME NEW m \in Stored, late'[m.coll] < 2
          PROVE  \E s \in snaps : s.coll = m.coll /\ s.id = m.snap /\ s.of = m.inv
      <3>1. late[m.coll] < 2
        BY <1>8, <1>12, <2>1
      <3> QED
        BY <3>1 DEF CorpusInv, SnapshotBacked
    <2> QED
      BY <1>6, <1>7, <2>1 DEF SnapshotBacked
  <1> QED
    BY <1>6, <1>9, <1>10, <1>11, <1>13, <1>14, RecordsStay DEF CorpusInv

-----------------------------------------------------------------------------
(* freeze_corpus *)

\* Two freezes in progress are of two collections.
LEMMA FreezesApart ==
    ASSUME CorpusInv, NEW f \in Freezer, NEW g \in Freezer, f # g,
           fz[f].at # "idle", fz[g].at # "idle"
    PROVE  fz[f].coll # fz[g].coll
  BY DEF CorpusInv, Leases

LEMMA StoredTypes ==
    ASSUME CorpusInv, NEW m \in Stored
    PROVE  m \in Record /\ m.coll \in Collection
  BY DEF Stored, CorpusInv, TypeOK, RecordsTypeOK, Directory

\* A freeze moves on under its lease and publishes nothing yet.
LEMMA FreezeMoves ==
    ASSUME CorpusInv, NEW f \in Freezer, fz[f].at \notin {"idle", "publishing"},
           NEW z \in Freeze, fz' = [fz EXCEPT ![f] = z], z.at \notin {"idle", "publishing"},
           z.coll = fz[f].coll, Attested(z, content[z.coll], late[z.coll], snaps'),
           snaps \subseteq snaps', snaps' \subseteq Snapshot, IsFiniteSet(snaps'),
           UNCHANGED <<recordVars, leaseVars, content, call, orphans, reader, reported,
                       serving, late, sent, crashes>>
    PROVE  CorpusInv'
  <1>1. fz' \in [Freezer -> Freeze] /\ fz'[f] = z /\ \A g \in Freezer \ {f} : fz'[g] = fz[g]
    BY LeaseTypes
  <1>2. UNCHANGED <<temps, linked, body, pub, flock, lease, depth>> /\ Stored' = Stored
    BY DEF recordVars, leaseVars, Stored
  <1>3. TypeOK'
    BY <1>1, <1>2 DEF CorpusInv, TypeOK, RecordsTypeOK, LeaseTypeOK
  <1>4. Leases'
    <2>1. fz[f].coll \in Collection /\ flock[fz[f].coll] = {f}
      BY DEF CorpusInv, Leases
    <2> QED
      BY <1>1, <1>2, <2>1 DEF CorpusInv, Leases
  <1>5. Operations' /\ Directory' /\ Reports' /\ FrozenIsClosed' /\ ServedIsFrozen' /\ OneLineage'
    BY <1>2 DEF CorpusInv, Operations, Directory, Reports, FrozenIsClosed, ServedIsFrozen,
       OneLineage, Bound
  <1>6. Publications'
    <2>1. ASSUME NEW g \in Freezer, g # f PROVE Publishing(g)'
      <3>1. Publishing(g) /\ fz'[g] = fz[g]
        BY <1>1, <2>1 DEF CorpusInv, Publications
      <3> QED
        BY <1>2, <3>1 DEF Publishing, Matches, SameIntent, Publishable, PredecessorStands, Bound,
           Manifest
    <2>2. Publishing(f)'
      <3>1. Publishing(f)
        BY DEF CorpusInv, Publications
      <3> QED
        BY <1>1, <1>2, <3>1 DEF Publishing
    <2> QED
      BY <2>1, <2>2 DEF Publications
  <1>7. Freezing'
    <2>1. ASSUME NEW g \in Freezer, g # f
          PROVE  Attested(fz'[g], content[fz'[g].coll], late[fz'[g].coll], snaps')
      <3>1. Attested(fz[g], content[fz[g].coll], late[fz[g].coll], snaps) /\ fz'[g] = fz[g]
        BY <1>1, <2>1 DEF CorpusInv, Freezing
      <3> QED
        BY <3>1 DEF Attested
    <2>2. Attested(fz'[f], content[fz'[f].coll], late[fz'[f].coll], snaps')
      BY <1>1
    <2> QED
      BY <2>1, <2>2 DEF Freezing
  <1>8. SnapshotBacked'
    BY <1>2 DEF CorpusInv, SnapshotBacked
  <1> QED
    BY <1>3, <1>4, <1>5, <1>6, <1>7, <1>8 DEF CorpusInv

LEMMA ObserveKeeps ==
    ASSUME CorpusInv, NEW f \in Freezer, Observe(f)
    PROVE  CorpusInv'
  <1> DEFINE i == content[fz[f].coll]
             z == [fz[f] EXCEPT !.at = "observed", !.inv = i]
  <1>1. /\ fz[f].at = "locked" /\ i \in Vector
        /\ UNCHANGED <<recordVars, leaseVars, content, snaps, call, orphans, reader,
                       reported, serving, late, sent, crashes>>
        /\ fz' = [fz EXCEPT ![f].at = "observed", ![f].inv = i]
    BY DEF Observe
  <1>2. fz' = [fz EXCEPT ![f] = z]
    BY <1>1, LeaseTypes
  <1>3. i \in Content
    BY <1>1 DEF Content
  <1> HIDE DEF i
  <1>4. /\ z \in Freeze /\ z.at = "observed" /\ z.inv = i /\ z.coll = fz[f].coll
    BY <1>3, LeaseTypes DEF Freeze
  <1> HIDE DEF z
  <1>5. content[z.coll] = z.inv
    BY <1>4 DEF i
  <1>6. Attested(z, content[z.coll], late[z.coll], snaps')
    BY <1>4, <1>5 DEF Attested
  <1>7. snaps \subseteq Snapshot /\ IsFiniteSet(snaps)
    BY DEF CorpusInv, TypeOK
  <1> QED
    BY <1>1, <1>2, <1>4, <1>6, <1>7, FreezeMoves

\* The steps that change nothing but the phase of a freeze.
LEMMA PhaseOfFreeze ==
    ASSUME CorpusInv, NEW f \in Freezer, RequirePublishable(f) \/ ObserveAgain(f)
    PROVE  CorpusInv'
  <1> DEFINE at == IF fz[f].at = "observed" THEN "allowed" ELSE "reobserved"
             z == [fz[f] EXCEPT !.at = at]
  <1>1. /\ fz[f].at \in {"observed", "snapped"}
        /\ fz[f].at = "snapped" => content[fz[f].coll] = fz[f].inv
        /\ fz' = [fz EXCEPT ![f].at = at]
        /\ UNCHANGED <<recordVars, leaseVars, content, snaps, call, orphans, reader,
                       reported, serving, late, sent, crashes>>
    BY DEF RequirePublishable, ObserveAgain
  <1>2. fz' = [fz EXCEPT ![f] = z]
    BY <1>1, LeaseTypes
  <1>3. at \in {"allowed", "reobserved"} /\ (at = "allowed" <=> fz[f].at = "observed")
    OBVIOUS
  <1> HIDE DEF at
  <1>4. /\ z \in Freeze /\ z.at = at /\ z.inv = fz[f].inv /\ z.coll = fz[f].coll
        /\ z.snap = fz[f].snap
    BY <1>3, LeaseTypes DEF Freeze
  <1> HIDE DEF z
  <1>5. Attested(fz[f], content[fz[f].coll], late[fz[f].coll], snaps)
    BY DEF CorpusInv, Freezing
  <1>6. Attested(z, content[z.coll], late[z.coll], snaps')
    BY <1>1, <1>3, <1>4, <1>5 DEF Attested
  <1>7. snaps \subseteq Snapshot /\ IsFiniteSet(snaps)
    BY DEF CorpusInv, TypeOK
  <1> QED
    BY <1>1, <1>2, <1>3, <1>4, <1>6, <1>7, FreezeMoves

LEMMA CreateSnapshotKeeps ==
    ASSUME CorpusInv, NEW f \in Freezer, CreateSnapshot(f)
    PROVE  CorpusInv'
  <1> DEFINE n == Cardinality(snaps) + 1
             c == fz[f].coll
             s == [coll |-> c, id |-> n, of |-> content[c]]
             z == [fz[f] EXCEPT !.at = "snapped", !.snap = n]
  <1>1. /\ fz[f].at = "allowed" /\ Cardinality(snaps) < MaxSnapshots
        /\ snaps' = snaps \cup {s}
        /\ fz' = [fz EXCEPT ![f].at = "snapped", ![f].snap = n]
        /\ UNCHANGED <<recordVars, leaseVars, content, call, orphans, reader,
                       reported, serving, late, sent, crashes>>
    BY DEF CreateSnapshot
  <1>2. IsFiniteSet(snaps) /\ snaps \subseteq Snapshot /\ content \in [Collection -> Content]
        /\ late \in [Collection -> Nat]
    BY DEF CorpusInv, TypeOK
  <1>3. n \in 1..MaxSnapshots /\ n \in 0..MaxSnapshots
    BY <1>1, <1>2, FS_CardinalityType, FreezeAssumption
  <1>4. c \in Collection /\ content[c] \in Content
    BY <1>1, <1>2 DEF CorpusInv, Leases
  <1>5. fz' = [fz EXCEPT ![f] = z]
    BY <1>1, LeaseTypes
  <1> HIDE DEF n
  <1>6. s \in Snapshot /\ s.coll = c /\ s.id = n /\ s.of = content[c]
    BY <1>3, <1>4 DEF Snapshot
  <1>7. /\ z \in Freeze /\ z.at = "snapped" /\ z.inv = fz[f].inv /\ z.coll = c
        /\ z.snap = n
    BY <1>3, LeaseTypes DEF Freeze
  <1> HIDE DEF z, s
  <1>8. content[c] = z.inv \/ late[c] >= 1
    BY <1>1, <1>7 DEF CorpusInv, Freezing, Attested
  <1> HIDE DEF c
  <1>9. Attested(z, content[z.coll], late[z.coll], snaps')
    <2>1. /\ s \in snaps' /\ s.coll = z.coll /\ s.id = z.snap
          /\ s.of = z.inv \/ (late[z.coll] >= 1 /\ content[z.coll] # z.inv)
      BY <1>1, <1>6, <1>7, <1>8
    <2> QED
      BY <1>7, <2>1 DEF Attested
  <1>10. snaps \subseteq snaps' /\ snaps' \subseteq Snapshot /\ IsFiniteSet(snaps')
    BY <1>1, <1>2, <1>6, FS_AddElement
  <1> QED
    BY <1>1, <1>5, <1>7, <1>9, <1>10, FreezeMoves DEF c

LEMMA LockedKeeps ==
    ASSUME CorpusInv, NEW f \in Freezer, Locked(f)
    PROVE  CorpusInv'
  <1>1. PICK c \in Collection, p \in Stored \cup {NoManifest} :
          /\ flock[c] = {} /\ flock' = [flock EXCEPT ![c] = {f}]
          /\ fz' = [fz EXCEPT ![f] =
                      [NoFreeze EXCEPT !.at = "locked", !.coll = c, !.pred = p]]
    BY DEF Locked, LockExclusive
  <1> DEFINE z == [NoFreeze EXCEPT !.at = "locked", !.coll = c, !.pred = p]
  <1>2. /\ fz[f].at = "idle"
        /\ UNCHANGED <<temps, linked, body, pub, lease, depth, content, snaps, call, orphans,
                       reader, reported, serving, late, sent, crashes>>
    BY DEF Locked, recordVars
  <1>3. p \in Record \cup {NoManifest}
    BY StoredTypes
  <1>4. z \in Freeze /\ z.at = "locked" /\ z.coll = c
    BY <1>3, CallTypes DEF Freeze
  <1> HIDE DEF z
  <1>5. fz' \in [Freezer -> Freeze] /\ fz'[f] = z /\ \A g \in Freezer \ {f} : fz'[g] = fz[g]
    BY <1>1, <1>4, LeaseTypes DEF z
  <1>6. /\ flock' \in [Collection -> SUBSET (Writer \cup Freezer)] /\ flock'[c] = {f}
        /\ \A d \in Collection \ {c} : flock'[d] = flock[d]
    BY <1>1, LeaseTypes
  <1>7. TypeOK'
    BY <1>2, <1>5, <1>6 DEF CorpusInv, TypeOK, RecordsTypeOK, LeaseTypeOK
  <1>8. Leases'
    <2>1. ASSUME NEW w \in Writer, lease[w].phase # "none"
          PROVE  lease[w].coll \in Collection /\ w \in flock'[lease[w].coll]
      BY <1>1, <1>6, <2>1 DEF CorpusInv, Leases
    <2>2. ASSUME NEW g \in Freezer, g # f, fz[g].at # "idle"
          PROVE  fz[g].coll \in Collection /\ flock'[fz[g].coll] = {g}
      BY <1>1, <1>6, <2>2 DEF CorpusInv, Leases
    <2> QED
      BY <1>2, <1>4, <1>5, <1>6, <2>1, <2>2 DEF Leases
  <1>9. /\ Operations' /\ Directory' /\ Reports' /\ FrozenIsClosed' /\ ServedIsFrozen'
        /\ OneLineage' /\ SnapshotBacked' /\ IsFiniteSet(snaps)' /\ Stored' = Stored
    BY <1>2 DEF CorpusInv, Operations, Directory, Reports, FrozenIsClosed, ServedIsFrozen,
       OneLineage, SnapshotBacked, Bound, Stored
  <1>10. Publications'
    <2>1. ASSUME NEW g \in Freezer, g # f PROVE Publishing(g)'
      <3>1. Publishing(g) /\ fz'[g] = fz[g]
        BY <1>5, <2>1 DEF CorpusInv, Publications
      <3> QED
        BY <1>2, <1>9, <3>1 DEF Publishing, Matches, SameIntent, Publishable, PredecessorStands,
           Bound, Manifest
    <2>2. Publishing(f)'
      <3>1. Publishing(f)
        BY DEF CorpusInv, Publications
      <3> QED
        BY <1>2, <1>4, <1>5, <3>1 DEF Publishing
    <2> QED
      BY <2>1, <2>2 DEF Publications
  <1>11. Freezing'
    <2>1. ASSUME NEW g \in Freezer
          PROVE  Attested(fz'[g], content[fz'[g].coll], late[fz'[g].coll], snaps)
      BY <1>2, <1>4, <1>5 DEF CorpusInv, Freezing, Attested
    <2> QED
      BY <1>2, <2>1 DEF Freezing
  <1> QED
    BY <1>7, <1>8, <1>9, <1>10, <1>11 DEF CorpusInv

\* A freeze ends: its lease is closed, its publication is over, and what its
\* cleanup unlinks was of its collection, not reported and nobody's predecessor.
LEMMA FreezeEnds ==
    ASSUME CorpusInv, NEW f \in Freezer, fz[f].at # "idle",
           fz' = [fz EXCEPT ![f] = NoFreeze], Unlock(f, fz[f].coll),
           pub' = [pub EXCEPT ![f] = NotPublishing],
           linked' \subseteq linked, temps' \subseteq temps, body' = body,
           \A e \in linked \ linked' :
             /\ e.rec.coll = fz[f].coll /\ e.rec \notin reported'
             /\ \A m \in Stored : m.pred # e.rec,
           reported \subseteq reported',
           \A m \in reported' \ reported :
             /\ m \in Record /\ m.coll = fz[f].coll
             /\ \E e \in linked' : e.rec = m /\ e.ino \notin temps',
           crashes' \in 0..MaxCrashes,
           UNCHANGED <<lease, depth, content, snaps, call, orphans, reader, serving, late, sent>>
    PROVE  CorpusInv'
  <1> DEFINE c == fz[f].coll
  <1>1. /\ fz' \in [Freezer -> Freeze] /\ fz'[f] = NoFreeze
        /\ \A g \in Freezer \ {f} : fz'[g] = fz[g]
    BY LeaseTypes, CallTypes
  <1>2. c \in Collection /\ flock[c] = {f}
    BY DEF CorpusInv, Leases
  <1>3. /\ flock' \in [Collection -> SUBSET (Writer \cup Freezer)]
        /\ \A d \in Collection \ {c} : flock'[d] = flock[d]
    BY <1>2, LeaseTypes DEF Unlock
  <1>4. /\ pub \in [Freezer -> Publication] /\ NotPublishing \in Publication
        /\ NotPublishing.at = "idle" /\ NotPublishing.ino = NoTemp
    BY FreezeAssumption DEF CorpusInv, TypeOK, RecordsTypeOK, NotPublishing, Publication
  <1>5. /\ pub' \in [Freezer -> Publication] /\ pub'[f] = NotPublishing
        /\ \A g \in Freezer \ {f} : pub'[g] = pub[g]
    BY <1>4
  <1>6. TypeOK'
    <2>1. RecordsTypeOK'
      BY <1>5, FreezeAssumption DEF CorpusInv, TypeOK, RecordsTypeOK
    <2>2. LeaseTypeOK'
      BY <1>3 DEF CorpusInv, TypeOK, LeaseTypeOK
    <2> QED
      BY <1>1, <2>1, <2>2 DEF CorpusInv, TypeOK
  <1>7. Stored' \subseteq Stored
    BY DEF Stored
  <1>8. ASSUME NEW m \in Stored, m.coll # c \/ m \in reported' \/ \E n \in Stored : n.pred = m
        PROVE  m \in Stored'
    <2>1. PICK e \in linked : e.rec = m
      BY DEF Stored
    <2>2. e \in linked'
      BY <1>8, <2>1
    <2> QED
      BY <2>1, <2>2 DEF Stored
  <1>9. Leases'
    <2>1. ASSUME NEW w \in Writer, lease[w].phase # "none"
          PROVE  lease[w].coll \in Collection /\ w \in flock'[lease[w].coll]
      BY <1>2, <1>3, <2>1, LeaseTypes DEF CorpusInv, Leases
    <2>2. ASSUME NEW g \in Freezer, g # f, fz[g].at # "idle"
          PROVE  fz[g].coll \in Collection /\ flock'[fz[g].coll] = {g}
      BY <1>2, <1>3, <2>2 DEF CorpusInv, Leases
    <2> QED
      BY <1>1, <2>1, <2>2, CallTypes DEF Leases
  <1>10. Operations' /\ IsFiniteSet(snaps)'
    BY DEF CorpusInv, Operations
  <1>11. Directory'
    <2>1. \A d, e \in linked' : d.rec = e.rec \/ d.ino = e.ino => d = e
      BY DEF CorpusInv, Directory
    <2>2. \A e \in linked' : body'[e.ino] = e.rec /\ e.rec.coll \in Collection
      BY DEF CorpusInv, Directory
    <2>3. ASSUME NEW g \in Publisher, NEW h \in Publisher, g # h
          PROVE  pub'[g].ino = NoTemp \/ pub'[g].ino # pub'[h].ino
      <3>1. pub[g].ino = NoTemp \/ pub[g].ino # pub[h].ino
        BY <2>3 DEF CorpusInv, Directory
      <3> QED
        BY <1>4, <1>5, <2>3, <3>1, FreezeAssumption
    <2> QED
      BY <2>1, <2>2, <2>3 DEF Directory
  <1>12. Publications'
    <2>1. ASSUME NEW g \in Freezer, g # f PROVE Publishing(g)'
      <3>1. Publishing(g) /\ fz'[g] = fz[g] /\ pub'[g] = pub[g]
        BY <1>1, <1>5, <2>1 DEF CorpusInv, Publications
      <3>2. /\ pub[g].at = "idle" <=> fz[g].at # "publishing"
            /\ pub[g].at = "idle" => pub[g] = NotPublishing
            /\ pub[g].at # "idle" => pub[g].rec = Manifest(g) /\ Manifest(g) \in Record
                                     /\ pub[g].ino \in Temp
            /\ pub[g].at = "created" => body[pub[g].ino] = Blank
            /\ pub[g].at = "written" => body[pub[g].ino] = pub[g].rec
        BY <3>1 DEF Publishing
      <3>3. Manifest(g)' = Manifest(g)
        BY <3>1 DEF Manifest
      <3>4. pub[g].at # "idle" => fz[g].coll # c /\ pub[g].rec.coll = fz[g].coll
        <4>1. pub[g].at # "idle" => fz[g].at # "idle"
          BY <3>2
        <4>2. Manifest(g).coll = fz[g].coll
          BY DEF Manifest
        <4> QED
          BY <2>1, <3>2, <4>1, <4>2, FreezesApart
      <3>5. ASSUME pub[g].at \in {"created", "written"}
            PROVE  /\ \A e \in linked' : e.ino # pub[g].ino
                   /\ Matches(g)' = {} /\ Publishable(g)'
        <4>1. /\ \A e \in linked : e.ino # pub[g].ino
              /\ Matches(g) = {} /\ Publishable(g)
          BY <3>1, <3>5 DEF Publishing
        <4>2. Matches(g)' = {}
          BY <1>7, <3>1, <4>1 DEF Matches, SameIntent
        <4>3. \A m \in Stored : m.coll = fz[g].coll => m \in Stored'
          BY <1>8, <3>4, <3>5
        <4>4. Publishable(g)'
          BY <1>7, <3>1, <4>1, <4>3 DEF Publishable, PredecessorStands, Bound
        <4> QED
          BY <4>1, <4>2, <4>4
      <3>6. ASSUME pub[g].at \in {"linked", "unlinked"}
            PROVE  pub[g].rec \notin reported' /\ \A m \in Stored' : m.pred # pub[g].rec
        <4>1. pub[g].rec \notin reported /\ \A m \in Stored : m.pred # pub[g].rec
          BY <3>1, <3>6 DEF Publishing
        <4> QED
          BY <1>7, <3>4, <3>6, <4>1
      <3> QED
        BY <3>1, <3>2, <3>3, <3>5, <3>6 DEF Publishing
    <2>2. Publishing(f)'
      BY <1>1, <1>4, <1>5, CallTypes DEF Publishing
    <2> QED
      BY <2>1, <2>2 DEF Publications
  <1>13. Freezing'
    <2>1. ASSUME NEW g \in Freezer
          PROVE  Attested(fz'[g], content[fz'[g].coll], late[fz'[g].coll], snaps)
      BY <1>1, CallTypes DEF CorpusInv, Freezing, Attested
    <2> QED
      BY <2>1 DEF Freezing
  <1>14. Reports'
    <2>1. ASSUME NEW m \in reported' PROVE \E e \in linked' : e.rec = m /\ e.ino \notin temps'
      <3>1. CASE m \in reported
        <4>1. PICK e \in linked : e.rec = m /\ e.ino \notin temps
          BY <3>1 DEF CorpusInv, Reports
        <4>2. e \in linked'
          BY <2>1, <4>1
        <4> QED
          BY <4>1, <4>2
      <3> QED
        BY <3>1
    <2> QED
      BY <2>1 DEF Reports, CorpusInv
  <1>15. FrozenIsClosed' /\ ServedIsFrozen' /\ SnapshotBacked'
    BY <1>7 DEF CorpusInv, FrozenIsClosed, ServedIsFrozen, SnapshotBacked, Bound
  <1>16. OneLineage'
    <2>1. ASSUME NEW m \in Stored', m.pred # NoManifest PROVE m.pred \in Bound(m.coll)'
      <3>1. m \in Stored /\ m.pred \in Stored /\ m.pred.coll = m.coll
        BY <1>7, <2>1 DEF CorpusInv, OneLineage, Bound
      <3>2. m.pred \in Stored'
        BY <1>8, <3>1
      <3> QED
        BY <3>1, <3>2 DEF Bound
    <2> QED
      BY <1>7, <2>1 DEF CorpusInv, OneLineage
  <1> QED
    BY <1>6, <1>9, <1>10, <1>11, <1>12, <1>13, <1>14, <1>15, <1>16 DEF CorpusInv

\* An inode of a record has one link when its temporary name is gone.
LEMMA OneLink ==
    ASSUME CorpusInv, NEW e \in linked
    PROVE  Links(e.ino) = 1 <=> e.ino \notin temps
  <1> DEFINE S == {d \in linked : d.ino = e.ino}
  <1>1. S = {e}
    BY DEF CorpusInv, Directory
  <1>2. Cardinality(S) = 1
    BY <1>1, FS_Singleton
  <1> HIDE DEF S
  <1> QED
    BY <1>2 DEF Links, S

LEMMA ReplayKeeps ==
    ASSUME CorpusInv, NEW f \in Freezer, Replay(f)
    PROVE  CorpusInv'
  <1>1. /\ fz[f].at = "observed" /\ ScanPasses /\ UNCHANGED <<temps, linked, body, pub>>
    BY DEF Replay, recordVars
  <1>2. PICK m \in Matches(f) : Report(f, m)
    BY DEF Replay
  <1>3. m \in Stored /\ m.coll = fz[f].coll
    BY DEF Matches, SameIntent
  <1>4. m \in Record /\ \E e \in linked : e.rec = m /\ e.ino \notin temps
    <2>1. PICK e \in linked : e.rec = m
      BY <1>3 DEF Stored
    <2>2. e.ino \notin temps
      BY <1>1, OneLink DEF ScanPasses
    <2> QED
      BY <1>3, <2>1, <2>2, StoredTypes
  <1>5. /\ reported' = reported \cup {m} /\ fz' = [fz EXCEPT ![f] = NoFreeze]
        /\ Unlock(f, fz[f].coll)
        /\ UNCHANGED <<lease, depth, content, snaps, call, orphans, reader, serving,
                       late, sent, crashes>>
    BY <1>2 DEF Report
  <1>6. pub[f] = NotPublishing /\ pub \in [Freezer -> Publication]
    BY <1>1, FreezeAssumption DEF CorpusInv, Publications, Publishing, TypeOK, RecordsTypeOK
  <1>7. pub' = [pub EXCEPT ![f] = NotPublishing] /\ crashes \in 0..MaxCrashes
    BY <1>1, <1>6 DEF CorpusInv, TypeOK
  <1> QED
    BY <1>1, <1>3, <1>4, <1>5, <1>7, FreezeEnds

LEMMA ConfirmKeeps ==
    ASSUME CorpusInv, NEW f \in Freezer, Confirm(f)
    PROVE  CorpusInv'
  <1> DEFINE m == Manifest(f)
  <1>1. /\ pub[f].at = "stored" /\ ScanPasses /\ m \in Stored
        /\ pub' = [pub EXCEPT ![f] = NotPublishing] /\ UNCHANGED <<temps, linked, body>>
        /\ reported' = reported \cup {m} /\ fz' = [fz EXCEPT ![f] = NoFreeze]
        /\ Unlock(f, fz[f].coll)
        /\ UNCHANGED <<lease, depth, content, snaps, call, orphans, reader, serving,
                       late, sent, crashes>>
    BY DEF Confirm, EndPublish, Report
  <1>2. fz[f].at # "idle"
    BY <1>1 DEF CorpusInv, Publications, Publishing
  <1>3. m.coll = fz[f].coll
    BY DEF Manifest
  <1> HIDE DEF m
  <1>4. m \in Record /\ \E e \in linked : e.rec = m /\ e.ino \notin temps
    <2>1. PICK e \in linked : e.rec = m
      BY <1>1 DEF Stored
    <2>2. e.ino \notin temps
      BY <1>1, OneLink DEF ScanPasses
    <2> QED
      BY <1>1, <2>1, <2>2, StoredTypes
  <1>5. crashes \in 0..MaxCrashes
    BY DEF CorpusInv, TypeOK
  <1> QED
    BY <1>1, <1>2, <1>3, <1>4, <1>5, FreezeEnds

LEMMA AbortKeeps ==
    ASSUME CorpusInv, NEW f \in Freezer, Abort(f)
    PROVE  CorpusInv'
  <1>1. /\ fz[f].at # "idle" /\ UndoPublish(f) /\ fz' = [fz EXCEPT ![f] = NoFreeze]
        /\ Unlock(f, fz[f].coll)
        /\ UNCHANGED <<lease, depth, content, snaps, call, orphans, reader, reported,
                       serving, late, sent, crashes>>
    BY DEF Abort
  <1>2. /\ linked' \subseteq linked /\ temps' \subseteq temps /\ body' = body
        /\ pub' = [pub EXCEPT ![f] = NotPublishing]
    BY <1>1 DEF UndoPublish
  <1>3. ASSUME NEW e \in linked \ linked'
        PROVE  /\ e.rec.coll = fz[f].coll /\ e.rec \notin reported'
               /\ \A m \in Stored : m.pred # e.rec
    <2>1. pub[f].won /\ pub[f].at # "stored" /\ e.rec = pub[f].rec /\ e.ino = pub[f].ino
      BY <1>1, <1>3 DEF UndoPublish
    <2>2. Publishing(f) /\ pub[f] \in Publication
      BY FreezeAssumption DEF CorpusInv, Publications, TypeOK, RecordsTypeOK
    <2>3. pub[f].at # "idle"
      BY <2>1, <2>2 DEF Publishing, NotPublishing
    <2>4. pub[f].at \in {"linked", "unlinked"}
      BY <2>1, <2>2, <2>3 DEF Publishing, Publication
    <2>5. pub[f].rec = Manifest(f) /\ Manifest(f).coll = fz[f].coll
      BY <2>2, <2>3 DEF Publishing, Manifest
    <2> QED
      BY <1>1, <2>1, <2>2, <2>4, <2>5 DEF Publishing
  <1>4. crashes \in 0..MaxCrashes
    BY DEF CorpusInv, TypeOK
  <1> QED
    BY <1>1, <1>2, <1>3, <1>4, FreezeEnds

LEMMA FreezerDiesKeeps ==
    ASSUME CorpusInv, NEW f \in Freezer, FreezerDies(f)
    PROVE  CorpusInv'
  <1>1. /\ fz[f].at # "idle" /\ fz' = [fz EXCEPT ![f] = NoFreeze]
        /\ pub' = [pub EXCEPT ![f] = NotPublishing] /\ UNCHANGED <<temps, linked, body>>
        /\ Unlock(f, fz[f].coll) /\ crashes < MaxCrashes /\ crashes' = crashes + 1
        /\ UNCHANGED <<lease, depth, content, snaps, call, orphans, reader, reported,
                       serving, late, sent>>
    BY DEF FreezerDies, EndPublish
  <1>2. crashes' \in 0..MaxCrashes
    BY <1>1, FreezeAssumption DEF CorpusInv, TypeOK
  <1> QED
    BY <1>1, <1>2, FreezeEnds

-----------------------------------------------------------------------------
(* publish *)

\* A publication moves on without linking: the other publications, with other
\* inodes, and the linked records are as they were.
LEMMA PublishMoves ==
    ASSUME CorpusInv, NEW f \in Freezer, fz[f].at \in {"reobserved", "publishing"},
           NEW z \in Freeze, fz' = [fz EXCEPT ![f] = z], z.at = "publishing",
           z.coll = fz[f].coll, z.inv = fz[f].inv, z.snap = fz[f].snap,
           NEW p \in Publication, pub' = [pub EXCEPT ![f] = p], p.ino \in Temp,
           \A g \in Freezer \ {f} : pub[g].ino # p.ino,
           temps' \subseteq Temp, \A e \in linked : e.ino \in temps' => e.ino \in temps,
           body' \in [Temp -> Record \cup {Blank}],
           \A e \in linked : body'[e.ino] = body[e.ino],
           \A t \in Temp \ {p.ino} : body'[t] = body[t],
           Publishing(f)',
           UNCHANGED <<linked, leaseVars, content, snaps, call, orphans, reader, reported,
                       serving, late, sent, crashes>>
    PROVE  CorpusInv'
  <1>1. fz' \in [Freezer -> Freeze] /\ fz'[f] = z /\ \A g \in Freezer \ {f} : fz'[g] = fz[g]
    BY LeaseTypes
  <1>2. UNCHANGED <<flock, lease, depth>> /\ Stored' = Stored
    BY DEF leaseVars, Stored
  <1>3. /\ pub' \in [Freezer -> Publication] /\ pub'[f] = p
        /\ \A g \in Freezer \ {f} : pub'[g] = pub[g]
    BY FreezeAssumption DEF CorpusInv, TypeOK, RecordsTypeOK
  <1>4. TypeOK'
    <2>1. RecordsTypeOK'
      BY <1>3, FreezeAssumption DEF CorpusInv, TypeOK, RecordsTypeOK
    <2>2. LeaseTypeOK'
      BY <1>2 DEF CorpusInv, TypeOK, LeaseTypeOK
    <2> QED
      BY <1>1, <2>1, <2>2 DEF CorpusInv, TypeOK
  <1>5. Leases'
    <2>1. fz[f].coll \in Collection /\ flock[fz[f].coll] = {f}
      BY DEF CorpusInv, Leases
    <2> QED
      BY <1>1, <1>2, <2>1 DEF CorpusInv, Leases
  <1>6. /\ Operations' /\ FrozenIsClosed' /\ ServedIsFrozen' /\ OneLineage' /\ SnapshotBacked'
        /\ IsFiniteSet(snaps)'
    BY <1>2 DEF CorpusInv, Operations, FrozenIsClosed, ServedIsFrozen, OneLineage,
       SnapshotBacked, Bound
  <1>7. Directory'
    <2>1. /\ \A d, e \in linked : d.rec = e.rec \/ d.ino = e.ino => d = e
          /\ \A e \in linked : body'[e.ino] = e.rec /\ e.rec.coll \in Collection
      BY DEF CorpusInv, Directory
    <2>2. ASSUME NEW g \in Publisher, NEW h \in Publisher, g # h
          PROVE  pub'[g].ino = NoTemp \/ pub'[g].ino # pub'[h].ino
      <3>1. pub[g].ino = NoTemp \/ pub[g].ino # pub[h].ino
        BY <2>2 DEF CorpusInv, Directory
      <3> QED
        BY <1>3, <2>2, <3>1, FreezeAssumption
    <2> QED
      BY <2>1, <2>2 DEF Directory
  <1>8. Publications'
    <2>1. ASSUME NEW g \in Freezer, g # f PROVE Publishing(g)'
      <3>1. Publishing(g) /\ fz'[g] = fz[g] /\ pub'[g] = pub[g] /\ pub[g].ino # p.ino
        BY <1>1, <1>3, <2>1 DEF CorpusInv, Publications
      <3>2. pub[g].at # "idle" => body'[pub[g].ino] = body[pub[g].ino]
        BY <3>1 DEF Publishing
      <3> QED
        BY <1>2, <3>1, <3>2 DEF Publishing, Matches, SameIntent, Publishable, PredecessorStands,
           Bound, Manifest
    <2> QED
      BY <2>1 DEF Publications
  <1>9. Freezing'
    <2>1. ASSUME NEW g \in Freezer
          PROVE  Attested(fz'[g], content[fz'[g].coll], late[fz'[g].coll], snaps)
      <3>1. Attested(fz[g], content[fz[g].coll], late[fz[g].coll], snaps)
        BY DEF CorpusInv, Freezing
      <3>2. CASE g = f
        BY <1>1, <3>1, <3>2 DEF Attested
      <3>3. CASE g # f
        BY <1>1, <3>1, <3>3
      <3> QED
        BY <3>2, <3>3
    <2> QED
      BY <2>1 DEF Freezing
  <1>10. Reports'
    BY DEF CorpusInv, Reports
  <1> QED
    BY <1>4, <1>5, <1>6, <1>7, <1>8, <1>9, <1>10 DEF CorpusInv

\* What a publication in progress is about.
LEMMA PublishingTypes ==
    ASSUME CorpusInv, NEW f \in Freezer, pub[f].at # "idle"
    PROVE  /\ Publishing(f) /\ fz[f].at = "publishing" /\ fz[f] \in Freeze
           /\ pub \in [Freezer -> Publication] /\ pub[f].ino \in Temp
           /\ pub[f].rec = Manifest(f) /\ pub[f].rec \in Record
           /\ pub[f].rec.coll = fz[f].coll /\ pub[f].rec.pred = fz[f].pred
           /\ pub[f].rec.inv = fz[f].inv /\ pub[f].rec.snap = fz[f].snap
           /\ fz[f].coll \in Collection /\ flock[fz[f].coll] = {f}
           /\ \A g \in Freezer \ {f} : pub[g].ino # pub[f].ino
  <1>1. Publishing(f) /\ pub \in [Freezer -> Publication]
    BY FreezeAssumption DEF CorpusInv, Publications, TypeOK, RecordsTypeOK
  <1>2. /\ fz[f].at = "publishing" /\ pub[f].rec = Manifest(f) /\ Manifest(f) \in Record
        /\ pub[f].ino \in Temp
    BY <1>1 DEF Publishing
  <1>3. /\ Manifest(f).coll = fz[f].coll /\ Manifest(f).pred = fz[f].pred
        /\ Manifest(f).inv = fz[f].inv /\ Manifest(f).snap = fz[f].snap
    BY DEF Manifest
  <1>4. fz[f].coll \in Collection /\ flock[fz[f].coll] = {f}
    BY <1>2 DEF CorpusInv, Leases
  <1>5. \A g \in Freezer \ {f} : pub[g].ino # pub[f].ino
    BY <1>2, FreezeAssumption, RecordAssumption DEF CorpusInv, Directory
  <1> QED
    BY <1>1, <1>2, <1>3, <1>4, <1>5, LeaseTypes

LEMMA CreateKeeps ==
    ASSUME CorpusInv, NEW f \in Freezer, Create(f)
    PROVE  CorpusInv'
  <1> DEFINE z == [fz[f] EXCEPT !.at = "publishing"]
  <1>1. /\ fz[f].at = "reobserved" /\ Matches(f) = {} /\ Publishable(f) /\ Manifest(f) \in Record
        /\ CreateTemporary(f, Manifest(f))
        /\ fz' = [fz EXCEPT ![f].at = "publishing"]
        /\ UNCHANGED <<leaseVars, content, snaps, call, orphans, reader, reported,
                       serving, late, sent, crashes>>
    BY DEF Create
  <1>2. PICK t \in Temp :
          /\ t \notin temps /\ body[t] = Blank
          /\ \A q \in Publisher : pub[q].ino # t
          /\ temps' = temps \cup {t}
          /\ pub' = [pub EXCEPT ![f] =
                       [at |-> "created", rec |-> Manifest(f), ino |-> t, won |-> FALSE]]
    BY <1>1 DEF CreateTemporary
  <1>3. UNCHANGED <<linked, body>> /\ Stored' = Stored
    BY <1>1 DEF CreateTemporary, Stored
  <1> DEFINE p == [at |-> "created", rec |-> Manifest(f), ino |-> t, won |-> FALSE]
  <1>4. /\ p \in Publication /\ p.ino = t /\ p.at = "created" /\ p.rec = Manifest(f)
    BY <1>1 DEF Publication
  <1>5. pub' = [pub EXCEPT ![f] = p]
    BY <1>2
  <1> HIDE DEF p
  <1>6. /\ z \in Freeze /\ z.at = "publishing" /\ z.coll = fz[f].coll /\ z.pred = fz[f].pred
        /\ z.inv = fz[f].inv /\ z.snap = fz[f].snap /\ fz' = [fz EXCEPT ![f] = z]
        /\ fz'[f] = z
    BY <1>1, LeaseTypes DEF Freeze
  <1> HIDE DEF z
  <1>7. /\ temps \subseteq Temp /\ body \in [Temp -> Record \cup {Blank}]
        /\ pub \in [Freezer -> Publication]
    BY FreezeAssumption DEF CorpusInv, TypeOK, RecordsTypeOK
  <1>8. \A e \in linked : e.ino # t
    BY <1>2, RecordAssumption DEF CorpusInv, Directory, TypeOK, RecordsTypeOK
  <1>9. Publishing(f)'
    <2>1. pub'[f] = p
      BY <1>5, <1>7
    <2>2. Manifest(f)' = Manifest(f)
      BY <1>6 DEF Manifest
    <2>3. Matches(f)' = {} /\ Publishable(f)'
      BY <1>1, <1>3, <1>6 DEF Matches, SameIntent, Publishable, PredecessorStands, Bound
    <2> QED
      BY <1>1, <1>2, <1>3, <1>4, <1>6, <1>8, <2>1, <2>2, <2>3 DEF Publishing
  <1>10. /\ p.ino \in Temp /\ (\A g \in Freezer \ {f} : pub[g].ino # p.ino)
         /\ temps' \subseteq Temp /\ (\A e \in linked : e.ino \in temps' => e.ino \in temps)
         /\ body' \in [Temp -> Record \cup {Blank}]
         /\ (\A e \in linked : body'[e.ino] = body[e.ino])
         /\ (\A u \in Temp \ {p.ino} : body'[u] = body[u])
    BY <1>2, <1>3, <1>4, <1>7, <1>8, FreezeAssumption
  <1> QED
    BY <1>1, <1>3, <1>4, <1>5, <1>6, <1>9, <1>10, PublishMoves

\* The steps of publish that link nothing.
LEMMA UnlinkedKeeps ==
    ASSUME CorpusInv, NEW f \in Freezer, UNCHANGED <<leaseVars, freezeVars>>,
           WriteTemporary(f) \/ UnlinkTemporary(f) \/ ReadBack(f)
    PROVE  CorpusInv'
  <1>1. /\ pub[f].at # "idle" /\ UNCHANGED <<linked, fz, reported>>
    BY DEF WriteTemporary, UnlinkTemporary, ReadBack, freezeVars
  <1>2. /\ UNCHANGED <<leaseVars, content, snaps, call, orphans, reader, reported,
                       serving, late, sent, crashes>>
        /\ Stored' = Stored /\ Manifest(f)' = Manifest(f)
    BY <1>1 DEF freezeVars, Stored, Manifest
  <1>3. /\ pub \in [Freezer -> Publication] /\ temps \subseteq Temp
        /\ body \in [Temp -> Record \cup {Blank}]
    BY FreezeAssumption DEF CorpusInv, TypeOK, RecordsTypeOK
  <1>4. PICK at \in {"written", "unlinked", "stored"} :
          /\ \/ pub[f].at = "created" /\ at = "written"
             \/ pub[f].at = "linked" /\ at = "unlinked"
             \/ pub[f].at = "unlinked" /\ at = "stored"
          /\ pub' = [pub EXCEPT ![f].at = at]
    <2>1. CASE WriteTemporary(f)
      BY <2>1 DEF WriteTemporary
    <2>2. CASE UnlinkTemporary(f)
      BY <2>2 DEF UnlinkTemporary
    <2>3. CASE ReadBack(f)
      BY <2>3 DEF ReadBack
    <2> QED
      BY <2>1, <2>2, <2>3
  <1> DEFINE p == [pub[f] EXCEPT !.at = at]
  <1>5. pub' = [pub EXCEPT ![f] = p]
    BY <1>3, <1>4
  <1>6. /\ p \in Publication /\ p.at = at /\ p.ino = pub[f].ino /\ p.rec = pub[f].rec
    BY <1>3, <1>4 DEF Publication
  <1>7. pub'[f] = p
    BY <1>3, <1>5
  <1> HIDE DEF p
  <1>8. /\ pub[f].at = "created" => body' = [body EXCEPT ![pub[f].ino] = pub[f].rec]
        /\ pub[f].at # "created" => body' = body
        /\ temps' \subseteq temps
    BY DEF WriteTemporary, UnlinkTemporary, ReadBack
  <1>9. /\ body' \in [Temp -> Record \cup {Blank}]
        /\ \A t \in Temp \ {p.ino} : body'[t] = body[t]
        /\ pub[f].at = "created" => body'[p.ino] = p.rec
    BY <1>1, <1>3, <1>6, <1>8, PublishingTypes
  <1>10. \A e \in linked : body'[e.ino] = body[e.ino]
    <2>1. CASE pub[f].at = "created"
      <3>1. \A e \in linked : e.ino \in Temp /\ e.ino # p.ino
        BY <1>1, <1>6, <2>1, PublishingTypes DEF Publishing, CorpusInv, TypeOK, RecordsTypeOK
      <3> QED
        BY <1>9, <3>1
    <2> QED
      BY <1>8, <2>1
  <1>11. Publishing(f)'
    <2>1. Publishing(f)
      BY <1>1, PublishingTypes
    <2>2. Matches(f) = {} /\ Publishable(f) => Matches(f)' = {} /\ Publishable(f)'
      BY <1>1, <1>2 DEF Matches, SameIntent, Publishable, PredecessorStands, Bound
    <2> QED
      BY <1>1, <1>2, <1>4, <1>6, <1>7, <1>9, <2>1, <2>2 DEF Publishing
  <1>12. fz' = [fz EXCEPT ![f] = fz[f]]
    BY <1>1, LeaseTypes
  <1>13. /\ p.ino \in Temp /\ (\A g \in Freezer \ {f} : pub[g].ino # p.ino)
         /\ temps' \subseteq Temp /\ (\A e \in linked : e.ino \in temps' => e.ino \in temps)
         /\ fz[f] \in Freeze /\ fz[f].at = "publishing"
    BY <1>1, <1>3, <1>6, <1>8, PublishingTypes
  <1> QED
    BY <1>1, <1>2, <1>5, <1>6, <1>9, <1>10, <1>11, <1>12, <1>13, PublishMoves

\* The link makes a manifest durable.  The exclusive lease has kept writers and
\* other freezes of the collection away since the checks.
LEMMA LinkKeeps ==
    ASSUME CorpusInv, NEW f \in Freezer, UNCHANGED <<leaseVars, freezeVars>>, LinkRecord(f)
    PROVE  CorpusInv'
  <1> DEFINE m == pub[f].rec
             c == fz[f].coll
             new == [rec |-> m, ino |-> pub[f].ino]
             free == m \notin Stored
             p == [pub[f] EXCEPT !.at = "linked", !.won = TRUE]
  <1>1. /\ pub[f].at = "written" /\ UNCHANGED <<temps, body, flock, lease, depth, fz>>
        /\ linked' = IF free THEN linked \cup {new} ELSE linked
        /\ pub' = [pub EXCEPT ![f].at = "linked", ![f].won = free]
        /\ UNCHANGED <<content, snaps, call, orphans, reader, reported, serving, late,
                       sent, crashes>>
    BY DEF LinkRecord, leaseVars, freezeVars
  <1>2. /\ Publishing(f) /\ fz[f].at = "publishing" /\ pub \in [Freezer -> Publication]
        /\ pub[f].ino \in Temp /\ m = Manifest(f) /\ m \in Record /\ m.coll = c
        /\ m.pred = fz[f].pred /\ m.inv = fz[f].inv /\ m.snap = fz[f].snap
        /\ c \in Collection /\ flock[c] = {f}
        /\ \A g \in Freezer \ {f} : pub[g].ino # pub[f].ino
    BY <1>1, PublishingTypes
  <1>3. /\ Matches(f) = {} /\ Publishable(f) /\ body[pub[f].ino] = m
        /\ \A e \in linked : e.ino # pub[f].ino
    BY <1>1, <1>2 DEF Publishing
  <1>4. m \notin Stored
    BY <1>2, <1>3 DEF Matches, SameIntent
  <1>5. linked' = linked \cup {new} /\ pub' = [pub EXCEPT ![f] = p]
    BY <1>1, <1>2, <1>4
  <1>6. /\ new \in [rec : Record, ino : Temp] /\ new.rec = m /\ new.ino = pub[f].ino
    BY <1>2
  <1>7. /\ p \in Publication /\ p.at = "linked" /\ p.rec = m /\ p.ino = pub[f].ino
    BY <1>2 DEF Publication
  <1> HIDE DEF new, p, m, c
  <1>8. /\ pub' \in [Freezer -> Publication] /\ pub'[f] = p
        /\ \A g \in Freezer \ {f} : pub'[g] = pub[g]
    BY <1>2, <1>5, <1>7
  <1>9. Stored' = Stored \cup {m}
    BY <1>5, <1>6 DEF Stored
  <1>10. m # NoManifest /\ NoManifest \notin Stored
    BY <1>2, FreezeAssumption, StoredTypes
  <1>11. m.pred # m /\ \A n \in Stored : n.pred # m
    <2>1. \A n \in Stored : n.pred # m
      BY <1>4, <1>10 DEF CorpusInv, OneLineage, Bound
    <2>2. m.pred = NoManifest \/ m.pred \in Stored
      BY <1>2, <1>3 DEF Publishable, PredecessorStands
    <2> QED
      BY <1>4, <1>10, <2>1, <2>2
  <1>12. m \notin reported
    BY <1>4 DEF CorpusInv, Reports, Stored
  <1>13. TypeOK'
    <2>1. RecordsTypeOK'
      BY <1>1, <1>5, <1>6, <1>8, FreezeAssumption DEF CorpusInv, TypeOK, RecordsTypeOK
    <2>2. LeaseTypeOK'
      BY <1>1 DEF CorpusInv, TypeOK, LeaseTypeOK
    <2> QED
      BY <1>1, <2>1, <2>2 DEF CorpusInv, TypeOK
  <1>14. Leases' /\ Operations' /\ Freezing' /\ ServedIsFrozen' /\ IsFiniteSet(snaps)'
    BY <1>1 DEF CorpusInv, Leases, Operations, Freezing, ServedIsFrozen
  <1>15. Directory'
    <2>1. \A e \in linked : e.rec # m /\ e.ino # pub[f].ino
      BY <1>3, <1>4 DEF Stored
    <2>2. \A d, e \in linked' : d.rec = e.rec \/ d.ino = e.ino => d = e
      BY <1>5, <1>6, <2>1 DEF CorpusInv, Directory
    <2>3. \A e \in linked' : body[e.ino] = e.rec /\ e.rec.coll \in Collection
      BY <1>2, <1>3, <1>5, <1>6 DEF CorpusInv, Directory
    <2>4. ASSUME NEW g \in Publisher, NEW h \in Publisher, g # h
          PROVE  pub'[g].ino = NoTemp \/ pub'[g].ino # pub'[h].ino
      <3>1. pub[g].ino = NoTemp \/ pub[g].ino # pub[h].ino
        BY <2>4 DEF CorpusInv, Directory
      <3> QED
        BY <1>7, <1>8, <2>4, <3>1, FreezeAssumption
    <2> QED
      BY <1>1, <2>2, <2>3, <2>4 DEF Directory
  <1>16. Publications'
    <2>1. ASSUME NEW g \in Freezer, g # f PROVE Publishing(g)'
      <3>1. /\ Publishing(g) /\ fz'[g] = fz[g] /\ pub'[g] = pub[g]
            /\ Manifest(g)' = Manifest(g)
        BY <1>1, <1>8, <2>1 DEF CorpusInv, Publications, Manifest
      <3>2. ASSUME pub[g].at # "idle"
            PROVE  fz[g].coll # c /\ pub[g].rec.coll = fz[g].coll /\ pub[g].ino # pub[f].ino
        BY <1>2, <2>1, <3>2, PublishingTypes, FreezesApart DEF c
      <3>3. ASSUME pub[g].at \in {"created", "written"}
            PROVE  /\ \A e \in linked' : e.ino # pub[g].ino
                   /\ Matches(g)' = {} /\ Publishable(g)'
        <4>1. /\ \A e \in linked : e.ino # pub[g].ino
              /\ Matches(g) = {} /\ Publishable(g)
          BY <3>1, <3>3 DEF Publishing
        <4>2. Matches(g)' = {}
          BY <1>2, <1>9, <3>1, <3>2, <3>3, <4>1 DEF Matches, SameIntent
        <4>3. Publishable(g)'
          BY <1>2, <1>9, <3>1, <3>2, <3>3, <4>1 DEF Publishable, PredecessorStands, Bound
        <4> QED
          BY <1>5, <1>6, <3>2, <3>3, <4>1, <4>2, <4>3
      <3>4. ASSUME pub[g].at \in {"linked", "unlinked"}
            PROVE  \A n \in Stored' : n.pred # pub[g].rec
        <4>1. \A n \in Stored : n.pred # pub[g].rec
          BY <3>1, <3>4 DEF Publishing
        <4>2. pub[g].rec \in Record
          BY <3>4, PublishingTypes
        <4>3. m.pred # pub[g].rec
          BY <1>2, <1>3, <3>2, <3>4, <4>2, FreezeAssumption DEF Publishable, PredecessorStands, c
        <4> QED
          BY <1>9, <4>1, <4>3
      <3>5. /\ pub[g].at = "idle" <=> fz[g].at # "publishing"
            /\ pub[g].at = "idle" => pub[g] = NotPublishing
            /\ pub[g].at # "idle" => pub[g].rec = Manifest(g) /\ Manifest(g) \in Record
                                     /\ pub[g].ino \in Temp
            /\ pub[g].at = "created" => body[pub[g].ino] = Blank
            /\ pub[g].at = "written" => body[pub[g].ino] = pub[g].rec
            /\ pub[g].at \in {"linked", "unlinked"} => pub[g].rec \notin reported
        BY <3>1 DEF Publishing
      <3>6. /\ fz'[g] = fz[g] /\ pub'[g] = pub[g] /\ Manifest(g)' = Manifest(g)
            /\ body' = body /\ reported' = reported
        BY <1>1, <3>1
      <3> QED
        BY <3>3, <3>4, <3>5, <3>6 DEF Publishing
    <2>2. Publishing(f)'
      <3>1. Manifest(f)' = Manifest(f)
        BY <1>1 DEF Manifest
      <3> QED
        BY <1>1, <1>2, <1>7, <1>8, <1>9, <1>11, <1>12, <3>1 DEF Publishing
    <2> QED
      BY <2>1, <2>2 DEF Publications
  <1>17. Reports'
    BY <1>1, <1>5 DEF CorpusInv, Reports
  <1>18. FrozenIsClosed'
    <2>1. ASSUME NEW w \in Writer, lease[w].phase \in {"open", "closing"}
          PROVE  lease[w].coll # c
      BY <1>2, <2>1, LeaseTypes DEF CorpusInv, Leases
    <2> QED
      BY <1>1, <1>2, <1>9, <2>1 DEF CorpusInv, FrozenIsClosed, Bound
  <1>19. OneLineage'
    <2>1. m.pred # NoManifest => m.pred \in Stored /\ m.pred.coll = m.coll
      BY <1>2, <1>3 DEF Publishable, PredecessorStands, c
    <2>2. ASSUME NEW n \in Stored, n.pred = m.pred, n.inv = m.inv \/ m.pred = NoManifest,
                 n.coll = m.coll
          PROVE  FALSE
      <3>1. CASE n.inv = m.inv
        BY <1>2, <1>3, <2>2, <3>1 DEF Matches, SameIntent, c
      <3>2. CASE m.pred = NoManifest
        BY <1>2, <1>3, <1>10, <2>2, <3>2 DEF Publishable, Bound, c
      <3> QED
        BY <2>2, <3>1, <3>2
    <2>3. ASSUME NEW n \in Stored', n.pred # NoManifest PROVE n.pred \in Bound(n.coll)'
      BY <1>9, <2>1, <2>3 DEF CorpusInv, OneLineage, Bound
    <2>4. ASSUME NEW n \in Stored', NEW o \in Stored', n.pred = o.pred,
                 n.inv = o.inv \/ n.pred = NoManifest, n.coll = o.coll
          PROVE  n = o
      <3>1. CASE n \in Stored /\ o \in Stored
        BY <2>4, <3>1 DEF CorpusInv, OneLineage
      <3>2. CASE n = m \/ o = m
        BY <1>9, <2>2, <2>4, <3>2
      <3> QED
        BY <1>9, <3>1, <3>2
    <2> QED
      BY <2>3, <2>4 DEF OneLineage
  <1>20. SnapshotBacked'
    <2>1. \E s \in snaps : s.coll = m.coll /\ s.id = m.snap
                             /\ (s.of = m.inv \/ late[m.coll] >= 2)
      BY <1>2 DEF CorpusInv, Freezing, Attested, c
    <2>2. late[m.coll] \in Nat
      BY <1>2 DEF CorpusInv, TypeOK
    <2>3. late[m.coll] < 2 =>
            \E s \in snaps : s.coll = m.coll /\ s.id = m.snap /\ s.of = m.inv
      BY <2>1, <2>2
    <2> QED
      BY <1>1, <1>9, <2>3 DEF CorpusInv, SnapshotBacked
  <1> QED
    BY <1>13, <1>14, <1>15, <1>16, <1>17, <1>18, <1>19, <1>20 DEF CorpusInv

LEMMA PublishKeeps ==
    ASSUME CorpusInv, NEW f \in Freezer, Publish(f)
    PROVE  CorpusInv'
  BY LinkKeeps, UnlinkedKeeps DEF Publish

-----------------------------------------------------------------------------
(* verify_corpus, and the steps together *)

\* Only what verify_corpus is reading and what it serves changes.
LEMMA VerifyMoves ==
    ASSUME CorpusInv, reader' \in reported \cup {NoManifest},
           serving \subseteq serving', serving' \subseteq reported,
           \A m \in serving' \ serving : content[m.coll] = m.inv,
           UNCHANGED <<recordVars, leaseVars, content, snaps, call, orphans, fz,
                       reported, late, sent, crashes>>
    PROVE  CorpusInv'
  <1>1. UNCHANGED <<temps, linked, body, pub, flock, lease, depth>>
    BY DEF recordVars, leaseVars
  <1>2. TypeOK'
    BY <1>1, RecordsStay DEF CorpusInv, TypeOK, LeaseTypeOK
  <1>3. Leases' /\ Operations' /\ FrozenIsClosed' /\ SnapshotBacked'
    BY <1>1, RecordsStay DEF CorpusInv, Leases, Operations, FrozenIsClosed, Bound, SnapshotBacked
  <1>4. Directory' /\ Publications' /\ OneLineage' /\ Freezing' /\ IsFiniteSet(snaps)'
    BY <1>1, RecordsStay, FreezesStay
  <1>5. Reports' /\ ServedIsFrozen'
    BY <1>1 DEF CorpusInv, Reports, ServedIsFrozen
  <1> QED
    BY <1>2, <1>3, <1>4, <1>5 DEF CorpusInv

LEMMA VerifyKeeps ==
    ASSUME CorpusInv, VerifyRead \/ VerifyObserve \/ VerifyRefuse
    PROVE  CorpusInv'
  <1>1. serving \subseteq reported /\ (reader # NoManifest => reader \in reported)
    BY DEF CorpusInv, TypeOK, Reports
  <1>2. CASE VerifyRead
    BY <1>1, <1>2, VerifyMoves DEF VerifyRead
  <1>3. CASE VerifyObserve
    BY <1>1, <1>3, VerifyMoves DEF VerifyObserve
  <1>4. CASE VerifyRefuse
    BY <1>1, <1>4, VerifyMoves DEF VerifyRefuse
  <1> QED
    BY <1>2, <1>3, <1>4

LEMMA InitKeeps ==
    ASSUME Init
    PROVE  CorpusInv
  <1>1. /\ linked = {} /\ temps = {} /\ snaps = {} /\ reported = {} /\ serving = {}
        /\ orphans = {} /\ reader = NoManifest /\ sent = 0 /\ crashes = 0 /\ Stored = {}
    BY DEF Init, RecordsInit, Stored
  <1>2. /\ pub = [p \in Publisher |-> NotPublishing] /\ fz = [f \in Freezer |-> NoFreeze]
        /\ body = [t \in Temp |-> Blank]
        /\ lease = [w \in Writer |-> NoLease] /\ flock = [c \in Collection |-> {}]
        /\ call = [w \in Writer |-> [t \in Thread |-> NoCall]]
        /\ depth = [w \in Writer |-> [t \in Thread |-> 0]]
        /\ late = [c \in Collection |-> 0] /\ content \in [Collection -> Initial]
    BY DEF Init, RecordsInit, LeaseInit
  <1>3. /\ NotPublishing \in Publication /\ NotPublishing.at = "idle"
        /\ NotPublishing.ino = NoTemp
    BY DEF NotPublishing, Publication
  <1>4. NoLease \in WriteLease /\ NoLease.phase = "none"
    BY DEF NoLease, WriteLease
  <1>5. /\ NoCall \in DenseCall /\ NoCall.at = "idle" /\ NoFreeze \in Freeze
        /\ NoFreeze.at = "idle"
    BY CallTypes
  <1>6. TypeOK
    <2>1. RecordsTypeOK
      BY <1>1, <1>2, <1>3 DEF RecordsTypeOK
    <2>2. LeaseTypeOK
      BY <1>2, <1>4 DEF LeaseTypeOK
    <2>3. content \in [Collection -> Content]
      BY <1>2, FreezeAssumption DEF Content
    <2> QED
      BY <1>1, <1>2, <1>5, <2>1, <2>2, <2>3, FreezeAssumption DEF TypeOK
  <1>7. Leases /\ FrozenIsClosed
    BY <1>2, <1>4, <1>5 DEF Leases, FrozenIsClosed
  <1>8. Operations
    BY <1>2, <1>5 DEF Operations, Inside
  <1>9. Directory
    BY <1>1, <1>2, <1>3 DEF Directory
  <1>10. Publications
    BY <1>1, <1>2, <1>3, <1>5, FreezeAssumption DEF Publications, Publishing
  <1>11. Freezing
    BY <1>2, <1>5 DEF Freezing, Attested
  <1>12. Reports /\ ServedIsFrozen /\ OneLineage /\ SnapshotBacked
    BY <1>1 DEF Reports, ServedIsFrozen, OneLineage, SnapshotBacked
  <1>13. IsFiniteSet(snaps)
    BY <1>1, FS_EmptySet
  <1> QED
    BY <1>6, <1>7, <1>8, <1>9, <1>10, <1>11, <1>12, <1>13 DEF CorpusInv

LEMMA StutterKeeps ==
    ASSUME CorpusInv, UNCHANGED vars
    PROVE  CorpusInv'
  <1>1. serving \subseteq reported /\ reader \in reported \cup {NoManifest}
    BY DEF CorpusInv, TypeOK, Reports
  <1> QED
    BY <1>1, VerifyMoves DEF vars, freezeVars

LEMMA NextKeeps ==
    ASSUME CorpusInv, [Next]_vars
    PROVE  CorpusInv'
  <1>1. ASSUME NEW w \in Writer, WriterStep(w) PROVE CorpusInv'
    <2>1. CASE \E c \in Collection : Acquire(w, c)
      BY <2>1, AcquireKeeps
    <2>2. CASE Grant(w) \/ Close(w)
      BY <2>2, GrantCloseKeeps
    <2>3. CASE Deny(w) \/ CloseEnds(w)
      BY <2>3, DenyCloseEndsKeeps
    <2>4. CASE WriterDies(w)
      BY <2>4, WriterDiesKeeps
    <2>5. ASSUME NEW t \in Thread, Begin(w, t) \/ Send(w, t) \/ Answered(w, t)
                                     \/ TimesOut(w, t) \/ Construct(w, t) \/ End(w, t)
          PROVE  CorpusInv'
      BY <2>5, BeginKeeps, SendKeeps, AnsweredKeeps, TimesOutKeeps, ConstructKeeps, EndKeeps
    <2> QED
      BY <1>1, <2>1, <2>2, <2>3, <2>4, <2>5 DEF WriterStep
  <1>2. ASSUME NEW f \in Freezer, FreezerStep(f) PROVE CorpusInv'
    BY <1>2, LockedKeeps, ObserveKeeps, ReplayKeeps, PhaseOfFreeze, CreateSnapshotKeeps,
       CreateKeeps, PublishKeeps, ConfirmKeeps, AbortKeeps, FreezerDiesKeeps DEF FreezerStep
  <1>3. CASE LateApply
    BY <1>3, LateApplyKeeps
  <1>4. CASE VerifyRead \/ VerifyObserve \/ VerifyRefuse
    BY <1>4, VerifyKeeps
  <1>5. CASE UNCHANGED vars
    BY <1>5, StutterKeeps
  <1> QED
    BY <1>1, <1>2, <1>3, <1>4, <1>5 DEF Next

-----------------------------------------------------------------------------
(* Theorems *)

\* The inductive invariant holds in every reachable state, type correctness
\* included, for any collections, processes, threads and bounds.
THEOREM CorpusInvariance == Spec => []CorpusInv
  <1>1. Init => CorpusInv
    BY InitKeeps
  <1>2. CorpusInv /\ [Next]_vars => CorpusInv'
    BY NextKeeps
  <1> QED
    BY <1>1, <1>2, PTL DEF Spec

\* acquire_write_lease and acquire_freeze_lease: no write lease is open on a
\* collection that has a durable manifest.
THEOREM FrozenCollectionIsClosed == Spec => []FrozenIsClosed
  <1>1. CorpusInv => FrozenIsClosed
    BY DEF CorpusInv
  <1> QED
    BY <1>1, CorpusInvariance, PTL

\* verify_corpus: what is served is what the manifest attests, unless Qdrant
\* applied a request its client had given up on.
THEOREM ServedCollectionIsFrozen == Spec => []ServedIsFrozen
  <1>1. CorpusInv => ServedIsFrozen
    BY DEF CorpusInv
  <1> QED
    BY <1>1, CorpusInvariance, PTL

\* find_by_intent and _require_publishable_against: one root per collection, no
\* intent twice, no durable manifest without its predecessor.
THEOREM ManifestsFormOneLineage == Spec => []OneLineage
  <1>1. CorpusInv => OneLineage
    BY DEF CorpusInv
  <1> QED
    BY <1>1, CorpusInvariance, PTL

\* freeze_corpus: a durable manifest names a snapshot of the content it attests
\* unless two late changes cancelled out between the observations.
THEOREM ManifestHasItsSnapshot == Spec => []SnapshotBacked
  <1>1. CorpusInv => SnapshotBacked
    BY DEF CorpusInv
  <1> QED
    BY <1>1, CorpusInvariance, PTL

\* publish: a manifest that was returned has exactly one link for ever after.
THEOREM ReportedManifestStaysReadable == Spec => []ReportedStays
  <1>1. CorpusInv => ReportedStays
    BY OneLink DEF ReportedStays, Readable, CorpusInv, Reports
  <1> QED
    BY <1>1, CorpusInvariance, PTL
=============================================================================
