---------------------------- MODULE EgressProofs ----------------------------
(***************************************************************************)
(* Safety of the egress ledger and transport for every set of tasks,       *)
(* operators, requests, policies and caps.                                 *)
(***************************************************************************)
EXTENDS EgressTransport, TLAPS, FiniteSetTheorems

-----------------------------------------------------------------------------
(* What charging one request does to the two usage records. *)

\* The fields of a request have the types the enforcer computes with.
LEMMA RequestFields ==
    ASSUME NEW q \in Request
    PROVE  /\ q.facts \in SUBSET Disclosure
           /\ Size[q.facts] \in Nat
           /\ q.toc \in Nat
           /\ q.root \in Root
           /\ q.run \in Run
           /\ q.doc \in Document
           /\ q.level \in Level
           /\ q.claim \in Claim \cup {NoClaim}
           /\ q.claim # NoClaim => q.claim \in Claim
  BY EnforcerAssumption, SizeAssumption DEF RequestType

\* Replacing fields of a usage record by values of their type.
LEMMA RunUsageUpdate ==
    ASSUME NEW u \in RunUsage, NEW F \in SUBSET Disclosure, NEW n \in Nat, NEW m \in Nat
    PROVE  [u EXCEPT !.facts = F, !.transmitted = n, !.toc = m] \in RunUsage
  BY DEF RunUsage

LEMMA SharedUsageUpdate ==
    ASSUME NEW u \in UsageSnapshot, NEW F \in SUBSET Disclosure, NEW n \in Nat
    PROVE  /\ [u EXCEPT !.facts = F, !.transmitted = n] \in UsageSnapshot
           /\ [u EXCEPT !.judge = F, !.judgeTransmitted = n] \in UsageSnapshot
  BY DEF UsageSnapshot

LEMMA RunOfUsageUpdate ==
    ASSUME NEW u \in UsageSnapshot, NEW r \in Run, NEW v \in RunUsage
    PROVE  [u EXCEPT !.runs[r] = v] \in UsageSnapshot
  BY DEF UsageSnapshot

\* Charging a claim keeps the usage of its run well formed
\* (_updated_claim_usage).
LEMMA UpdatedClaimsType ==
    ASSUME NEW u \in RunUsage, NEW q \in Request, q.claim # NoClaim
    PROVE  UpdatedClaims(u, q) \in RunUsage
  <1> DEFINE C == u.claims \cup {q.claim}
             G == u.claimFacts[q.claim] \cup q.facts
  <1>1. q.claim \in Claim /\ C \in SUBSET Claim /\ G \in SUBSET Disclosure
    BY RequestFields DEF RunUsage
  <1>2. UpdatedClaims(u, q) = [u EXCEPT !.claims = C, !.claimFacts[q.claim] = G]
    BY DEF UpdatedClaims
  <1> HIDE DEF C, G
  <1>3. [u EXCEPT !.claims = C, !.claimFacts[q.claim] = G] \in RunUsage
    BY <1>1 DEF RunUsage
  <1> QED
    BY <1>2, <1>3

\* Charging a request keeps the usage of its run well formed (_apply_to_run).
LEMMA ApplyToRunType ==
    ASSUME NEW u \in RunUsage, NEW q \in Request
    PROVE  ApplyToRun(u, q) \in RunUsage
  <1> DEFINE F == u.facts \cup q.facts
             n == u.transmitted + Size[q.facts]
             m == u.toc + q.toc
             counted == [u EXCEPT !.facts = F, !.transmitted = n, !.toc = m]
  <1>1. F \in SUBSET Disclosure /\ n \in Nat /\ m \in Nat
    BY RequestFields DEF RunUsage
  <1>2. counted \in RunUsage
    <2> HIDE DEF F, n, m
    <2> QED
      BY <1>1, RunUsageUpdate
  <1>3. ApplyToRun(u, q) = IF q.claim = NoClaim THEN counted ELSE UpdatedClaims(counted, q)
    BY DEF ApplyToRun
  <1>4. q.claim # NoClaim => UpdatedClaims(counted, q) \in RunUsage
    <2> HIDE DEF counted
    <2> QED
      BY <1>2, UpdatedClaimsType
  <1> HIDE DEF counted
  <1> QED
    BY <1>2, <1>3, <1>4

\* Charging a request keeps its root's snapshot well formed, and the snapshot
\* then lists the request's disclosures (_apply_usage).
LEMMA ApplyUsageType ==
    ASSUME NEW u \in UsageSnapshot, NEW q \in Request
    PROVE  /\ ApplyUsage(u, q) \in UsageSnapshot
           /\ ApplyUsage(u, q).facts = u.facts \cup q.facts
           /\ ApplyUsage(u, q).policy = u.policy
           /\ ApplyUsage(u, q).level = u.level
  <1> DEFINE F == u.facts \cup q.facts
             n == u.transmitted + Size[q.facts]
             shared == [u EXCEPT !.facts = F, !.transmitted = n]
  <1>1. F \in SUBSET Disclosure /\ n \in Nat
    BY RequestFields DEF UsageSnapshot
  <1>2. shared \in UsageSnapshot
    <2> HIDE DEF F, n
    <2> QED
      BY <1>1, SharedUsageUpdate
  <1>3. shared.facts = F /\ shared.policy = u.policy /\ shared.level = u.level
    BY DEF UsageSnapshot
  <1>4. CASE q.stage = "judge"
    <2> DEFINE G == shared.judge \cup q.facts
               m == shared.judgeTransmitted + Size[q.facts]
               judged == [shared EXCEPT !.judge = G, !.judgeTransmitted = m]
    <2>1. ApplyUsage(u, q) = judged
      BY <1>4 DEF ApplyUsage
    <2> HIDE DEF shared
    <2>2. G \in SUBSET Disclosure /\ m \in Nat
      BY <1>2, RequestFields DEF UsageSnapshot
    <2>3. judged.facts = shared.facts /\ judged.policy = shared.policy
          /\ judged.level = shared.level
      BY <1>2 DEF UsageSnapshot
    <2> HIDE DEF G, m
    <2>4. judged \in UsageSnapshot
      BY <1>2, <2>2, SharedUsageUpdate
    <2> QED
      BY <1>3, <2>1, <2>3, <2>4
  <1>5. CASE q.stage # "judge"
    <2> DEFINE v == ApplyToRun(shared.runs[q.run], q)
               online == [shared EXCEPT !.runs[q.run] = v]
    <2>1. ApplyUsage(u, q) = online
      BY <1>5 DEF ApplyUsage
    <2> HIDE DEF shared
    <2>2. q.run \in Run /\ v \in RunUsage
      BY <1>2, RequestFields, ApplyToRunType DEF UsageSnapshot
    <2>3. online.facts = shared.facts /\ online.policy = shared.policy
          /\ online.level = shared.level
      BY <1>2 DEF UsageSnapshot
    <2> HIDE DEF v
    <2>4. online \in UsageSnapshot
      BY <1>2, <2>2, RunOfUsageUpdate
    <2> QED
      BY <1>3, <2>1, <2>3, <2>4
  <1> QED
    BY <1>4, <1>5

LEMMA EmptyUsageType ==
    ASSUME NEW q \in Request, NEW p \in Policy
    PROVE  EmptyUsage(q, p) \in UsageSnapshot
  <1>1. EmptyRunUsage \in RunUsage
    BY DEF EmptyRunUsage, RunUsage
  <1> QED
    BY <1>1, RequestFields DEF EmptyUsage, UsageSnapshot

\* Charging a request keeps the corpus record well formed and adds exactly the
\* request's disclosures to the corpus and to its document
\* (_apply_corpus_usage, _apply_document_usage).
LEMMA ApplyCorpusUsageType ==
    ASSUME NEW c \in CorpusUsage, NEW q \in Request
    PROVE  /\ ApplyCorpusUsage(c, q) \in CorpusUsage
           /\ ApplyCorpusUsage(c, q).policy = c.policy
           /\ ApplyCorpusUsage(c, q).facts = c.facts \cup q.facts
           /\ \A d \in Document :
                 ApplyCorpusUsage(c, q).docs[d].facts =
                     IF d = q.doc THEN c.docs[d].facts \cup q.facts ELSE c.docs[d].facts
  <1> DEFINE F == c.facts \cup q.facts
             n == c.tokens + Size[q.facts \ c.facts]
             a == AppliedDocument(c.docs[q.doc], q)
             applied == [c EXCEPT !.facts = F, !.tokens = n, !.docs[q.doc] = a]
  <1>1. ApplyCorpusUsage(c, q) = applied
    BY DEF ApplyCorpusUsage
  <1>2. F \in SUBSET Disclosure /\ n \in Nat
    BY RequestFields, SizeAssumption DEF CorpusUsage
  <1>3. a \in Account /\ a.facts = c.docs[q.doc].facts \cup q.facts
    BY RequestFields, SizeAssumption DEF CorpusUsage, Account, AppliedDocument
  <1> HIDE DEF F, n, a
  <1>4. applied \in CorpusUsage /\ applied.policy = c.policy /\ applied.facts = F
        /\ \A d \in Document : applied.docs[d] = IF d = q.doc THEN a ELSE c.docs[d]
    BY <1>2, <1>3, RequestFields DEF CorpusUsage
  <1> QED
    BY <1>1, <1>3, <1>4 DEF F

LEMMA EmptyCorpusUsageType ==
    ASSUME NEW p \in Policy
    PROVE  EmptyCorpusUsage(p) \in CorpusUsage
  BY DEF EmptyCorpusUsage, CorpusUsage, Account

-----------------------------------------------------------------------------
(* Each ledger transaction preserves the ledger's invariant. *)

\* The rows a reservation starts from are well formed, and belong to the epoch
\* that is charged.
LEMMA LockedRows ==
    ASSUME LedgerInv, NEW q \in Request, NEW p \in Policy, NEW e \in Epoch,
           LockedEpoch(e), RootInEpoch(q, e)
    PROVE  /\ LockedUsage(q, p) \in UsageSnapshot
           /\ LockedCorpusUsage(e, p) \in CorpusUsage
           /\ LockedRow(e, p) \in EpochRow
           /\ LockedRow(e, p).usage = LockedCorpusUsage(e, p)
           /\ roots[q.root] # NoRow =>
                  /\ head = e
                  /\ LockedUsage(q, p) = roots[q.root].usage
           /\ head # NoEpoch => epochs[e] # NoRow /\ LockedCorpusUsage(e, p) = epochs[e].usage
  <1> USE DEF LedgerInv, LedgerTypeOK
  <1>1. q.root \in Root
    BY RequestFields
  <1>2. LockedUsage(q, p) \in UsageSnapshot
    BY <1>1, EmptyUsageType DEF LockedUsage, RootRow
  <1>3. head # NoEpoch => epochs[e] \in EpochRow
    BY DEF LockedEpoch, BoundToEpochs
  <1>4. LockedCorpusUsage(e, p) \in CorpusUsage
    BY <1>3, EmptyCorpusUsageType DEF LockedCorpusUsage, EpochRow
  <1>5. LockedRow(e, p) \in EpochRow /\ LockedRow(e, p).usage = LockedCorpusUsage(e, p)
    BY <1>3, EmptyCorpusUsageType DEF LockedRow, LockedCorpusUsage, EpochRow
  <1>6. roots[q.root] # NoRow => head = e /\ LockedUsage(q, p) = roots[q.root].usage
    BY <1>1 DEF RootInEpoch, LockedUsage, LockedEpoch, BoundToEpochs
  <1>7. head # NoEpoch => epochs[e] # NoRow /\ LockedCorpusUsage(e, p) = epochs[e].usage
    BY DEF LockedEpoch, BoundToEpochs, LockedCorpusUsage
  <1> QED
    BY <1>2, <1>4, <1>5, <1>6, <1>7

LEMMA ReserveKeeps ==
    ASSUME LedgerInv, NEW q \in Request, NEW p \in Policy, NEW e \in Epoch,
           NEW r \in Reservation, Reserve(q, p, e, r)
    PROVE  /\ LedgerInv'
           /\ reservations'[r] # NoRow
           /\ reservations'[r].request = q
           /\ \A s \in Reservation : s # r => reservations'[s] = reservations[s]
  <1> DEFINE usage == ApplyUsage(LockedUsage(q, p), q)
             corpus == ApplyCorpusUsage(LockedCorpusUsage(e, p), q)
             epoch == [LockedRow(e, p) EXCEPT !.usage = corpus]
             row == [request |-> q, policy |-> p, epoch |-> e, state |-> "reserved"]
             root == [epoch |-> e, usage |-> usage]
  <1>1. LockedEpoch(e) /\ RootInEpoch(q, e)
    BY DEF Reserve
  <1>2. q.root \in Root /\ q.doc \in Document
    BY RequestFields
  <1>3. usage \in UsageSnapshot /\ usage.facts = LockedUsage(q, p).facts \cup q.facts
        /\ usage.policy = p
    BY <1>1, LockedRows, ApplyUsageType DEF Reserve, ApplyReservation
  <1>4. /\ corpus \in CorpusUsage
        /\ corpus.policy = LockedCorpusUsage(e, p).policy
        /\ corpus.policy = p
        /\ corpus.facts = LockedCorpusUsage(e, p).facts \cup q.facts
        /\ \A d \in Document : LockedCorpusUsage(e, p).docs[d].facts \subseteq corpus.docs[d].facts
        /\ q.facts \subseteq corpus.docs[q.doc].facts
    <2> DEFINE c == LockedCorpusUsage(e, p)
    <2>1. c \in CorpusUsage
      BY <1>1, LockedRows
    <2>2. c.policy = p
      BY DEF Reserve, ApplyReservation
    <2> HIDE DEF c
    <2>3. /\ ApplyCorpusUsage(c, q) \in CorpusUsage
          /\ ApplyCorpusUsage(c, q).policy = c.policy
          /\ ApplyCorpusUsage(c, q).facts = c.facts \cup q.facts
          /\ \A d \in Document :
                ApplyCorpusUsage(c, q).docs[d].facts =
                    IF d = q.doc THEN c.docs[d].facts \cup q.facts ELSE c.docs[d].facts
      BY <2>1, ApplyCorpusUsageType
    <2>4. corpus = ApplyCorpusUsage(c, q)
      BY DEF c
    <2> HIDE DEF corpus
    <2>5. \A d \in Document : c.docs[d].facts \subseteq corpus.docs[d].facts
      BY <2>3, <2>4
    <2>6. q.facts \subseteq corpus.docs[q.doc].facts
      BY <1>2, <2>3, <2>4
    <2> QED
      BY <2>2, <2>3, <2>4, <2>5, <2>6 DEF c
  <1> HIDE DEF usage, corpus
  <1>5. epoch \in EpochRow /\ epoch.usage = corpus
    BY <1>1, <1>4, LockedRows DEF EpochRow
  <1>6. root \in RootRow /\ row \in ReservationRow
    BY <1>3 DEF RootRow, ReservationRow, ReservationState
  <1>7. epoch # NoRow /\ root # NoRow /\ row # NoRow
    BY <1>5, <1>6, LedgerAssumption
  <1>8. /\ head' = e
        /\ epochs' = [epochs EXCEPT ![e] = epoch]
        /\ roots' = [roots EXCEPT ![q.root] = root]
        /\ reservations' = [reservations EXCEPT ![r] = row]
        /\ reservations[r] = NoRow
        /\ Replays(q, p) = {}
        /\ UNCHANGED <<attempts, seals, authorized>>
    BY DEF Reserve, usage, corpus
  <1> HIDE DEF epoch, root
  <1>9. LedgerTypeOK'
    BY <1>2, <1>5, <1>6, <1>8 DEF LedgerInv, LedgerTypeOK
  <1>10. reservations'[r] = row /\ \A s \in Reservation : s # r => reservations'[s] = reservations[s]
    BY <1>8 DEF LedgerInv, LedgerTypeOK
  <1>11. Committed' = Committed \cup {r} /\ r \notin Committed
    BY <1>7, <1>8, <1>10 DEF Committed
  <1>12. KeysUnique'
    <2>1. \A s \in Committed :
             ~ (/\ reservations[s].request.root = q.root
                /\ reservations[s].request.run = q.run
                /\ reservations[s].policy = p
                /\ reservations[s].request.key = q.key)
      BY <1>8 DEF Replays
    <2>2. \A s \in Committed : s \in Reservation /\ reservations'[s] = reservations[s]
      BY <1>10, <1>11 DEF Committed
    <2> QED
      BY <1>10, <1>11, <2>1, <2>2 DEF KeysUnique, LedgerInv
  <1>13. /\ epochs'[e] = epoch
         /\ \A f \in Epoch : f # e => epochs'[f] = epochs[f]
         /\ roots'[q.root] = root
         /\ \A k \in Root : k # q.root => roots'[k] = roots[k]
         /\ root.epoch = e /\ root.usage = usage
    BY <1>2, <1>8 DEF LedgerInv, LedgerTypeOK, root
  <1>14. \A f \in Epoch : epochs[f] # NoRow =>
            /\ epochs'[f] # NoRow
            /\ epochs'[f].usage.policy = epochs[f].usage.policy
    <2> SUFFICES ASSUME NEW f \in Epoch, epochs[f] # NoRow
                 PROVE  /\ epochs'[f] # NoRow
                        /\ epochs'[f].usage.policy = epochs[f].usage.policy
      OBVIOUS
    <2>1. head # NoEpoch
      BY DEF LedgerInv, BoundToEpochs
    <2>2. LockedCorpusUsage(e, p) = epochs[e].usage
      BY <1>1, <2>1, LockedRows
    <2>3. CASE f = e
      BY <1>4, <1>5, <1>7, <1>13, <2>2, <2>3
    <2>4. CASE f # e
      BY <1>13, <2>4
    <2> QED
      BY <2>3, <2>4
  <1>15. BoundToEpochs'
    <2>1. head' # NoEpoch /\ epochs'[head'] # NoRow
      BY <1>7, <1>8, <1>13, LedgerAssumption
    <2>2. ASSUME NEW k \in Root, roots'[k] # NoRow
          PROVE  /\ epochs'[roots'[k].epoch] # NoRow
                 /\ roots'[k].usage.policy = epochs'[roots'[k].epoch].usage.policy
      <3>1. CASE k = q.root
        BY <1>3, <1>4, <1>5, <1>7, <1>13, <3>1
      <3>2. CASE k # q.root
        <4>1. roots'[k] = roots[k] /\ roots[k] # NoRow /\ roots[k].epoch \in Epoch
          BY <1>13, <2>2, <3>2 DEF LedgerInv, LedgerTypeOK, RootRow
        <4> QED
          BY <1>14, <4>1 DEF LedgerInv, BoundToEpochs
      <3> QED
        BY <3>1, <3>2
    <2>3. ASSUME NEW s \in Committed'
          PROVE  /\ roots'[reservations'[s].request.root] # NoRow
                 /\ roots'[reservations'[s].request.root].epoch = reservations'[s].epoch
                 /\ reservations'[s].policy = epochs'[reservations'[s].epoch].usage.policy
      <3>1. CASE s = r
        BY <1>4, <1>5, <1>7, <1>10, <1>13, <3>1
      <3>2. CASE s # r
        <4>1. s \in Committed /\ reservations'[s] = reservations[s]
          BY <1>10, <1>11, <3>2 DEF Committed
        <4>2. /\ reservations[s].request \in Request
              /\ reservations[s].request.root \in Root
              /\ reservations[s].epoch \in Epoch
          BY <4>1, RequestFields DEF LedgerInv, LedgerTypeOK, Committed, ReservationRow
        <4>3. /\ roots[reservations[s].request.root] # NoRow
              /\ roots[reservations[s].request.root].epoch = reservations[s].epoch
              /\ epochs[reservations[s].epoch] # NoRow
              /\ reservations[s].policy = epochs[reservations[s].epoch].usage.policy
          BY <4>1, <4>2 DEF LedgerInv, BoundToEpochs
        <4>4. roots'[reservations[s].request.root] # NoRow
              /\ roots'[reservations[s].request.root].epoch = reservations[s].epoch
          BY <1>1, <1>7, <1>13, <4>2, <4>3 DEF RootInEpoch
        <4> QED
          BY <1>14, <4>1, <4>2, <4>3, <4>4
      <3> QED
        BY <3>1, <3>2
    <2> QED
      BY <2>1, <2>2, <2>3 DEF BoundToEpochs
  <1>16. Charged'
    <2> SUFFICES ASSUME NEW s \in Committed'
                 PROVE  LET k == reservations'[s].request
                        IN  /\ head' # NoEpoch
                            /\ k.facts \subseteq roots'[k.root].usage.facts
                            /\ k.facts \subseteq epochs'[head'].usage.facts
                            /\ k.facts \subseteq epochs'[head'].usage.docs[k.doc].facts
      BY DEF Charged
    <2>1. CASE s = r
      BY <1>3, <1>4, <1>5, <1>8, <1>10, <1>13, <2>1, LedgerAssumption
    <2>2. CASE s # r
      <3> DEFINE k == reservations[s].request
      <3>1. s \in Committed /\ reservations'[s] = reservations[s]
        BY <1>10, <1>11, <2>2 DEF Committed
      <3>2. k \in Request /\ k.root \in Root /\ k.doc \in Document
        BY <3>1, RequestFields DEF LedgerInv, LedgerTypeOK, Committed, ReservationRow
      <3>3. /\ head # NoEpoch
            /\ k.facts \subseteq roots[k.root].usage.facts
            /\ k.facts \subseteq epochs[head].usage.facts
            /\ k.facts \subseteq epochs[head].usage.docs[k.doc].facts
            /\ roots[k.root] # NoRow
        BY <3>1 DEF LedgerInv, Charged, BoundToEpochs
      <3>4. head = e /\ LockedCorpusUsage(e, p) = epochs[head].usage
        BY <1>1, <3>3, LockedRows DEF LockedEpoch
      <3>5. roots[k.root].usage.facts \subseteq roots'[k.root].usage.facts
        BY <1>1, <1>3, <1>13, <3>2, <3>3, LockedRows
      <3> QED
        BY <1>4, <1>5, <1>8, <1>13, <3>1, <3>2, <3>3, <3>4, <3>5
    <2> QED
      BY <2>1, <2>2
  <1> QED
    BY <1>7, <1>9, <1>10, <1>12, <1>15, <1>16 DEF LedgerInv

\* A step that keeps epochs, roots and what every reservation was granted for
\* keeps the ledger's invariant.
LEMMA StateOnlyKeeps ==
    ASSUME LedgerInv, LedgerTypeOK', UNCHANGED <<head, epochs, roots>>,
           \A s \in Reservation :
               /\ reservations'[s] = NoRow <=> reservations[s] = NoRow
               /\ reservations[s] # NoRow =>
                      /\ reservations'[s].request = reservations[s].request
                      /\ reservations'[s].policy = reservations[s].policy
                      /\ reservations'[s].epoch = reservations[s].epoch
    PROVE  LedgerInv'
  <1>1. Committed' = Committed
    BY DEF Committed
  <1>2. \A s \in Committed :
           /\ s \in Reservation
           /\ reservations'[s].request = reservations[s].request
           /\ reservations'[s].policy = reservations[s].policy
           /\ reservations'[s].epoch = reservations[s].epoch
    BY DEF Committed
  <1>3. KeysUnique'
    BY <1>1, <1>2 DEF LedgerInv, KeysUnique
  <1>4. BoundToEpochs'
    BY <1>1, <1>2 DEF LedgerInv, BoundToEpochs
  <1>5. Charged'
    BY <1>1, <1>2 DEF LedgerInv, Charged
  <1> QED
    BY <1>3, <1>4, <1>5 DEF LedgerInv

\* What a step may not do to a committed reservation.
RowsKept ==
    \A s \in Reservation : reservations[s] # NoRow =>
        reservations'[s] # NoRow /\ reservations'[s].request = reservations[s].request

\* record_attempt changes the state of a reservation and nothing else of it.
LEMMA RecordAttemptKeeps ==
    ASSUME LedgerInv, NEW r \in Reservation, reservations[r] # NoRow,
           NEW outcome \in {"succeeded", "failed_known"}, RecordAttempt(r, outcome)
    PROVE  LedgerInv' /\ RowsKept
  <1> DEFINE row == [reservations[r] EXCEPT !.state = outcome]
  <1>1. reservations[r] \in ReservationRow
    BY DEF LedgerInv, LedgerTypeOK
  <1>2. /\ row \in ReservationRow
        /\ row.request = reservations[r].request
        /\ row.policy = reservations[r].policy
        /\ row.epoch = reservations[r].epoch
    BY <1>1 DEF ReservationRow, ReservationState
  <1>3. row # NoRow
    BY <1>2, LedgerAssumption
  <1>4. /\ reservations' = [reservations EXCEPT ![r] = row]
        /\ attempts' = [attempts EXCEPT ![r] = attempts[r] + 1]
        /\ UNCHANGED <<head, epochs, roots, seals, authorized>>
    BY DEF RecordAttempt
  <1> HIDE DEF row
  <1>5. LedgerTypeOK'
    BY <1>2, <1>4 DEF LedgerInv, LedgerTypeOK
  <1>6. \A s \in Reservation : reservations'[s] = IF s = r THEN row ELSE reservations[s]
    BY <1>4 DEF LedgerInv, LedgerTypeOK
  <1>7. \A s \in Reservation :
           /\ reservations'[s] = NoRow <=> reservations[s] = NoRow
           /\ reservations[s] # NoRow =>
                  /\ reservations'[s].request = reservations[s].request
                  /\ reservations'[s].policy = reservations[s].policy
                  /\ reservations'[s].epoch = reservations[s].epoch
    BY <1>2, <1>3, <1>6
  <1> QED
    BY <1>4, <1>5, <1>7, StateOnlyKeeps DEF RowsKept

LEMMA SealRunKeeps ==
    ASSUME LedgerInv, NEW q \in Request, SealRun(q)
    PROVE  LedgerInv' /\ RowsKept
  <1>1. LedgerTypeOK'
    BY RequestFields DEF LedgerInv, LedgerTypeOK, SealRun
  <1> QED
    BY <1>1, StateOnlyKeeps DEF SealRun, RowsKept

LEMMA AuthorizationLapsesKeeps ==
    ASSUME LedgerInv, AuthorizationLapses
    PROVE  LedgerInv' /\ RowsKept
  <1>1. LedgerTypeOK'
    BY DEF LedgerInv, LedgerTypeOK, AuthorizationLapses
  <1> QED
    BY <1>1, StateOnlyKeeps DEF AuthorizationLapses, RowsKept

LEMMA LedgerStutterKeeps ==
    ASSUME LedgerInv, UNCHANGED ledgerVars
    PROVE  LedgerInv' /\ RowsKept
  <1>1. LedgerTypeOK'
    BY DEF LedgerInv, LedgerTypeOK, ledgerVars
  <1> QED
    BY <1>1, StateOnlyKeeps DEF ledgerVars, RowsKept

\* The successor epoch inherits every disclosure, so what was charged to the
\* old head is charged to the new one (_rebind_policy).
LEMMA RebindPolicyKeeps ==
    ASSUME LedgerInv, NEW x, NEW y, NEW p \in Policy, NEW e \in Epoch,
           RebindPolicy(x, y, p, e)
    PROVE  LedgerInv' /\ RowsKept
  <1> DEFINE usage == [epochs[x].usage EXCEPT !.policy = p]
             row == [usage |-> usage, predecessor |-> x]
  <1>1. /\ head = x /\ x \in Epoch
        /\ epochs[x] # NoRow
        /\ epochs[x] \in EpochRow
        /\ epochs[x].usage \in CorpusUsage
    BY DEF RebindPolicy, RebindMoves, LedgerInv, LedgerTypeOK, BoundToEpochs, EpochRow
  <1>2. /\ usage \in CorpusUsage
        /\ usage.facts = epochs[x].usage.facts
        /\ usage.docs = epochs[x].usage.docs
    BY <1>1 DEF CorpusUsage
  <1>3. /\ epochs' = [epochs EXCEPT ![e] = row]
        /\ epochs[e] = NoRow
        /\ head' = e
        /\ UNCHANGED <<roots, reservations, attempts, seals, authorized>>
    BY DEF RebindPolicy
  <1> HIDE DEF usage
  <1>4. row \in EpochRow /\ row # NoRow /\ row.usage = usage
    BY <1>1, <1>2, LedgerAssumption DEF EpochRow
  <1> HIDE DEF row
  <1>5. LedgerTypeOK'
    BY <1>3, <1>4 DEF LedgerInv, LedgerTypeOK
  <1>6. \A f \in Epoch : epochs'[f] = IF f = e THEN row ELSE epochs[f]
    BY <1>3 DEF LedgerInv, LedgerTypeOK
  <1>7. Committed' = Committed
    BY <1>3 DEF Committed
  <1>8. KeysUnique'
    BY <1>3, <1>7 DEF LedgerInv, KeysUnique
  <1>9. BoundToEpochs'
    <2>1. head' # NoEpoch /\ epochs'[head'] # NoRow
      BY <1>3, <1>4, <1>6, LedgerAssumption
    <2>2. ASSUME NEW f \in Epoch, epochs[f] # NoRow
          PROVE  epochs'[f] = epochs[f]
      BY <1>3, <1>6, <2>2
    <2>3. \A k \in Root : roots[k] # NoRow =>
             roots[k].epoch \in Epoch /\ epochs[roots[k].epoch] # NoRow
      BY DEF LedgerInv, LedgerTypeOK, RootRow, BoundToEpochs
    <2>4. \A r \in Committed :
             /\ reservations[r].request \in Request
             /\ reservations[r].epoch \in Epoch
             /\ reservations[r].request.root \in Root
      BY RequestFields DEF LedgerInv, LedgerTypeOK, Committed, ReservationRow
    <2>5. \A r \in Committed : epochs[reservations[r].epoch] # NoRow
      BY <2>3, <2>4 DEF LedgerInv, BoundToEpochs
    <2> QED
      BY <1>3, <1>7, <2>1, <2>2, <2>3, <2>4, <2>5 DEF LedgerInv, BoundToEpochs
  <1>10. Charged'
    <2>1. epochs'[head'].usage.facts = epochs[head].usage.facts
          /\ epochs'[head'].usage.docs = epochs[head].usage.docs
          /\ head' # NoEpoch
      BY <1>1, <1>2, <1>3, <1>4, <1>6, LedgerAssumption
    <2> QED
      BY <1>3, <1>7, <2>1 DEF LedgerInv, Charged
  <1> QED
    BY <1>3, <1>5, <1>8, <1>9, <1>10 DEF LedgerInv, RowsKept

-----------------------------------------------------------------------------
(* Each step of the transport preserves the whole invariant. *)

\* One task moves to state v.  It keeps the invariant when the ledger does, no
\* grant is rewritten, and v holds a reservation no other task holds.
LEMMA TaskMoves ==
    ASSUME IndInv, NEW t \in Task, NEW v \in TaskState,
           tasks' = [tasks EXCEPT ![t] = v],
           LedgerInv', RowsKept, Holds(v)',
           \A u \in Task : u # t /\ v.reservation # NoReservation =>
               tasks[u].reservation # v.reservation,
           \A u \in Task : u # t /\ tasks[u].pc = "granted" =>
               wire'[tasks[u].reservation] = 0,
           wire' \in [Reservation -> Nat], WireCommitted',
           lost' \subseteq Reservation, operators' = operators
    PROVE  IndInv'
  <1>1. tasks \in [Task -> TaskState] /\ operators \in [Operator -> OperatorState]
    BY DEF IndInv, TypeOK
  <1>2. tasks' \in [Task -> TaskState] /\ tasks'[t] = v
        /\ \A u \in Task : u # t => tasks'[u] = tasks[u]
    BY <1>1
  <1>3. TypeOK'
    BY <1>1, <1>2 DEF TypeOK, LedgerInv
  <1>4. TasksHold'
    <2> SUFFICES ASSUME NEW u \in Task PROVE Holds(tasks[u])'
      BY DEF TasksHold
    <2>1. CASE u = t
      BY <1>2, <2>1 DEF Holds, Granted
    <2>2. CASE u # t
      <3>1. tasks'[u] = tasks[u] /\ Holds(tasks[u])
        BY <1>2, <2>2 DEF IndInv, TasksHold
      <3>2. tasks[u].reservation \in Reservation \cup {NoReservation}
        BY <1>1 DEF TaskState
      <3> QED
        BY <2>2, <3>1, <3>2 DEF Holds, Granted, RowsKept
    <2> QED
      BY <2>1, <2>2
  <1>5. OneHolder'
    BY <1>2 DEF IndInv, OneHolder
  <1> QED
    BY <1>3, <1>4, <1>5 DEF IndInv

\* A task that only moves on, or gives its reservation up.
LEMMA TaskAdvances ==
    ASSUME IndInv, NEW t \in Task, NEW v \in TaskState,
           tasks' = [tasks EXCEPT ![t] = v],
           LedgerInv', RowsKept,
           v.reservation \in {tasks[t].reservation, NoReservation},
           v.reservation # NoReservation => v.request = tasks[t].request,
           v.pc # "idle" => v.request \in Request,
           v.pc \in {"idle", "reserving"} <=> v.reservation = NoReservation,
           v.pc # "granted",
           v.pc = "recording" => v.outcome # "none",
           wire' = wire, lost' \subseteq Reservation, operators' = operators
    PROVE  IndInv'
  <1>1. tasks[t] \in TaskState /\ Holds(tasks[t])
    BY DEF IndInv, TypeOK, TasksHold
  <1>2. tasks[t].reservation \in Reservation \cup {NoReservation}
    BY <1>1 DEF TaskState
  <1>3. v.reservation # NoReservation =>
           /\ reservations'[v.reservation] # NoRow
           /\ reservations'[v.reservation].request = v.request
    BY <1>1, <1>2 DEF Holds, Granted, RowsKept
  <1>4. Holds(v)'
    BY <1>3 DEF Holds, Granted
  <1>5. \A u \in Task : u # t /\ v.reservation # NoReservation =>
           tasks[u].reservation # v.reservation
    BY DEF IndInv, OneHolder
  <1>6. \A u \in Task : u # t /\ tasks[u].pc = "granted" =>
           wire'[tasks[u].reservation] = 0
    BY DEF IndInv, TasksHold, Holds
  <1>7. WireCommitted' /\ wire' \in [Reservation -> Nat]
    BY DEF IndInv, TypeOK, WireCommitted, RowsKept
  <1> QED
    BY <1>4, <1>5, <1>6, <1>7, TaskMoves

\* A task that returns from send.
LEMMA TaskFinishes ==
    ASSUME IndInv, NEW t \in Task, Finish(t), LedgerInv', RowsKept,
           wire' = wire, lost' \subseteq Reservation, operators' = operators
    PROVE  IndInv'
  <1>1. IdleTask \in TaskState /\ IdleTask.reservation = NoReservation
        /\ IdleTask.pc = "idle"
    BY DEF IdleTask, TaskState, Pc
  <1>2. tasks' = [tasks EXCEPT ![t] = IdleTask]
    BY DEF Finish
  <1> QED
    BY <1>1, <1>2, TaskAdvances

\* A task that holds a reservation and moves to another await of send.
LEMMA TaskSuspends ==
    ASSUME IndInv, NEW t \in Task, NEW pc \in Pc,
           NEW outcome \in {"none", "succeeded", "failed_known"},
           tasks[t].reservation # NoReservation,
           pc \notin {"idle", "reserving", "granted"},
           pc = "recording" => outcome # "none",
           tasks' = [tasks EXCEPT ![t] = [tasks[t] EXCEPT !.pc = pc, !.outcome = outcome]],
           LedgerInv', RowsKept,
           wire' = wire, lost' = lost, operators' = operators
    PROVE  IndInv'
  <1> DEFINE v == [tasks[t] EXCEPT !.pc = pc, !.outcome = outcome]
  <1>1. tasks[t] \in TaskState /\ Holds(tasks[t]) /\ lost \subseteq Reservation
    BY DEF IndInv, TypeOK, TasksHold
  <1>2. /\ v \in TaskState /\ v.pc = pc /\ v.outcome = outcome
        /\ v.request = tasks[t].request /\ v.reservation = tasks[t].reservation
    BY <1>1 DEF TaskState
  <1>3. v.request \in Request
    BY <1>1, <1>2 DEF Holds
  <1> HIDE DEF v
  <1>4. tasks' = [tasks EXCEPT ![t] = v]
    BY DEF v
  <1> QED
    BY <1>1, <1>2, <1>3, <1>4, TaskAdvances

\* Steps that change neither tasks nor the wire.
LEMMA TasksStutter ==
    ASSUME IndInv, LedgerInv', RowsKept, UNCHANGED <<tasks, wire, lost>>,
           operators' \in [Operator -> OperatorState]
    PROVE  IndInv'
  <1>1. TypeOK'
    BY DEF IndInv, TypeOK, LedgerInv
  <1>2. \A t \in Task : tasks[t].reservation \in Reservation \cup {NoReservation}
    BY DEF IndInv, TypeOK, TaskState
  <1>3. TasksHold'
    BY <1>2 DEF IndInv, TasksHold, Holds, Granted, RowsKept
  <1>4. OneHolder' /\ WireCommitted'
    BY DEF IndInv, OneHolder, WireCommitted, RowsKept
  <1> QED
    BY <1>1, <1>3, <1>4 DEF IndInv

LEMMA InitEstablishes == Init => IndInv
  <1> SUFFICES ASSUME Init PROVE IndInv
    OBVIOUS
  <1>1. Committed = {}
    BY DEF Init, LedgerInit, Committed
  <1>2. LedgerTypeOK
    BY DEF Init, LedgerInit, LedgerTypeOK
  <1>3. LedgerInv
    BY <1>1, <1>2 DEF LedgerInv, KeysUnique, BoundToEpochs, Charged, Init, LedgerInit
  <1>4. IdleTask \in TaskState /\ Holds(IdleTask)
    BY DEF IdleTask, TaskState, Pc, Holds
  <1>5. \A t \in Task : tasks[t] = IdleTask
    BY DEF Init
  <1>6. TypeOK
    BY <1>2, <1>4 DEF Init, TypeOK, IdleOperator, OperatorState
  <1>7. TasksHold
    BY <1>4, <1>5 DEF TasksHold
  <1>8. OneHolder /\ WireCommitted
    BY <1>5 DEF OneHolder, WireCommitted, Init, IdleTask
  <1> QED
    BY <1>3, <1>6, <1>7, <1>8 DEF IndInv

\* The reservation a task holds was committed for the task's own request.
LEMMA HeldReservation ==
    ASSUME IndInv, NEW t \in Task
    PROVE  /\ LedgerInv
           /\ lost \subseteq Reservation
           /\ tasks[t] \in TaskState
           /\ tasks[t].pc # "idle" => tasks[t].request \in Request
           /\ tasks[t].pc \notin {"idle", "reserving"} =>
                  /\ tasks[t].reservation \in Reservation
                  /\ tasks[t].reservation # NoReservation
                  /\ reservations[tasks[t].reservation] # NoRow
           /\ tasks[t].pc = "recording" => tasks[t].outcome \in {"succeeded", "failed_known"}
  <1>1. tasks[t] \in TaskState /\ Holds(tasks[t]) /\ LedgerInv /\ lost \subseteq Reservation
    BY DEF IndInv, TypeOK, TasksHold
  <1> QED
    BY <1>1 DEF TaskState, Holds

LEMMA PrepareKeeps ==
    ASSUME IndInv, NEW t \in Task, NEW q \in Request, Prepare(t, q)
    PROVE  IndInv'
  <1> DEFINE v == [IdleTask EXCEPT !.pc = "reserving", !.request = q]
  <1>1. /\ v \in TaskState /\ v.pc = "reserving" /\ v.request = q
        /\ v.reservation = NoReservation
    BY DEF IdleTask, TaskState, Pc
  <1>2. tasks' = [tasks EXCEPT ![t] = v]
        /\ UNCHANGED ledgerVars /\ UNCHANGED <<wire, lost, operators>>
    BY DEF Prepare
  <1> HIDE DEF v
  <1>3. LedgerInv' /\ RowsKept /\ lost' \subseteq Reservation
    BY <1>2, LedgerStutterKeeps, HeldReservation
  <1> QED
    BY <1>1, <1>2, <1>3, TaskAdvances

\* The reservation is fresh, so no other task holds it and nothing was sent.
LEMMA CheckAndReserveKeeps ==
    ASSUME IndInv, NEW t \in Task, CheckAndReserve(t)
    PROVE  IndInv'
  <1> DEFINE q == tasks[t].request
  <1>1. PICK e \in Epoch, r \in Reservation :
            /\ Reserve(q, PolicyOf[t], e, r)
            /\ tasks' = [tasks EXCEPT ![t].pc = "granted", ![t].reservation = r]
    BY DEF CheckAndReserve
  <1>2. tasks[t].pc = "reserving" /\ UNCHANGED <<wire, lost, operators>>
    BY DEF CheckAndReserve
  <1>3. q \in Request /\ LedgerInv /\ lost \subseteq Reservation /\ tasks[t] \in TaskState
    BY <1>2, HeldReservation
  <1>4. PolicyOf[t] \in Policy
    BY TransportAssumption
  <1>5. /\ LedgerInv'
        /\ reservations'[r] # NoRow
        /\ reservations'[r].request = q
        /\ \A s \in Reservation : s # r => reservations'[s] = reservations[s]
    BY <1>1, <1>3, <1>4, ReserveKeeps
  <1>6. reservations[r] = NoRow
    BY <1>1 DEF Reserve
  <1>7. RowsKept
    BY <1>5, <1>6 DEF RowsKept
  <1>8. PICK v \in TaskState : v = [tasks[t] EXCEPT !.pc = "granted", !.reservation = r]
    BY <1>3 DEF TaskState, Pc
  <1>9. /\ tasks' = [tasks EXCEPT ![t] = v]
        /\ v.pc = "granted" /\ v.request = q /\ v.reservation = r
    BY <1>1, <1>3, <1>8 DEF TaskState
  <1>10. \A u \in Task : tasks[u].reservation # r
    BY <1>6, TransportAssumption DEF IndInv, TasksHold, Holds
  <1>11. wire[r] = 0 /\ wire' = wire /\ wire \in [Reservation -> Nat]
    BY <1>2, <1>6 DEF IndInv, TypeOK, WireCommitted
  <1>12. Holds(v)'
    <2>1. r # NoReservation
      BY TransportAssumption
    <2> QED
      BY <1>3, <1>5, <1>9, <1>11, <2>1 DEF Holds, Granted
  <1>13. \A u \in Task : u # t /\ tasks[u].pc = "granted" =>
            wire'[tasks[u].reservation] = 0
    BY <1>11 DEF IndInv, TasksHold, Holds
  <1>14. WireCommitted'
    BY <1>7, <1>11 DEF IndInv, WireCommitted, RowsKept
  <1>15. /\ \A u \in Task : u # t /\ v.reservation # NoReservation =>
                tasks[u].reservation # v.reservation
         /\ wire' \in [Reservation -> Nat]
         /\ lost' \subseteq Reservation
         /\ operators' = operators
    BY <1>2, <1>3, <1>9, <1>10, <1>11
  <1>16. LedgerInv'
    BY <1>5
  <1> QED
    BY <1>7, <1>9, <1>12, <1>13, <1>14, <1>15, <1>16, TaskMoves

LEMMA ReserveAmbiguousKeeps ==
    ASSUME IndInv, NEW t \in Task, ReserveAmbiguous(t)
    PROVE  IndInv'
  <1>1. PICK e \in Epoch, r \in Reservation : Reserve(tasks[t].request, PolicyOf[t], e, r)
    BY DEF ReserveAmbiguous
  <1>2. tasks[t].pc = "reserving" /\ Finish(t) /\ UNCHANGED <<wire, lost, operators>>
    BY DEF ReserveAmbiguous
  <1>3. tasks[t].request \in Request /\ LedgerInv /\ lost \subseteq Reservation
    BY <1>2, HeldReservation
  <1>4. PolicyOf[t] \in Policy
    BY TransportAssumption
  <1>5. /\ LedgerInv'
        /\ \A s \in Reservation : s # r => reservations'[s] = reservations[s]
    BY <1>1, <1>3, <1>4, ReserveKeeps
  <1>6. reservations[r] = NoRow
    BY <1>1 DEF Reserve
  <1>7. RowsKept
    BY <1>5, <1>6 DEF RowsKept
  <1> QED
    BY <1>2, <1>3, <1>5, <1>7, TaskFinishes

\* The holder is alone and has not sent, so the count goes from zero to one.
LEMMA TransmitKeeps ==
    ASSUME IndInv, NEW t \in Task, Transmit(t)
    PROVE  IndInv'
  <1> DEFINE r == tasks[t].reservation
  <1>1. /\ tasks[t].pc = "granted"
        /\ wire' = [wire EXCEPT ![r] = wire[r] + 1]
        /\ tasks' = [tasks EXCEPT ![t] = [tasks[t] EXCEPT !.pc = "sent"]]
        /\ UNCHANGED ledgerVars /\ UNCHANGED <<lost, operators>>
    BY DEF Transmit, Suspend
  <1>2. /\ LedgerInv /\ lost \subseteq Reservation /\ tasks[t] \in TaskState
        /\ tasks[t].request \in Request
        /\ r \in Reservation /\ r # NoReservation /\ reservations[r] # NoRow
    BY <1>1, HeldReservation
  <1>3. LedgerInv' /\ RowsKept /\ reservations' = reservations
    BY <1>1, <1>2, LedgerStutterKeeps DEF ledgerVars
  <1>4. PICK v \in TaskState : v = [tasks[t] EXCEPT !.pc = "sent"]
    BY <1>2 DEF TaskState, Pc
  <1>4a. /\ v.pc = "sent" /\ v.request = tasks[t].request
         /\ v.reservation = r
    BY <1>2, <1>4 DEF TaskState
  <1>5. Holds(tasks[t])
    BY DEF IndInv, TasksHold
  <1>6. wire[r] = 0 /\ wire \in [Reservation -> Nat]
    BY <1>1, <1>5 DEF Holds, IndInv, TypeOK
  <1> HIDE DEF r
  <1>7. wire' \in [Reservation -> Nat] /\ wire'[r] = 1
        /\ \A s \in Reservation : s # r => wire'[s] = wire[s]
    BY <1>1, <1>2, <1>6
  <1>8. \A u \in Task : u # t => tasks[u].reservation # r
    BY <1>2 DEF IndInv, OneHolder, r
  <1>9. Holds(v)'
    BY <1>2, <1>3, <1>4a, <1>5 DEF Holds, Granted, r
  <1>10. \A u \in Task : u # t /\ tasks[u].pc = "granted" =>
            wire'[tasks[u].reservation] = 0
    BY <1>7, <1>8, HeldReservation DEF IndInv, TasksHold, Holds
  <1>11. WireCommitted'
    BY <1>2, <1>3, <1>7 DEF IndInv, WireCommitted
  <1>12. /\ \A u \in Task : u # t /\ v.reservation # NoReservation =>
                tasks[u].reservation # v.reservation
         /\ tasks' = [tasks EXCEPT ![t] = v]
         /\ lost' \subseteq Reservation
         /\ operators' = operators
    BY <1>1, <1>2, <1>4, <1>4a, <1>8
  <1> QED
    BY <1>3, <1>7, <1>9, <1>10, <1>11, <1>12, TaskMoves

\* Steps that end a send, after at most one write to the ledger.
LEMMA EndingStepsKeep ==
    ASSUME IndInv, NEW t \in Task,
           \/ RefuseReplay(t) \/ RefuseRequest(t) \/ ReserveUnavailable(t)
           \/ RecordAfterSend(t) \/ Seal(t) \/ SealFails(t) \/ ProcessDies(t)
    PROVE  IndInv'
  <1>1. LedgerInv /\ lost \subseteq Reservation /\ tasks[t] \in TaskState
    BY HeldReservation
  <1>2. CASE RefuseReplay(t) \/ RefuseRequest(t) \/ ReserveUnavailable(t)
    <2>1. UNCHANGED ledgerVars /\ Finish(t) /\ UNCHANGED <<wire, lost, operators>>
      BY <1>2 DEF RefuseReplay, Replay, RefuseRequest, Refuse, ReserveUnavailable
    <2>2. LedgerInv' /\ RowsKept
      BY <1>1, <2>1, LedgerStutterKeeps
    <2> QED
      BY <1>1, <2>1, <2>2, TaskFinishes
  <1>3. CASE RecordAfterSend(t)
    <2>1. /\ tasks[t].pc = "recording" /\ Finish(t) /\ UNCHANGED <<wire, lost, operators>>
          /\ RecordAttempt(tasks[t].reservation, tasks[t].outcome)
      BY <1>3 DEF RecordAfterSend
    <2>2. LedgerInv' /\ RowsKept
      BY <1>1, <2>1, HeldReservation, RecordAttemptKeeps
    <2> QED
      BY <1>1, <2>1, <2>2, TaskFinishes
  <1>4. CASE Seal(t)
    <2>1. /\ tasks[t].pc # "idle" /\ Finish(t) /\ UNCHANGED <<wire, lost, operators>>
          /\ SealRun(tasks[t].request)
      BY <1>4 DEF Seal
    <2>2. LedgerInv' /\ RowsKept
      BY <1>1, <2>1, HeldReservation, SealRunKeeps
    <2> QED
      BY <1>1, <2>1, <2>2, TaskFinishes
  <1>5. CASE SealFails(t) \/ ProcessDies(t)
    <2>1. /\ UNCHANGED ledgerVars /\ Finish(t) /\ UNCHANGED <<wire, operators>>
          /\ lost' \subseteq lost \cup ({tasks[t].reservation} \ {NoReservation})
      BY <1>5, HeldReservation DEF SealFails, ProcessDies
    <2>2. LedgerInv' /\ RowsKept
      BY <1>1, <2>1, LedgerStutterKeeps
    <2>3. lost' \subseteq Reservation
      BY <1>1, <2>1 DEF TaskState
    <2> QED
      BY <2>1, <2>2, <2>3, TaskFinishes
  <1> QED
    BY <1>2, <1>3, <1>4, <1>5

\* Steps that move a task that holds a reservation to its next await.
LEMMA SuspendingStepsKeep ==
    ASSUME IndInv, NEW t \in Task,
           \/ \E outcome \in {"succeeded", "failed_known"} : AdapterReturns(t, outcome)
           \/ RecordFails(t) \/ CancelSend(t) \/ CancelRecord(t)
    PROVE  IndInv'
  <1>1. LedgerInv /\ tasks[t] \in TaskState
    BY HeldReservation
  <1>2. tasks[t].pc \notin {"idle", "reserving"}
    BY DEF AdapterReturns, RecordFails, CancelSend, CancelRecord
  <1>3. tasks[t].reservation \in Reservation /\ tasks[t].reservation # NoReservation
        /\ reservations[tasks[t].reservation] # NoRow
    BY <1>2, HeldReservation
  <1>4. tasks[t].pc = "recording" => tasks[t].outcome \in {"succeeded", "failed_known"}
    BY HeldReservation
  <1>5. wire' = wire /\ lost' = lost /\ operators' = operators
    BY DEF AdapterReturns, RecordFails, CancelSend, CancelRecord
  <1>6. LedgerInv' /\ RowsKept
    <2>1. CASE UNCHANGED ledgerVars
      BY <1>1, <2>1, LedgerStutterKeeps
    <2>2. CASE \E outcome \in {"succeeded", "failed_known"} :
                  RecordAttempt(tasks[t].reservation, outcome)
      BY <1>1, <1>3, <2>2, RecordAttemptKeeps
    <2>3. \/ UNCHANGED ledgerVars
          \/ \E outcome \in {"succeeded", "failed_known"} :
                 RecordAttempt(tasks[t].reservation, outcome)
      BY <1>4 DEF AdapterReturns, RecordFails, CancelSend, CancelRecord
    <2> QED
      BY <2>1, <2>2, <2>3
  <1>7. CASE \E outcome \in {"succeeded", "failed_known"} : AdapterReturns(t, outcome)
    <2>1. PICK outcome \in {"succeeded", "failed_known"} : AdapterReturns(t, outcome)
      BY <1>7
    <2>2. tasks' = [tasks EXCEPT ![t] = [tasks[t] EXCEPT !.pc = "recording", !.outcome = outcome]]
      BY <2>1 DEF AdapterReturns
    <2>3. "recording" \in Pc
      BY DEF Pc
    <2> QED
      BY <1>3, <1>5, <1>6, <2>2, <2>3, TaskSuspends
  <1>8. CASE RecordFails(t) \/ CancelSend(t) \/ CancelRecord(t)
    <2>1. PICK pc \in {"sealing", "closing"} : tasks' = [tasks EXCEPT ![t].pc = pc]
      BY <1>8 DEF RecordFails, CancelSend, CancelRecord, Suspend
    <2> DEFINE o == tasks[t].outcome
    <2>2. o \in {"none", "succeeded", "failed_known"} /\ pc \in Pc
      BY <1>1 DEF TaskState, Pc
    <2>3. [tasks[t] EXCEPT !.pc = pc] = [tasks[t] EXCEPT !.pc = pc, !.outcome = o]
      BY <1>1 DEF TaskState
    <2>4. tasks' = [tasks EXCEPT ![t] = [tasks[t] EXCEPT !.pc = pc, !.outcome = o]]
      BY <2>1, <2>3
    <2> HIDE DEF o
    <2> QED
      BY <1>3, <1>5, <1>6, <2>2, <2>4, TaskSuspends
  <1> QED
    BY <1>7, <1>8

\* Operators: a rebind commits one successor, or nothing changes.
LEMMA OperatorStepKeeps ==
    ASSUME IndInv, NEW o \in Operator, OperatorStep(o)
    PROVE  IndInv'
  <1>1. LedgerInv /\ operators \in [Operator -> OperatorState] /\ LedgerTypeOK
    BY DEF IndInv, TypeOK
  <1>2. ASSUME NEW p \in Policy, InspectHead(o, p) PROVE IndInv'
    <2>1. head \in Epoch /\ epochs[head] \in EpochRow
      BY <1>1, <1>2 DEF InspectHead, LedgerInv, LedgerTypeOK, BoundToEpochs
    <2>2. epochs[head].usage.policy \in Policy
      BY <2>1 DEF EpochRow, CorpusUsage
    <2>3. operators' \in [Operator -> OperatorState]
      BY <1>1, <1>2, <2>1, <2>2 DEF InspectHead, OperatorState
    <2>4. UNCHANGED ledgerVars /\ UNCHANGED <<tasks, wire, lost>>
      BY <1>2 DEF InspectHead
    <2> QED
      BY <1>1, <2>3, <2>4, LedgerStutterKeeps, TasksStutter
  <1>3. IdleOperator \in OperatorState
    BY DEF IdleOperator, OperatorState
  <1>4. ASSUME NEW done \in BOOLEAN, Rebind(o, done) PROVE IndInv'
    <2> DEFINE x == operators[o].ledger
               y == operators[o].policy
               p == operators[o].new
    <2>1. PICK e \in Epoch : RebindPolicy(x, y, p, e)
      BY <1>4 DEF Rebind
    <2>2. p \in Policy
      BY <1>1, <1>4 DEF Rebind, OperatorState, IdleOperator
    <2>3. LedgerInv' /\ RowsKept
      BY <1>1, <2>1, <2>2, RebindPolicyKeeps
    <2>4. operators' \in [Operator -> OperatorState] /\ UNCHANGED <<tasks, wire, lost>>
      BY <1>1, <1>3, <1>4 DEF Rebind
    <2> QED
      BY <2>3, <2>4, TasksStutter
  <1>5. CASE RebindReturns(o)
    <2>1. operators' \in [Operator -> OperatorState]
      BY <1>1, <1>3, <1>5 DEF RebindReturns
    <2>2. UNCHANGED ledgerVars /\ UNCHANGED <<tasks, wire, lost>>
      BY <1>5 DEF RebindReturns
    <2> QED
      BY <1>1, <2>1, <2>2, LedgerStutterKeeps, TasksStutter
  <1> QED
    BY <1>2, <1>4, <1>5 DEF OperatorStep

LEMMA NextKeeps == IndInv /\ [Next]_vars => IndInv'
  <1> SUFFICES ASSUME IndInv, [Next]_vars PROVE IndInv'
    OBVIOUS
  <1>1. LedgerInv /\ operators \in [Operator -> OperatorState]
    BY DEF IndInv, TypeOK
  <1>2. ASSUME NEW t \in Task, TaskStep(t) PROVE IndInv'
    BY <1>2, PrepareKeeps, CheckAndReserveKeeps, ReserveAmbiguousKeeps, TransmitKeeps,
       EndingStepsKeep, SuspendingStepsKeep DEF TaskStep
  <1>3. CASE Lapse
    BY <1>1, <1>3, AuthorizationLapsesKeeps, TasksStutter DEF Lapse
  <1>4. CASE UNCHANGED vars
    BY <1>1, <1>4, LedgerStutterKeeps, TasksStutter DEF vars
  <1> QED
    BY <1>2, <1>3, <1>4, OperatorStepKeeps DEF Next

-----------------------------------------------------------------------------
(* The theorems *)

\* The invariant of the ledger and of the tasks holds in every reachable state.
THEOREM Invariance == Spec => []IndInv
  BY InitEstablishes, NextKeeps, PTL DEF Spec

\* Every row the transport and the ledger write has the type its readers
\* expect, for every set of tasks, requests, policies and caps.
THEOREM TypeCorrect == Spec => []TypeOK
  <1>1. IndInv => TypeOK
    BY DEF IndInv
  <1> QED
    BY <1>1, Invariance, PTL

\* A logical send (root, run, key) reaches the provider at most once: two
\* reservations of one root belong to one epoch, hence to one policy, and
\* under one policy the key is unique (send, _find_replay, _lock_root).
THEOREM SentAtMostOnce == Spec => []AtMostOneTransmission
  <1>1. ASSUME IndInv PROVE AtMostOneTransmission
    <2>1. \A r \in Reservation : wire[r] <= 1
      BY <1>1 DEF IndInv, WireCommitted
    <2>2. ASSUME NEW r \in Reservation, NEW s \in Reservation, wire[r] > 0, wire[s] > 0,
                 Granted(r).root = Granted(s).root,
                 Granted(r).run = Granted(s).run,
                 Granted(r).key = Granted(s).key
          PROVE  r = s
      <3>1. r \in Committed /\ s \in Committed
        BY <1>1, <2>2 DEF IndInv, WireCommitted, Committed
      <3>2. reservations[r].epoch = reservations[s].epoch
        BY <1>1, <2>2, <3>1 DEF IndInv, LedgerInv, BoundToEpochs, Granted
      <3>3. reservations[r].policy = reservations[s].policy
        BY <1>1, <3>1, <3>2 DEF IndInv, LedgerInv, BoundToEpochs
      <3> QED
        BY <1>1, <2>2, <3>1, <3>3 DEF IndInv, LedgerInv, KeysUnique, Granted
    <2> QED
      BY <2>1, <2>2 DEF AtMostOneTransmission
  <1> QED
    BY <1>1, Invariance, PTL

\* Nothing leaves the machine uncharged: every transmitted disclosure is in
\* its root's usage and in the usage of whichever epoch is active, through
\* any number of policy rebinds (_write_scopes, _rebind_policy).
THEOREM TransmittedIsCharged == Spec => []DisclosuresAccounted
  <1>1. ASSUME IndInv PROVE DisclosuresAccounted
    <2>1. \A r \in Reservation : wire[r] > 0 => r \in Committed /\ reservations[r] # NoRow
      BY <1>1 DEF IndInv, WireCommitted, Committed
    <2> QED
      BY <1>1, <2>1 DEF DisclosuresAccounted, IndInv, LedgerInv, Charged, Granted
  <1> QED
    BY <1>1, Invariance, PTL

-----------------------------------------------------------------------------
(* What each step does to the epochs and roots *)

LEMMA LedgerMoves ==
    ASSUME IndInv, [Next]_vars
    PROVE  \/ UNCHANGED <<head, epochs, roots>>
           \/ \E q \in Request, p \in Policy, e \in Epoch, r \in Reservation : Reserve(q, p, e, r)
           \/ \E x \in Epoch, y \in Policy, p \in Policy, e \in Epoch : RebindPolicy(x, y, p, e)
  <1>1. ASSUME NEW t \in Task, CheckAndReserve(t) \/ ReserveAmbiguous(t)
        PROVE  \E q \in Request, p \in Policy, e \in Epoch, r \in Reservation : Reserve(q, p, e, r)
    <2>1. tasks[t].request \in Request /\ PolicyOf[t] \in Policy
      BY <1>1, HeldReservation, TransportAssumption DEF CheckAndReserve, ReserveAmbiguous
    <2> QED
      BY <1>1, <2>1 DEF CheckAndReserve, ReserveAmbiguous
  <1>2. ASSUME NEW t \in Task, TaskStep(t), ~CheckAndReserve(t), ~ReserveAmbiguous(t)
        PROVE  UNCHANGED <<head, epochs, roots>>
    <2>1. ASSUME UNCHANGED ledgerVars PROVE UNCHANGED <<head, epochs, roots>>
      BY <2>1 DEF ledgerVars
    <2>2. ASSUME NEW r, NEW outcome, RecordAttempt(r, outcome) PROVE UNCHANGED <<head, epochs, roots>>
      BY <2>2 DEF RecordAttempt
    <2>3. ASSUME NEW q \in Request, Prepare(t, q) PROVE UNCHANGED <<head, epochs, roots>>
      BY <2>1, <2>3 DEF Prepare
    <2>4. CASE RefuseReplay(t) \/ RefuseRequest(t) \/ ReserveUnavailable(t)
      BY <2>1, <2>4 DEF RefuseReplay, Replay, RefuseRequest, Refuse, ReserveUnavailable
    <2>5. CASE Transmit(t) \/ \E outcome \in {"succeeded", "failed_known"} : AdapterReturns(t, outcome)
      BY <2>1, <2>5 DEF Transmit, AdapterReturns
    <2>6. CASE RecordAfterSend(t) \/ RecordFails(t) \/ CancelSend(t) \/ CancelRecord(t)
      BY <2>1, <2>2, <2>6 DEF RecordAfterSend, RecordFails, CancelSend, CancelRecord
    <2>7. CASE Seal(t) \/ SealFails(t) \/ ProcessDies(t)
      BY <2>1, <2>7 DEF Seal, SealRun, SealFails, ProcessDies
    <2> QED
      BY <1>2, <2>3, <2>4, <2>5, <2>6, <2>7 DEF TaskStep
  <1>3. ASSUME NEW o \in Operator, NEW done \in BOOLEAN, Rebind(o, done)
        PROVE  \E x \in Epoch, y \in Policy, p \in Policy, e \in Epoch : RebindPolicy(x, y, p, e)
    <2>1. operators[o] \in OperatorState /\ operators[o].pc = "rebinding"
      BY <1>3 DEF IndInv, TypeOK, Rebind
    <2>2. /\ operators[o].ledger \in Epoch /\ operators[o].policy \in Policy
          /\ operators[o].new \in Policy
      BY <2>1 DEF OperatorState, IdleOperator
    <2> QED
      BY <1>3, <2>2 DEF Rebind
  <1>4. ASSUME NEW o \in Operator, RebindReturns(o) \/ \E p \in Policy : InspectHead(o, p)
        PROVE  UNCHANGED <<head, epochs, roots>>
    BY <1>4 DEF RebindReturns, InspectHead, ledgerVars
  <1>5. CASE Lapse
    BY <1>5 DEF Lapse, AuthorizationLapses
  <1>6. CASE UNCHANGED vars
    BY <1>6 DEF vars, ledgerVars
  <1> QED
    BY <1>1, <1>2, <1>3, <1>4, <1>5, <1>6 DEF Next, OperatorStep

\* A reservation charges the active epoch, which is a first one if there was
\* none, and leaves the others alone.
LEMMA ReserveEpochs ==
    ASSUME LedgerInv, NEW q \in Request, NEW p \in Policy, NEW e \in Epoch,
           NEW r \in Reservation, Reserve(q, p, e, r)
    PROVE  /\ head' = e /\ epochs'[e] # NoRow
           /\ LockedCorpusUsage(e, p) \in CorpusUsage /\ LockedCorpusUsage(e, p).policy = p
           /\ epochs'[e].usage = ApplyCorpusUsage(LockedCorpusUsage(e, p), q)
           /\ head = NoEpoch => /\ \A f \in Epoch : epochs[f] = NoRow
                                /\ epochs'[e].predecessor = NoEpoch
                                /\ LockedCorpusUsage(e, p) = EmptyCorpusUsage(p)
           /\ head # NoEpoch => /\ head = e /\ epochs[e] # NoRow
                                /\ epochs'[e].predecessor = epochs[e].predecessor
                                /\ LockedCorpusUsage(e, p) = epochs[e].usage
           /\ \A f \in Epoch : f # e => epochs'[f] = epochs[f]
  <1> DEFINE row == LockedRow(e, p)
             corpus == ApplyCorpusUsage(LockedCorpusUsage(e, p), q)
             epoch == [row EXCEPT !.usage = corpus]
  <1>1. LockedEpoch(e) /\ RootInEpoch(q, e) /\ LockedCorpusUsage(e, p).policy = p
    BY DEF Reserve, ApplyReservation
  <1>2. /\ row \in EpochRow /\ LockedCorpusUsage(e, p) \in CorpusUsage
        /\ row.usage = LockedCorpusUsage(e, p)
        /\ head # NoEpoch => epochs[e] # NoRow /\ LockedCorpusUsage(e, p) = epochs[e].usage
    BY <1>1, LockedRows
  <1>3. corpus \in CorpusUsage
    BY <1>2, ApplyCorpusUsageType
  <1>4. head' = e /\ epochs' = [epochs EXCEPT ![e] = epoch]
    BY DEF Reserve
  <1>5. /\ head = NoEpoch => row.predecessor = NoEpoch /\ LockedCorpusUsage(e, p) = EmptyCorpusUsage(p)
        /\ head # NoEpoch => row = epochs[e] /\ head = e
    BY <1>1 DEF LockedRow, LockedCorpusUsage, LockedEpoch
  <1> HIDE DEF row, corpus
  <1>6. epoch \in EpochRow /\ epoch.usage = corpus /\ epoch.predecessor = row.predecessor
    BY <1>2, <1>3 DEF EpochRow
  <1> HIDE DEF epoch
  <1>7. epochs'[e] = epoch /\ \A f \in Epoch : f # e => epochs'[f] = epochs[f]
    BY <1>4 DEF LedgerInv, LedgerTypeOK
  <1>8. epoch # NoRow
    BY <1>6, LedgerAssumption
  <1>9. head = NoEpoch => \A f \in Epoch : epochs[f] = NoRow
    BY DEF LedgerInv, BoundToEpochs
  <1> QED
    BY <1>1, <1>2, <1>4, <1>5, <1>6, <1>7, <1>8, <1>9 DEF corpus

\* A rebind adds a successor of the active epoch, with its usage.
LEMMA RebindEpochs ==
    ASSUME LedgerInv, NEW x \in Epoch, NEW y \in Policy, NEW p \in Policy, NEW e \in Epoch,
           RebindPolicy(x, y, p, e)
    PROVE  /\ head = x /\ head' = e /\ epochs[x] # NoRow /\ epochs[e] = NoRow /\ e # x
           /\ epochs[x].usage \in CorpusUsage
           /\ epochs'[e] # NoRow /\ epochs'[e].predecessor = x
           /\ epochs'[e].usage.facts = epochs[x].usage.facts
           /\ epochs'[e].usage.tokens = epochs[x].usage.tokens
           /\ epochs'[e].usage.docs = epochs[x].usage.docs
           /\ \A f \in Epoch : f # e => epochs'[f] = epochs[f]
  <1> DEFINE usage == [epochs[x].usage EXCEPT !.policy = p]
             row == [usage |-> usage, predecessor |-> x]
  <1>1. /\ head = x /\ epochs[x] # NoRow /\ epochs[x] \in EpochRow /\ epochs[x].usage \in CorpusUsage
    BY DEF RebindPolicy, RebindMoves, LedgerInv, LedgerTypeOK, BoundToEpochs, EpochRow
  <1>2. /\ usage \in CorpusUsage /\ usage.facts = epochs[x].usage.facts
        /\ usage.tokens = epochs[x].usage.tokens /\ usage.docs = epochs[x].usage.docs
    BY <1>1 DEF CorpusUsage
  <1>3. epochs' = [epochs EXCEPT ![e] = row] /\ epochs[e] = NoRow /\ head' = e
    BY DEF RebindPolicy
  <1> HIDE DEF usage
  <1>4. row \in EpochRow /\ row # NoRow /\ row.usage = usage /\ row.predecessor = x
    BY <1>2, LedgerAssumption DEF EpochRow
  <1> HIDE DEF row
  <1>5. epochs'[e] = row /\ \A f \in Epoch : f # e => epochs'[f] = epochs[f]
    BY <1>3 DEF LedgerInv, LedgerTypeOK
  <1> QED
    BY <1>1, <1>2, <1>3, <1>4, <1>5

-----------------------------------------------------------------------------
(* One lineage of epochs *)

LEMMA LineageStep ==
    ASSUME IndInv, LinearLineage, [Next]_vars
    PROVE  LinearLineage'
  <1>1. LedgerInv /\ NoEpoch \notin Epoch
    BY LedgerAssumption DEF IndInv
  <1>2. CASE UNCHANGED <<head, epochs, roots>>
    BY <1>2 DEF LinearLineage
  <1>3. ASSUME NEW q \in Request, NEW p \in Policy, NEW e \in Epoch, NEW r \in Reservation,
               Reserve(q, p, e, r)
        PROVE  LinearLineage'
    <2>1. CASE head = NoEpoch
      <3>1. /\ head' = e /\ epochs'[e] # NoRow /\ epochs'[e].predecessor = NoEpoch
            /\ \A f \in Epoch : f # e => epochs'[f] = NoRow
        BY <1>1, <1>3, <2>1, ReserveEpochs
      <3> QED
        BY <1>1, <3>1 DEF LinearLineage
    <2>2. CASE head # NoEpoch
      <3>1. /\ head' = head
            /\ \A f \in Epoch : epochs'[f] # NoRow <=> epochs[f] # NoRow
            /\ \A f \in Epoch : epochs[f] # NoRow =>
                   epochs'[f].predecessor = epochs[f].predecessor
        BY <1>1, <1>3, <2>2, ReserveEpochs
      <3>2. \A f \in Epoch : epochs[f] # NoRow => epochs[f].predecessor \in Epoch \cup {NoEpoch}
        BY <1>1 DEF LedgerInv, LedgerTypeOK, EpochRow
      <3> QED
        BY <3>1, <3>2 DEF LinearLineage
    <2> QED
      BY <2>1, <2>2
  <1>4. ASSUME NEW x \in Epoch, NEW y \in Policy, NEW p \in Policy, NEW e \in Epoch,
               RebindPolicy(x, y, p, e)
        PROVE  LinearLineage'
    <2>1. /\ head = x /\ head' = e /\ epochs[x] # NoRow /\ epochs[e] = NoRow /\ e # x
          /\ epochs'[e] # NoRow /\ epochs'[e].predecessor = x
          /\ \A f \in Epoch : f # e => epochs'[f] = epochs[f]
      BY <1>1, <1>4, RebindEpochs
    <2>2. \A f \in Epoch : epochs[f] # NoRow => epochs[f].predecessor # e /\ epochs[f].predecessor # x
      BY <1>1, <2>1 DEF LinearLineage
    <2>3. \A f \in Epoch : epochs[f] # NoRow => epochs[f].predecessor \in Epoch \cup {NoEpoch}
      BY <1>1 DEF LedgerInv, LedgerTypeOK, EpochRow
    <2>4. ASSUME NEW f \in Epoch, epochs'[f] # NoRow
          PROVE  f # e <=> \E s \in Epoch : epochs'[s] # NoRow /\ epochs'[s].predecessor = f
      <3>1. CASE f = e
        BY <1>1, <2>1, <2>2, <3>1
      <3>2. CASE f = x
        BY <2>1, <3>2
      <3>3. CASE f # e /\ f # x
        <4>1. PICK s \in Epoch : epochs[s] # NoRow /\ epochs[s].predecessor = f
          BY <2>1, <2>4, <3>3 DEF LinearLineage
        <4> QED
          BY <2>1, <3>3, <4>1
      <3> QED
        BY <3>1, <3>2, <3>3
    <2>5. ASSUME NEW f \in Epoch, epochs'[f] # NoRow, NEW s \in Epoch, epochs'[s] # NoRow,
                 epochs'[s].predecessor = epochs'[f].predecessor
          PROVE  s = f
      BY <2>1, <2>2, <2>5 DEF LinearLineage
    <2>6. ASSUME NEW f \in Epoch, epochs'[f] # NoRow, epochs'[f].predecessor # NoEpoch
          PROVE  epochs'[epochs'[f].predecessor] # NoRow
      BY <2>1, <2>2, <2>3, <2>6 DEF LinearLineage
    <2> QED
      BY <2>1, <2>4, <2>5, <2>6 DEF LinearLineage
  <1> QED
    BY <1>2, <1>3, <1>4, LedgerMoves

\* The epochs of a corpus are one chain that ends in the head, for any number
\* of operators that rebind it at once or retry an ambiguous rebind
\* (rebind_policy compares the expected ledger with the locked head).
THEOREM EpochsNeverFork == Spec => []LinearLineage
  <1>1. Init => LinearLineage
    BY DEF Init, LedgerInit, LinearLineage
  <1>2. IndInv /\ LinearLineage /\ [Next]_vars => LinearLineage'
    BY LineageStep
  <1> QED
    BY <1>1, <1>2, Invariance, PTL DEF Spec

-----------------------------------------------------------------------------
(* The caps of evaluation roots *)

\* The usage of a root is within the caps of its policy.
RootFits(u) ==
    LET caps == Caps[u.policy]
    IN  /\ WithinUnique(u.facts, caps.root[u.level])
        /\ u.transmitted <= caps.rootTransmitted[u.level]
        /\ WithinUnique(u.judge, caps.judge)
        /\ u.judgeTransmitted <= caps.judgeTransmitted
        /\ \A r \in Run : RunWithinCaps(u.runs[r], u.level, caps)

\* A charge touches the claim it names and no other.
LEMMA ApplyToRunClaims ==
    ASSUME NEW u \in RunUsage, NEW q \in Request
    PROVE  LET v == ApplyToRun(u, q)
           IN  /\ q.claim = NoClaim => v.claims = u.claims /\ v.claimFacts = u.claimFacts
               /\ q.claim # NoClaim =>
                      \A c \in v.claims : c # q.claim =>
                          c \in u.claims /\ v.claimFacts[c] = u.claimFacts[c]
  <1> DEFINE F == u.facts \cup q.facts
             n == u.transmitted + Size[q.facts]
             m == u.toc + q.toc
             counted == [u EXCEPT !.facts = F, !.transmitted = n, !.toc = m]
             C == counted.claims \cup {q.claim}
             G == counted.claimFacts[q.claim] \cup q.facts
             v == [counted EXCEPT !.claims = C, !.claimFacts[q.claim] = G]
  <1>1. ApplyToRun(u, q) = IF q.claim = NoClaim THEN counted ELSE v
    BY DEF ApplyToRun, UpdatedClaims
  <1>2. F \in SUBSET Disclosure /\ n \in Nat /\ m \in Nat
    BY RequestFields DEF RunUsage
  <1> HIDE DEF F, n, m
  <1>3. counted \in RunUsage
    BY <1>2 DEF RunUsage
  <1>4. counted.claims = u.claims /\ counted.claimFacts = u.claimFacts
    BY DEF RunUsage
  <1> HIDE DEF counted
  <1>5. q.claim # NoClaim => C \in SUBSET Claim /\ G \in SUBSET Disclosure /\ q.claim \in Claim
    BY <1>3, RequestFields DEF RunUsage
  <1>6. \A c : c \in C /\ c # q.claim => c \in counted.claims
    OBVIOUS
  <1> HIDE DEF C, G
  <1>7. q.claim # NoClaim =>
           /\ v.claims = C
           /\ \A c \in Claim : c # q.claim => v.claimFacts[c] = counted.claimFacts[c]
    BY <1>3, <1>5 DEF RunUsage
  <1> HIDE DEF v
  <1>8. q.claim # NoClaim =>
           \A c \in v.claims : c # q.claim =>
               c \in u.claims /\ v.claimFacts[c] = u.claimFacts[c]
    BY <1>4, <1>5, <1>6, <1>7
  <1> QED
    BY <1>1, <1>4, <1>8

LEMMA RunStaysWithin ==
    ASSUME NEW u \in RunUsage, NEW q \in Request, NEW level \in Level, NEW caps,
           RunWithinCaps(u, level, caps), RunAdmits(ApplyToRun(u, q), q, level, caps)
    PROVE  RunWithinCaps(ApplyToRun(u, q), level, caps)
  <1> DEFINE v == ApplyToRun(u, q)
  <1>1. /\ q.claim = NoClaim => v.claims = u.claims /\ v.claimFacts = u.claimFacts
        /\ q.claim # NoClaim =>
               \A c \in v.claims : c # q.claim =>
                   c \in u.claims /\ v.claimFacts[c] = u.claimFacts[c]
    BY ApplyToRunClaims
  <1>2. RunAdmits(v, q, level, caps)
    OBVIOUS
  <1> HIDE DEF v
  <1>3. RunWithinCaps(v, level, caps)
    <2>1. Cardinality(v.claims) <= caps.maxClaims
      BY <1>1, <1>2 DEF RunWithinCaps, RunAdmits
    <2>2. ASSUME NEW c \in v.claims PROVE WithinUnique(v.claimFacts[c], caps.claim)
      BY <1>1, <1>2, <2>2 DEF RunWithinCaps, RunAdmits
    <2> QED
      BY <1>2, <2>1, <2>2 DEF RunWithinCaps, RunAdmits
  <1> QED
    BY <1>3 DEF v

\* The judge's usage and the runs after a charge.
LEMMA ApplyUsageScopes ==
    ASSUME NEW u \in UsageSnapshot, NEW q \in Request
    PROVE  LET v == ApplyUsage(u, q)
           IN  /\ q.stage = "judge" => v.runs = u.runs
               /\ q.stage # "judge" =>
                      /\ v.judge = u.judge /\ v.judgeTransmitted = u.judgeTransmitted
                      /\ v.runs[q.run] = ApplyToRun(u.runs[q.run], q)
                      /\ \A r \in Run : r # q.run => v.runs[r] = u.runs[r]
  <1> DEFINE F == u.facts \cup q.facts
             n == u.transmitted + Size[q.facts]
             shared == [u EXCEPT !.facts = F, !.transmitted = n]
  <1>1. F \in SUBSET Disclosure /\ n \in Nat
    BY RequestFields DEF UsageSnapshot
  <1>2. shared \in UsageSnapshot
    <2> HIDE DEF F, n
    <2> QED
      BY <1>1 DEF UsageSnapshot
  <1>3. /\ shared.runs = u.runs /\ shared.judge = u.judge
        /\ shared.judgeTransmitted = u.judgeTransmitted
    BY DEF UsageSnapshot
  <1>4. CASE q.stage = "judge"
    <2> DEFINE G == shared.judge \cup q.facts
               m == shared.judgeTransmitted + Size[q.facts]
               judged == [shared EXCEPT !.judge = G, !.judgeTransmitted = m]
    <2>1. ApplyUsage(u, q) = judged
      BY <1>4 DEF ApplyUsage
    <2> HIDE DEF shared, G, m
    <2>2. judged.runs = shared.runs
      BY <1>2 DEF UsageSnapshot
    <2> QED
      BY <1>3, <1>4, <2>1, <2>2
  <1>5. CASE q.stage # "judge"
    <2> DEFINE w == ApplyToRun(shared.runs[q.run], q)
               online == [shared EXCEPT !.runs[q.run] = w]
    <2>1. ApplyUsage(u, q) = online
      BY <1>5 DEF ApplyUsage
    <2>2. w = ApplyToRun(u.runs[q.run], q)
      BY <1>3
    <2>3. q.run \in Run
      BY RequestFields
    <2> HIDE DEF shared, w
    <2>4. /\ online.judge = shared.judge /\ online.judgeTransmitted = shared.judgeTransmitted
          /\ online.runs[q.run] = w
          /\ \A r \in Run : r # q.run => online.runs[r] = shared.runs[r]
      BY <1>2, <2>3 DEF UsageSnapshot
    <2> QED
      BY <1>3, <1>5, <2>1, <2>2, <2>4
  <1> QED
    BY <1>4, <1>5

\* An admitted charge keeps a root within its caps.
LEMMA ChargeFits ==
    ASSUME NEW u \in UsageSnapshot, NEW q \in Request, RootFits(u),
           UsageAdmits(ApplyUsage(u, q), q, Caps[u.policy])
    PROVE  RootFits(ApplyUsage(u, q))
  <1> DEFINE v == ApplyUsage(u, q)
             caps == Caps[u.policy]
  <1>1. v \in UsageSnapshot /\ v.policy = u.policy /\ v.level = u.level
    BY ApplyUsageType
  <1>2. /\ q.stage = "judge" => v.runs = u.runs
        /\ q.stage # "judge" =>
               /\ v.judge = u.judge /\ v.judgeTransmitted = u.judgeTransmitted
               /\ v.runs[q.run] = ApplyToRun(u.runs[q.run], q)
               /\ \A r \in Run : r # q.run => v.runs[r] = u.runs[r]
    BY ApplyUsageScopes
  <1>3. UsageAdmits(v, q, caps) /\ q.run \in Run
    BY RequestFields
  <1> HIDE DEF v, caps
  <1>4. /\ WithinUnique(u.judge, caps.judge) /\ u.judgeTransmitted <= caps.judgeTransmitted
        /\ \A r \in Run : RunWithinCaps(u.runs[r], u.level, caps)
    BY DEF RootFits, caps
  <1>5. /\ WithinUnique(v.facts, caps.root[v.level])
        /\ v.transmitted <= caps.rootTransmitted[v.level]
        /\ WithinUnique(v.judge, caps.judge) /\ v.judgeTransmitted <= caps.judgeTransmitted
    BY <1>2, <1>3, <1>4 DEF UsageAdmits
  <1>6. ASSUME NEW r \in Run PROVE RunWithinCaps(v.runs[r], v.level, caps)
    <2>1. CASE q.stage = "judge" \/ r # q.run
      BY <1>1, <1>2, <1>4, <2>1
    <2>2. CASE q.stage # "judge" /\ r = q.run
      <3> DEFINE w == u.runs[r]
      <3>1. w \in RunUsage /\ u.level \in Level
        BY DEF UsageSnapshot
      <3>2. v.runs[r] = ApplyToRun(w, q)
        BY <1>2, <2>2
      <3>3. RunAdmits(ApplyToRun(w, q), q, u.level, caps) /\ RunWithinCaps(w, u.level, caps)
        BY <1>1, <1>3, <1>4, <2>2, <3>2 DEF UsageAdmits
      <3> HIDE DEF w
      <3>4. RunWithinCaps(ApplyToRun(w, q), u.level, caps)
        BY <3>1, <3>3, RunStaysWithin
      <3> QED
        BY <1>1, <3>2, <3>4
    <2> QED
      BY <2>1, <2>2
  <1>7. RootFits(v)
    BY <1>1, <1>5, <1>6 DEF RootFits, caps
  <1> QED
    BY <1>7 DEF v

LEMMA EmptyFits ==
    ASSUME NEW q \in Request, NEW p \in Policy
    PROVE  RootFits(EmptyUsage(q, p))
  <1> DEFINE caps == Caps[p]
             u == EmptyUsage(q, p)
  <1>1. caps \in CapVectors /\ q.level \in Level
    BY EnforcerAssumption, RequestFields
  <1>2. Cardinality({}) = 0 /\ Size[{}] = 0
    BY FS_EmptySet, SizeAssumption
  <1>3. \A cap \in UniqueCap : WithinUnique({}, cap)
    BY <1>2 DEF WithinUnique, UniqueCap
  <1>4. /\ u.policy = p /\ u.level = q.level /\ u.facts = {} /\ u.transmitted = 0 /\ u.judge = {}
        /\ u.judgeTransmitted = 0 /\ \A r \in Run : u.runs[r] = EmptyRunUsage
    BY DEF EmptyUsage
  <1> HIDE DEF u
  <1>5. /\ caps.root[q.level] \in UniqueCap /\ caps.rootTransmitted[q.level] \in Nat
        /\ caps.judge \in UniqueCap /\ caps.judgeTransmitted \in Nat
        /\ caps.online[q.level] \in UniqueCap /\ caps.onlineTransmitted[q.level] \in Nat
        /\ caps.tocPerRun \in Nat /\ caps.maxClaims \in Nat
    BY <1>1 DEF CapVectors
  <1> HIDE DEF caps
  <1>6. RunWithinCaps(EmptyRunUsage, q.level, caps)
    BY <1>2, <1>3, <1>5 DEF RunWithinCaps, EmptyRunUsage
  <1>7. /\ WithinUnique(u.facts, caps.root[u.level]) /\ u.transmitted <= caps.rootTransmitted[u.level]
        /\ WithinUnique(u.judge, caps.judge) /\ u.judgeTransmitted <= caps.judgeTransmitted
    BY <1>3, <1>4, <1>5
  <1>8. RootFits(u)
    BY <1>4, <1>6, <1>7 DEF RootFits, caps
  <1> QED
    BY <1>8 DEF u

LEMMA RootsStep ==
    ASSUME IndInv, RootsWithinCaps, [Next]_vars
    PROVE  RootsWithinCaps'
  <1>1. LedgerInv /\ roots \in [Root -> RootRow \cup {NoRow}]
    BY DEF IndInv, LedgerInv, LedgerTypeOK
  <1>2. \A k \in Root : roots[k] # NoRow => RootFits(roots[k].usage)
    BY DEF RootsWithinCaps, RootFits
  <1>3. CASE roots' = roots
    BY <1>3 DEF RootsWithinCaps, RunWithinCaps
  <1>4. ASSUME NEW q \in Request, NEW p \in Policy, NEW e \in Epoch, NEW r \in Reservation,
               Reserve(q, p, e, r)
        PROVE  RootsWithinCaps'
    <2> DEFINE u == LockedUsage(q, p)
               v == ApplyUsage(u, q)
               root == [epoch |-> e, usage |-> v]
    <2>1. LockedEpoch(e) /\ RootInEpoch(q, e) /\ u.policy = p /\ UsageAdmits(v, q, Caps[p])
      BY <1>4 DEF Reserve, ApplyReservation
    <2>2. u \in UsageSnapshot /\ q.root \in Root
      BY <1>1, <2>1, LockedRows, RequestFields
    <2>3. RootFits(u)
      BY <1>2, <2>2, EmptyFits DEF LockedUsage
    <2>4. roots' = [roots EXCEPT ![q.root] = root]
      BY <1>4 DEF Reserve
    <2> HIDE DEF u
    <2>5. RootFits(v)
      BY <2>1, <2>2, <2>3, ChargeFits
    <2> HIDE DEF v
    <2>6. root.usage = v
      OBVIOUS
    <2> HIDE DEF root
    <2>7. \A k \in Root : roots'[k] # NoRow => RootFits(roots'[k].usage)
      BY <1>1, <1>2, <2>2, <2>4, <2>5, <2>6
    <2> QED
      BY <2>7 DEF RootsWithinCaps, RootFits, RunWithinCaps
  <1>5. ASSUME NEW x \in Epoch, NEW y \in Policy, NEW p \in Policy, NEW e \in Epoch,
               RebindPolicy(x, y, p, e)
        PROVE  roots' = roots
    BY <1>5 DEF RebindPolicy
  <1> QED
    BY <1>3, <1>4, <1>5, LedgerMoves

\* No evaluation root, run, claim or judge spends more than the caps of its
\* policy, for every policy and any number of concurrent tasks: _apply_usage
\* checks every scope it moves, and leaves the others as they were.
THEOREM RootsStayWithinCaps == Spec => []RootsWithinCaps
  <1>1. Init => RootsWithinCaps
    BY DEF Init, LedgerInit, RootsWithinCaps
  <1>2. IndInv /\ RootsWithinCaps /\ [Next]_vars => RootsWithinCaps'
    BY RootsStep
  <1> QED
    BY <1>1, <1>2, Invariance, PTL DEF Spec

-----------------------------------------------------------------------------
(* The caps and the totals of the corpus *)

\* A corpus, and each of its documents, is within its caps or inherited.
CorpusFits(c, before, inherited) ==
    LET caps == Caps[c.policy]
    IN  /\ \/ WithinAccount(c, caps.corpus)
           \/ inherited /\ c.facts = before.facts /\ c.tokens = before.tokens
        /\ \A d \in Document :
               \/ WithinAccount(c.docs[d], caps.document[d])
               \/ inherited /\ c.docs[d] = before.docs[d]

\* The documents after a charge, and the totals.
LEMMA ApplyCorpusAccounts ==
    ASSUME NEW c \in CorpusUsage, NEW q \in Request
    PROVE  LET v == ApplyCorpusUsage(c, q)
           IN  /\ v.tokens = c.tokens + Size[q.facts \ c.facts]
               /\ v.docs[q.doc] = AppliedDocument(c.docs[q.doc], q)
               /\ \A d \in Document : d # q.doc => v.docs[d] = c.docs[d]
  <1> DEFINE F == c.facts \cup q.facts
             n == c.tokens + Size[q.facts \ c.facts]
             a == AppliedDocument(c.docs[q.doc], q)
             v == [c EXCEPT !.facts = F, !.tokens = n, !.docs[q.doc] = a]
  <1>1. ApplyCorpusUsage(c, q) = v
    BY DEF ApplyCorpusUsage
  <1>2. q.doc \in Document
    BY RequestFields
  <1> HIDE DEF F, n, a
  <1>3. v.tokens = n /\ v.docs[q.doc] = a /\ \A d \in Document : d # q.doc => v.docs[d] = c.docs[d]
    BY <1>2 DEF CorpusUsage
  <1> QED
    BY <1>1, <1>3 DEF n, a

LEMMA EmptyCorpusFits ==
    ASSUME NEW p \in Policy, NEW before, NEW inherited
    PROVE  CorpusFits(EmptyCorpusUsage(p), before, inherited)
  <1> DEFINE caps == Caps[p]
             c == EmptyCorpusUsage(p)
  <1>1. caps \in CapVectors
    BY EnforcerAssumption
  <1>2. Cardinality({}) = 0
    BY FS_EmptySet
  <1>3. /\ c.policy = p /\ c.facts = {} /\ c.tokens = 0
        /\ \A d \in Document : c.docs[d].facts = {} /\ c.docs[d].tokens = 0
    BY DEF EmptyCorpusUsage
  <1> HIDE DEF c
  <1>4. caps.corpus \in UniqueCap /\ \A d \in Document : caps.document[d] \in UniqueCap
    BY <1>1 DEF CapVectors
  <1>5. \A cap \in UniqueCap : cap.excerpts \in Nat /\ cap.tokens \in Nat
    BY DEF UniqueCap
  <1> HIDE DEF caps
  <1>6. WithinAccount(c, caps.corpus) /\ \A d \in Document : WithinAccount(c.docs[d], caps.document[d])
    <2>1. ASSUME NEW a, a.facts = {}, a.tokens = 0, NEW cap \in UniqueCap
          PROVE  WithinAccount(a, cap)
      <3>1. Cardinality(a.facts) = 0 /\ a.tokens = 0 /\ cap.excerpts \in Nat /\ cap.tokens \in Nat
        BY <1>2, <1>5, <2>1
      <3> QED
        BY <3>1 DEF WithinAccount
    <2> QED
      BY <1>3, <1>4, <2>1
  <1>7. CorpusFits(c, before, inherited)
    BY <1>3, <1>6 DEF CorpusFits, caps
  <1> QED
    BY <1>7 DEF c

\* An admitted charge brings the corpus and the document it names within their
\* caps, and leaves the other documents as they were.
LEMMA CorpusChargeFits ==
    ASSUME NEW c \in CorpusUsage, NEW q \in Request, NEW before, NEW inherited,
           CorpusFits(c, before, inherited),
           CorpusAdmits(ApplyCorpusUsage(c, q), q, Caps[c.policy])
    PROVE  CorpusFits(ApplyCorpusUsage(c, q), before, inherited)
  <1> DEFINE v == ApplyCorpusUsage(c, q)
             caps == Caps[c.policy]
  <1>1. v.policy = c.policy /\ \A d \in Document : d # q.doc => v.docs[d] = c.docs[d]
    BY ApplyCorpusUsageType, ApplyCorpusAccounts
  <1>2. CorpusAdmits(v, q, caps)
    OBVIOUS
  <1> HIDE DEF v, caps
  <1>3. \A d \in Document : \/ WithinAccount(c.docs[d], caps.document[d])
                            \/ inherited /\ c.docs[d] = before.docs[d]
    BY DEF CorpusFits, caps
  <1>4. ASSUME NEW d \in Document
        PROVE  \/ WithinAccount(v.docs[d], caps.document[d])
               \/ inherited /\ v.docs[d] = before.docs[d]
    BY <1>1, <1>2, <1>3 DEF CorpusAdmits
  <1>5. CorpusFits(v, before, inherited)
    BY <1>1, <1>2, <1>4 DEF CorpusFits, CorpusAdmits, caps
  <1> QED
    BY <1>5 DEF v

LEMMA CorpusStep ==
    ASSUME IndInv, LinearLineage, CorpusWithinCaps, [Next]_vars
    PROVE  CorpusWithinCaps'
  <1> DEFINE Fits(e) == CorpusFits(epochs[e].usage, epochs[epochs[e].predecessor].usage,
                                   epochs[e].predecessor # NoEpoch)
             FitsNext(e) == CorpusFits(epochs'[e].usage, epochs'[epochs'[e].predecessor].usage,
                                       epochs'[e].predecessor # NoEpoch)
  <1>1. LedgerInv
    BY DEF IndInv
  <1>2. \A e \in Epoch : epochs[e] # NoRow => Fits(e)
    BY DEF CorpusWithinCaps, CorpusFits
  <1>3. \A e \in Epoch : epochs[e] # NoRow =>
            /\ epochs[e].predecessor \in Epoch \cup {NoEpoch}
            /\ epochs[e].predecessor # NoEpoch =>
                   epochs[epochs[e].predecessor] # NoRow /\ epochs[e].predecessor # head
    BY <1>1 DEF LedgerInv, LedgerTypeOK, EpochRow, LinearLineage
  <1>4. ASSUME \A e \in Epoch : epochs'[e] # NoRow => FitsNext(e) PROVE CorpusWithinCaps'
    BY <1>4 DEF CorpusWithinCaps, CorpusFits
  <1>5. CASE UNCHANGED <<head, epochs, roots>>
    BY <1>5 DEF CorpusWithinCaps
  <1>6. ASSUME NEW q \in Request, NEW p \in Policy, NEW e \in Epoch, NEW r \in Reservation,
               Reserve(q, p, e, r)
        PROVE  CorpusWithinCaps'
    <2> DEFINE c == LockedCorpusUsage(e, p)
               v == ApplyCorpusUsage(c, q)
    <2>1. /\ c \in CorpusUsage /\ c.policy = p /\ epochs'[e].usage = v
          /\ head = NoEpoch => /\ \A f \in Epoch : epochs[f] = NoRow
                               /\ epochs'[e].predecessor = NoEpoch /\ c = EmptyCorpusUsage(p)
          /\ head # NoEpoch => /\ head = e /\ epochs[e] # NoRow
                               /\ epochs'[e].predecessor = epochs[e].predecessor
                               /\ c = epochs[e].usage
          /\ \A f \in Epoch : f # e => epochs'[f] = epochs[f]
      BY <1>1, <1>6, ReserveEpochs
    <2>2. CorpusAdmits(v, q, Caps[p])
      BY <1>6 DEF Reserve, ApplyReservation
    <2> HIDE DEF c
    <2>3. FitsNext(e)
      <3>1. CASE head = NoEpoch
        <4> DEFINE before == epochs'[epochs'[e].predecessor].usage
                   inherited == epochs'[e].predecessor # NoEpoch
        <4> HIDE DEF before, inherited
        <4>1. CorpusFits(c, before, inherited)
          BY <2>1, <3>1, EmptyCorpusFits
        <4>2. CorpusFits(v, before, inherited)
          BY <2>1, <2>2, <4>1, CorpusChargeFits
        <4> QED
          BY <2>1, <4>2 DEF before, inherited
      <3>2. CASE head # NoEpoch
        <4> DEFINE before == epochs[epochs[e].predecessor].usage
                   inherited == epochs[e].predecessor # NoEpoch
        <4>1. CorpusFits(c, before, inherited)
          BY <1>2, <2>1, <3>2
        <4>2. epochs[e].predecessor # NoEpoch =>
                 epochs'[epochs'[e].predecessor] = epochs[epochs[e].predecessor]
          BY <1>3, <2>1, <3>2
        <4>3. inherited <=> epochs'[e].predecessor # NoEpoch
          BY <2>1, <3>2
        <4> HIDE DEF before, inherited, v
        <4>4. CorpusFits(v, before, inherited)
          BY <2>1, <2>2, <4>1, CorpusChargeFits DEF v
        <4> QED
          BY <2>1, <4>2, <4>3, <4>4 DEF CorpusFits, before, inherited
      <3> QED
        BY <3>1, <3>2
    <2>4. ASSUME NEW f \in Epoch, epochs'[f] # NoRow PROVE FitsNext(f)
      <3>1. CASE f = e
        BY <2>3, <3>1
      <3>2. CASE f # e
        <4>1. epochs'[f] = epochs[f] /\ epochs[f] # NoRow /\ head # NoEpoch
          BY <2>1, <2>4, <3>2
        <4>2. epochs[f].predecessor # NoEpoch =>
                 epochs'[epochs[f].predecessor] = epochs[epochs[f].predecessor]
          BY <1>3, <2>1, <4>1
        <4>3. Fits(f)
          BY <1>2, <4>1
        <4> QED
          BY <4>1, <4>2, <4>3 DEF CorpusFits
      <3> QED
        BY <3>1, <3>2
    <2> QED
      BY <1>4, <2>4
  <1>7. ASSUME NEW x \in Epoch, NEW y \in Policy, NEW p \in Policy, NEW e \in Epoch,
               RebindPolicy(x, y, p, e)
        PROVE  CorpusWithinCaps'
    <2>1. /\ epochs[e] = NoRow /\ e # x /\ epochs'[e].predecessor = x
          /\ epochs'[e].usage.facts = epochs[x].usage.facts
          /\ epochs'[e].usage.tokens = epochs[x].usage.tokens
          /\ epochs'[e].usage.docs = epochs[x].usage.docs
          /\ \A f \in Epoch : f # e => epochs'[f] = epochs[f]
      BY <1>1, <1>7, RebindEpochs
    <2>2. FitsNext(e)
      <3>1. x # NoEpoch /\ epochs'[x] = epochs[x]
        BY <2>1, LedgerAssumption
      <3> QED
        BY <2>1, <3>1 DEF CorpusFits
    <2>3. ASSUME NEW f \in Epoch, epochs'[f] # NoRow, f # e PROVE FitsNext(f)
      <3>1. epochs'[f] = epochs[f] /\ epochs[f] # NoRow
        BY <2>1, <2>3
      <3>2. epochs[f].predecessor # NoEpoch =>
               epochs'[epochs[f].predecessor] = epochs[epochs[f].predecessor]
        BY <1>3, <2>1, <3>1
      <3>3. Fits(f)
        BY <1>2, <3>1
      <3> QED
        BY <3>1, <3>2, <3>3 DEF CorpusFits
    <2> QED
      BY <1>4, <2>2, <2>3
  <1> QED
    BY <1>5, <1>6, <1>7, LedgerMoves

\* The corpus and each of its documents stay inside the active policy's caps,
\* for every policy and sequence of rebinds; what a rebind inherits beyond
\* them no longer grows (_apply_corpus_usage, _rebind_policy).
THEOREM CorpusStaysWithinCaps == Spec => []CorpusWithinCaps
  <1>1. Init => CorpusWithinCaps
    BY DEF Init, LedgerInit, CorpusWithinCaps
  <1>2. IndInv /\ LinearLineage /\ CorpusWithinCaps /\ [Next]_vars => CorpusWithinCaps'
    BY CorpusStep
  <1> QED
    BY <1>1, <1>2, Invariance, EpochsNeverFork, PTL DEF Spec

\* The totals of each epoch are the sizes of what it lists, and the corpus
\* lists what its documents list.
CorpusTotals ==
    \A e \in Epoch : epochs[e] # NoRow =>
        LET c == epochs[e].usage
        IN  /\ c.tokens = Size[c.facts]
            /\ c.facts = UNION {c.docs[d].facts : d \in Document}
            /\ \A d \in Document : c.docs[d].tokens = Size[c.docs[d].facts]

Exact(c) ==
    /\ c.tokens = Size[c.facts]
    /\ \A x : x \in c.facts <=> \E d \in Document : x \in c.docs[d].facts
    /\ \A d \in Document : c.docs[d].tokens = Size[c.docs[d].facts]

\* Only what was not listed yet adds to a total.
LEMMA SizeOfUnion ==
    ASSUME NEW S \in SUBSET Disclosure, NEW T \in SUBSET Disclosure
    PROVE  Size[S \cup T] = Size[S] + Size[T \ S]
  <1> DEFINE U == T \ S
  <1>1. U \in SUBSET Disclosure /\ S \cap U = {} /\ S \cup U = S \cup T
    OBVIOUS
  <1> HIDE DEF U
  <1>2. Size[S \cup U] = Size[S] + Size[U]
    BY <1>1, SizeAssumption
  <1> QED
    BY <1>1, <1>2 DEF U

LEMMA ChargeIsExact ==
    ASSUME NEW c \in CorpusUsage, NEW q \in Request, Exact(c)
    PROVE  Exact(ApplyCorpusUsage(c, q))
  <1> DEFINE v == ApplyCorpusUsage(c, q)
             a == AppliedDocument(c.docs[q.doc], q)
             b == c.docs[q.doc]
  <1>1. /\ v.facts = c.facts \cup q.facts /\ v.tokens = c.tokens + Size[q.facts \ c.facts]
        /\ v.docs[q.doc] = a /\ \A d \in Document : d # q.doc => v.docs[d] = c.docs[d]
    BY ApplyCorpusUsageType, ApplyCorpusAccounts
  <1>2. /\ q.doc \in Document /\ q.facts \in SUBSET Disclosure /\ c.facts \in SUBSET Disclosure
        /\ b.facts \in SUBSET Disclosure
    BY RequestFields DEF CorpusUsage, Account
  <1>3. a.facts = b.facts \cup q.facts /\ a.tokens = b.tokens + Size[q.facts \ b.facts]
    BY DEF AppliedDocument
  <1>4. c.tokens = Size[c.facts] /\ b.tokens = Size[b.facts]
    BY <1>2 DEF Exact
  <1> HIDE DEF v, a
  <1>5. v.tokens = Size[v.facts]
    BY <1>1, <1>2, <1>4, SizeOfUnion
  <1>6. a.tokens = Size[a.facts]
    BY <1>2, <1>3, <1>4, SizeOfUnion
  <1>7. \A d \in Document : v.docs[d].tokens = Size[v.docs[d].facts]
    BY <1>1, <1>6 DEF Exact
  <1>8. \A d \in Document : v.docs[d].facts = IF d = q.doc THEN c.docs[d].facts \cup q.facts
                                              ELSE c.docs[d].facts
    BY <1>1, <1>3
  <1>9. \A x : x \in v.facts <=> \E d \in Document : x \in v.docs[d].facts
    BY <1>1, <1>2, <1>8 DEF Exact
  <1>10. Exact(v)
    BY <1>5, <1>7, <1>9 DEF Exact
  <1> QED
    BY <1>10 DEF v

LEMMA EmptyIsExact ==
    ASSUME NEW p \in Policy
    PROVE  Exact(EmptyCorpusUsage(p))
  <1> DEFINE c == EmptyCorpusUsage(p)
  <1>1. /\ c.facts = {} /\ c.tokens = 0
        /\ \A d \in Document : c.docs[d].facts = {} /\ c.docs[d].tokens = 0
    BY DEF EmptyCorpusUsage
  <1> HIDE DEF c
  <1>2. Exact(c)
    BY <1>1, SizeAssumption DEF Exact
  <1> QED
    BY <1>2 DEF c

LEMMA TotalsStep ==
    ASSUME IndInv, CorpusTotals, [Next]_vars
    PROVE  CorpusTotals'
  <1>1. LedgerInv
    BY DEF IndInv
  <1>2. \A e \in Epoch : epochs[e] # NoRow => Exact(epochs[e].usage)
    <2>1. ASSUME NEW e \in Epoch, epochs[e] # NoRow PROVE Exact(epochs[e].usage)
      <3> DEFINE c == epochs[e].usage
      <3>1. /\ c.tokens = Size[c.facts] /\ c.facts = UNION {c.docs[d].facts : d \in Document}
            /\ \A d \in Document : c.docs[d].tokens = Size[c.docs[d].facts]
        BY <2>1 DEF CorpusTotals
      <3> HIDE DEF c
      <3>2. Exact(c)
        BY <3>1 DEF Exact
      <3> QED
        BY <3>2 DEF c
    <2> QED
      BY <2>1
  <1>3. ASSUME \A e \in Epoch : epochs'[e] # NoRow => Exact(epochs'[e].usage) PROVE CorpusTotals'
    <2>1. ASSUME NEW c, Exact(c) PROVE c.facts = UNION {c.docs[d].facts : d \in Document}
      BY <2>1 DEF Exact
    <2> QED
      BY <1>3, <2>1 DEF CorpusTotals, Exact
  <1>4. CASE UNCHANGED <<head, epochs, roots>>
    BY <1>4 DEF CorpusTotals
  <1>5. ASSUME NEW q \in Request, NEW p \in Policy, NEW e \in Epoch, NEW r \in Reservation,
               Reserve(q, p, e, r)
        PROVE  CorpusTotals'
    <2> DEFINE c == LockedCorpusUsage(e, p)
    <2>1. /\ c \in CorpusUsage /\ epochs'[e].usage = ApplyCorpusUsage(c, q)
          /\ head = NoEpoch => c = EmptyCorpusUsage(p)
          /\ head # NoEpoch => epochs[e] # NoRow /\ c = epochs[e].usage
          /\ \A f \in Epoch : f # e => epochs'[f] = epochs[f]
      BY <1>1, <1>5, ReserveEpochs
    <2> HIDE DEF c
    <2>2. Exact(c)
      BY <1>2, <2>1, EmptyIsExact
    <2>3. Exact(epochs'[e].usage)
      BY <2>1, <2>2, ChargeIsExact
    <2> QED
      BY <1>2, <1>3, <2>1, <2>3
  <1>6. ASSUME NEW x \in Epoch, NEW y \in Policy, NEW p \in Policy, NEW e \in Epoch,
               RebindPolicy(x, y, p, e)
        PROVE  CorpusTotals'
    <2>1. /\ epochs[x] # NoRow
          /\ epochs'[e].usage.facts = epochs[x].usage.facts
          /\ epochs'[e].usage.tokens = epochs[x].usage.tokens
          /\ epochs'[e].usage.docs = epochs[x].usage.docs
          /\ \A f \in Epoch : f # e => epochs'[f] = epochs[f]
      BY <1>1, <1>6, RebindEpochs
    <2>2. Exact(epochs[x].usage)
      BY <1>2, <2>1
    <2>3. Exact(epochs'[e].usage)
      BY <2>1, <2>2 DEF Exact
    <2> QED
      BY <1>2, <1>3, <2>1, <2>3
  <1> QED
    BY <1>4, <1>5, <1>6, LedgerMoves

\* The running totals of a corpus and of its documents never drift from the
\* disclosures they list, although each charge only adds the size of what is
\* new (_apply_corpus_usage), and the corpus lists what its documents list.
THEOREM CorpusTotalsAreExact == Spec => []CorpusTotals
  <1>1. Init => CorpusTotals
    BY DEF Init, LedgerInit, CorpusTotals
  <1>2. IndInv /\ CorpusTotals /\ [Next]_vars => CorpusTotals'
    BY TotalsStep
  <1> QED
    BY <1>1, <1>2, Invariance, PTL DEF Spec

-----------------------------------------------------------------------------
(* Sends without a record *)

\* The send of r is under way, its run is closed, or nobody could close it.
Answered(r) ==
    \/ \E t \in Task : tasks[t].reservation = r
    \/ <<Granted(r).root, Granted(r).run>> \in seals
    \/ r \in lost

\* No committed reservation goes back to reserved.
NoneReopened ==
    \A s \in Reservation :
        /\ reservations[s] # NoRow /\ reservations'[s] # NoRow
        /\ reservations'[s].state = "reserved"
        => reservations[s].state = "reserved"

\* A step by which task t leaves send answers for the reservation it held.
LEMMA LeavesAnswered ==
    ASSUME IndInv, UnrecordedIsSealed, NEW t \in Task, Finish(t), RowsKept, wire' = wire,
           seals \subseteq seals', lost \subseteq lost',
           NoneReopened,
           LET r == tasks[t].reservation
           IN  r # NoReservation =>
                   \/ reservations'[r].state # "reserved"
                   \/ <<Granted(r).root, Granted(r).run>> \in seals'
                   \/ r \in lost'
    PROVE  UnrecordedIsSealed'
  <1>1. ASSUME NEW r \in Reservation, wire'[r] > 0, reservations'[r].state = "reserved"
        PROVE  \/ \E u \in Task : tasks'[u].reservation = r
               \/ <<reservations'[r].request.root, reservations'[r].request.run>> \in seals'
               \/ r \in lost'
    <2>1. reservations[r] # NoRow
      BY <1>1 DEF IndInv, WireCommitted
    <2>2. /\ reservations'[r] # NoRow /\ reservations'[r].request = reservations[r].request
          /\ reservations[r].state = "reserved"
      BY <1>1, <2>1 DEF RowsKept, NoneReopened
    <2>3. Answered(r)
      BY <1>1, <2>2 DEF UnrecordedIsSealed, Answered
    <2>4. \A u \in Task : u # t => tasks'[u] = tasks[u]
      BY DEF Finish, IndInv, TypeOK
    <2>5. CASE tasks[t].reservation = r
      BY <1>1, <2>2, <2>5, TransportAssumption DEF Granted
    <2>6. CASE tasks[t].reservation # r
      BY <2>2, <2>3, <2>4, <2>6 DEF Answered, Granted
    <2> QED
      BY <2>5, <2>6
  <1> QED
    BY <1>1 DEF UnrecordedIsSealed, Granted

\* A step that leaves every task its reservation.
LEMMA StaysAnswered ==
    ASSUME IndInv, UnrecordedIsSealed, RowsKept,
           seals \subseteq seals', lost \subseteq lost',
           \A r \in Reservation : wire'[r] > 0 =>
               wire[r] > 0 \/ \E t \in Task : tasks'[t].reservation = r,
           \A t \in Task : tasks[t].reservation # NoReservation =>
               tasks'[t].reservation = tasks[t].reservation,
           NoneReopened
    PROVE  UnrecordedIsSealed'
  <1>1. ASSUME NEW r \in Reservation, wire'[r] > 0, reservations'[r].state = "reserved",
               ~ \E t \in Task : tasks'[t].reservation = r
        PROVE  \/ <<reservations'[r].request.root, reservations'[r].request.run>> \in seals'
               \/ r \in lost'
    <2>1. wire[r] > 0 /\ reservations[r] # NoRow
      BY <1>1 DEF IndInv, WireCommitted
    <2>2. /\ reservations'[r] # NoRow /\ reservations'[r].request = reservations[r].request
          /\ reservations[r].state = "reserved"
      BY <1>1, <2>1 DEF RowsKept, NoneReopened
    <2>3. Answered(r)
      BY <2>1, <2>2 DEF UnrecordedIsSealed, Answered
    <2>4. r # NoReservation
      BY TransportAssumption
    <2> QED
      BY <1>1, <2>2, <2>3, <2>4 DEF Answered, Granted
  <1> QED
    BY <1>1 DEF UnrecordedIsSealed, Granted

LEMMA SameStates ==
    ASSUME UNCHANGED reservations
    PROVE  NoneReopened /\ RowsKept
  BY DEF NoneReopened, RowsKept

LEMMA RecordStates ==
    ASSUME LedgerInv, NEW r \in Reservation, reservations[r] # NoRow,
           NEW outcome \in {"succeeded", "failed_known"}, RecordAttempt(r, outcome)
    PROVE  NoneReopened /\ RowsKept /\ reservations'[r].state # "reserved" /\ seals' = seals
  <1> DEFINE row == [reservations[r] EXCEPT !.state = outcome]
  <1>1. reservations \in [Reservation -> ReservationRow \cup {NoRow}] /\ reservations[r] \in ReservationRow
    BY DEF LedgerInv, LedgerTypeOK
  <1>2. row.state = outcome /\ reservations' = [reservations EXCEPT ![r] = row] /\ seals' = seals
    BY <1>1 DEF RecordAttempt, ReservationRow
  <1> HIDE DEF row
  <1>3. \A s \in Reservation : reservations'[s] = IF s = r THEN row ELSE reservations[s]
    BY <1>1, <1>2
  <1> QED
    BY <1>2, <1>3, RecordAttemptKeeps DEF NoneReopened

LEMMA ReserveStates ==
    ASSUME LedgerInv, NEW q \in Request, NEW p \in Policy, NEW e \in Epoch,
           NEW r \in Reservation, Reserve(q, p, e, r)
    PROVE  NoneReopened /\ RowsKept /\ seals' = seals
  <1>1. \A s \in Reservation : s # r => reservations'[s] = reservations[s]
    BY ReserveKeeps
  <1>2. reservations[r] = NoRow /\ seals' = seals
    BY DEF Reserve
  <1> QED
    BY <1>1, <1>2 DEF NoneReopened, RowsKept

LEMMA UnrecordedTask ==
    ASSUME IndInv, UnrecordedIsSealed, NEW t \in Task, TaskStep(t)
    PROVE  UnrecordedIsSealed'
  <1> DEFINE v == tasks[t]
             r == v.reservation
  <1>1. /\ LedgerInv /\ tasks \in [Task -> TaskState] /\ v \in TaskState
        /\ wire \in [Reservation -> Nat]
    BY DEF IndInv, TypeOK
  <1>2. /\ v.pc # "idle" => v.request \in Request
        /\ v.pc \in {"idle", "reserving"} => r = NoReservation
        /\ v.pc \notin {"idle", "reserving"} =>
               /\ r \in Reservation /\ r # NoReservation /\ reservations[r] # NoRow
               /\ Granted(r) = v.request
        /\ v.pc = "recording" => v.outcome \in {"succeeded", "failed_known"}
        /\ PolicyOf[t] \in Policy
    <2>1. Holds(v)
      BY DEF IndInv, TasksHold
    <2> QED
      BY <1>1, <2>1, HeldReservation, TransportAssumption DEF Holds
  <1>3. ASSUME UNCHANGED ledgerVars PROVE NoneReopened /\ RowsKept /\ seals' = seals
    BY <1>3, SameStates DEF ledgerVars
  <1>4. ASSUME NEW q \in Request, Prepare(t, q) PROVE UnrecordedIsSealed'
    <2>1. NoneReopened /\ RowsKept /\ seals' = seals /\ lost' = lost /\ wire' = wire /\ r = NoReservation
      BY <1>2, <1>3, <1>4 DEF Prepare
    <2>2. \A u \in Task : u # t => tasks'[u] = tasks[u]
      BY <1>1, <1>4 DEF Prepare
    <2> QED
      BY <2>1, <2>2, StaysAnswered
  <1>5. CASE CheckAndReserve(t)
    <2>1. PICK e \in Epoch, s \in Reservation :
              /\ Reserve(v.request, PolicyOf[t], e, s)
              /\ tasks' = [tasks EXCEPT ![t].pc = "granted", ![t].reservation = s]
      BY <1>5 DEF CheckAndReserve
    <2>2. v.pc = "reserving" /\ lost' = lost /\ wire' = wire
      BY <1>5 DEF CheckAndReserve
    <2>3. NoneReopened /\ RowsKept /\ seals' = seals
      BY <1>1, <1>2, <2>1, <2>2, ReserveStates
    <2>4. \A u \in Task : u # t => tasks'[u] = tasks[u]
      BY <1>1, <2>1
    <2> QED
      BY <1>2, <2>2, <2>3, <2>4, StaysAnswered
  <1>6. CASE ReserveAmbiguous(t)
    <2>1. PICK e \in Epoch, s \in Reservation : Reserve(v.request, PolicyOf[t], e, s)
      BY <1>6 DEF ReserveAmbiguous
    <2>2. v.pc = "reserving" /\ lost' = lost /\ wire' = wire /\ Finish(t)
      BY <1>6 DEF ReserveAmbiguous
    <2>3. NoneReopened /\ RowsKept /\ seals' = seals
      BY <1>1, <1>2, <2>1, <2>2, ReserveStates
    <2> QED
      BY <1>2, <2>2, <2>3, LeavesAnswered
  <1>7. CASE RefuseReplay(t) \/ RefuseRequest(t) \/ ReserveUnavailable(t)
    <2>1. v.pc = "reserving" /\ lost' = lost /\ wire' = wire /\ Finish(t) /\ UNCHANGED ledgerVars
      BY <1>7 DEF RefuseReplay, Replay, RefuseRequest, Refuse, ReserveUnavailable
    <2> QED
      BY <1>2, <1>3, <2>1, LeavesAnswered
  <1>8. CASE Transmit(t)
    <2>1. v.pc = "granted" /\ lost' = lost /\ UNCHANGED ledgerVars
          /\ wire' = [wire EXCEPT ![r] = wire[r] + 1] /\ tasks' = [tasks EXCEPT ![t].pc = "sent"]
      BY <1>8 DEF Transmit, Suspend
    <2>2. \A u \in Task : tasks'[u].reservation = tasks[u].reservation
      BY <1>1, <2>1 DEF TaskState
    <2>3. \A s \in Reservation : wire'[s] > 0 => wire[s] > 0 \/ tasks'[t].reservation = s
      BY <1>1, <2>1, <2>2
    <2> QED
      BY <1>3, <2>1, <2>2, <2>3, StaysAnswered
  <1>9. ASSUME NEW outcome \in {"succeeded", "failed_known"}, AdapterReturns(t, outcome)
        PROVE  UnrecordedIsSealed'
    <2>1. lost' = lost /\ UNCHANGED ledgerVars /\ wire' = wire
          /\ tasks' = [tasks EXCEPT ![t].pc = "recording", ![t].outcome = outcome]
      BY <1>9 DEF AdapterReturns
    <2>2. \A u \in Task : tasks'[u].reservation = tasks[u].reservation
      BY <1>1, <2>1 DEF TaskState
    <2> QED
      BY <1>3, <2>1, <2>2, StaysAnswered
  <1>10. CASE RecordAfterSend(t)
    <2>1. v.pc = "recording" /\ RecordAttempt(r, v.outcome) /\ Finish(t) /\ wire' = wire /\ lost' = lost
      BY <1>10 DEF RecordAfterSend
    <2>2. NoneReopened /\ RowsKept /\ reservations'[r].state # "reserved" /\ seals' = seals
      BY <1>1, <1>2, <2>1, RecordStates
    <2> QED
      BY <2>1, <2>2, LeavesAnswered
  <1>11. CASE RecordFails(t) \/ CancelSend(t) \/ CancelRecord(t)
    <2>1. /\ v.pc \in {"granted", "sent", "recording"} /\ wire' = wire /\ lost' = lost
          /\ \E pc \in Pc : tasks' = [tasks EXCEPT ![t].pc = pc]
          /\ \/ UNCHANGED ledgerVars
             \/ \E outcome \in {"succeeded", "failed_known"} : RecordAttempt(r, outcome)
      BY <1>2, <1>11 DEF RecordFails, CancelSend, CancelRecord, Suspend, Pc
    <2>2. NoneReopened /\ RowsKept /\ seals' = seals
      BY <1>1, <1>2, <1>3, <2>1, RecordStates
    <2>3. \A u \in Task : tasks'[u].reservation = tasks[u].reservation
      BY <1>1, <2>1 DEF TaskState
    <2> QED
      BY <2>1, <2>2, <2>3, StaysAnswered
  <1>12. CASE Seal(t)
    <2>1. /\ v.pc \in {"sealing", "closing"} /\ Finish(t) /\ wire' = wire /\ lost' = lost
          /\ seals' = seals \cup {<<v.request.root, v.request.run>>} /\ UNCHANGED reservations
      BY <1>12 DEF Seal, SealRun
    <2>2. <<Granted(r).root, Granted(r).run>> \in seals' /\ seals \subseteq seals'
      BY <1>2, <2>1
    <2> QED
      BY <2>1, <2>2, SameStates, LeavesAnswered
  <1>13. CASE SealFails(t) \/ ProcessDies(t)
    <2>1. /\ v.pc # "idle" /\ Finish(t) /\ wire' = wire /\ UNCHANGED ledgerVars
          /\ lost \subseteq lost' /\ (r # NoReservation => r \in lost')
      BY <1>13 DEF SealFails, ProcessDies
    <2> QED
      BY <1>3, <2>1, LeavesAnswered
  <1> QED
    BY <1>4, <1>5, <1>6, <1>7, <1>8, <1>9, <1>10, <1>11, <1>12, <1>13 DEF TaskStep

\* A request that left the machine and has no recorded outcome has closed its
\* run, unless the process died or could not seal: whichever way a task leaves
\* send, by result, error or cancellation, it accounts for its reservation
\* (transport.py send, __record_after_send, __seal_bounded).
THEOREM UnrecordedSendsAreSealed == Spec => []UnrecordedIsSealed
  <1>1. Init => UnrecordedIsSealed
    BY DEF Init, UnrecordedIsSealed
  <1>2. ASSUME IndInv, UnrecordedIsSealed, [Next]_vars PROVE UnrecordedIsSealed'
    <2>1. ASSUME UNCHANGED <<reservations, seals, tasks, wire, lost>> PROVE UnrecordedIsSealed'
      BY <1>2, <2>1, SameStates, StaysAnswered
    <2>2. ASSUME NEW o \in Operator, OperatorStep(o) PROVE UnrecordedIsSealed'
      BY <2>1, <2>2 DEF OperatorStep, InspectHead, Rebind, RebindPolicy, RebindReturns, ledgerVars
    <2>3. CASE Lapse
      BY <2>1, <2>3 DEF Lapse, AuthorizationLapses
    <2>4. CASE UNCHANGED vars
      BY <2>1, <2>4 DEF vars, ledgerVars
    <2> QED
      BY <1>2, <2>2, <2>3, <2>4, UnrecordedTask DEF Next
  <1>3. IndInv /\ UnrecordedIsSealed /\ [Next]_vars => UnrecordedIsSealed'
    BY <1>2
  <1> QED
    BY <1>1, <1>3, Invariance, PTL DEF Spec

-----------------------------------------------------------------------------
(* The transmitted total of a root *)

\* No reservation is added and none changes its request.
SameGrants ==
    /\ UNCHANGED roots
    /\ \A s \in Reservation :
           /\ reservations'[s] = NoRow <=> reservations[s] = NoRow
           /\ reservations[s] # NoRow => reservations'[s].request = reservations[s].request

LEMMA RecordGrants ==
    ASSUME LedgerInv, NEW r \in Reservation, reservations[r] # NoRow,
           NEW outcome \in {"succeeded", "failed_known"}, RecordAttempt(r, outcome)
    PROVE  SameGrants
  <1>1. RowsKept
    BY RecordAttemptKeeps
  <1>2. UNCHANGED roots /\ \A s \in Reservation : s # r => reservations'[s] = reservations[s]
    BY DEF RecordAttempt, LedgerInv, LedgerTypeOK
  <1> QED
    BY <1>1, <1>2 DEF RowsKept, SameGrants

\* Only check_and_reserve adds a reservation.
LEMMA GrantMoves ==
    ASSUME IndInv, [Next]_vars
    PROVE  \/ SameGrants
           \/ \E q \in Request, p \in Policy, e \in Epoch, r \in Reservation : Reserve(q, p, e, r)
  <1>1. ASSUME NEW t \in Task, CheckAndReserve(t) \/ ReserveAmbiguous(t)
        PROVE  \E q \in Request, p \in Policy, e \in Epoch, r \in Reservation : Reserve(q, p, e, r)
    <2>1. tasks[t].request \in Request /\ PolicyOf[t] \in Policy
      BY <1>1, HeldReservation, TransportAssumption DEF CheckAndReserve, ReserveAmbiguous
    <2> QED
      BY <1>1, <2>1 DEF CheckAndReserve, ReserveAmbiguous
  <1>2. ASSUME UNCHANGED <<roots, reservations>> PROVE SameGrants
    BY <1>2 DEF SameGrants
  <1>3. ASSUME UNCHANGED ledgerVars PROVE SameGrants
    BY <1>2, <1>3 DEF ledgerVars
  <1>4. ASSUME NEW t \in Task, TaskStep(t), ~CheckAndReserve(t), ~ReserveAmbiguous(t)
        PROVE  SameGrants
    <2>1. ASSUME NEW q \in Request, Prepare(t, q) PROVE SameGrants
      BY <1>3, <2>1 DEF Prepare
    <2>2. CASE RefuseReplay(t) \/ RefuseRequest(t) \/ ReserveUnavailable(t)
      BY <1>3, <2>2 DEF RefuseReplay, Replay, RefuseRequest, Refuse, ReserveUnavailable
    <2>3. CASE Transmit(t) \/ \E outcome \in {"succeeded", "failed_known"} : AdapterReturns(t, outcome)
      BY <1>3, <2>3 DEF Transmit, AdapterReturns
    <2>4. CASE RecordAfterSend(t) \/ RecordFails(t) \/ CancelSend(t) \/ CancelRecord(t)
      <3> DEFINE r == tasks[t].reservation
      <3>1. /\ LedgerInv /\ r \in Reservation /\ reservations[r] # NoRow
            /\ tasks[t].pc = "recording" => tasks[t].outcome \in {"succeeded", "failed_known"}
        BY <2>4, HeldReservation DEF RecordAfterSend, RecordFails, CancelSend, CancelRecord
      <3>2. \/ UNCHANGED ledgerVars
            \/ \E outcome \in {"succeeded", "failed_known"} : RecordAttempt(r, outcome)
        BY <2>4, <3>1 DEF RecordAfterSend, RecordFails, CancelSend, CancelRecord
      <3> QED
        BY <1>3, <3>1, <3>2, RecordGrants
    <2>5. CASE Seal(t) \/ SealFails(t) \/ ProcessDies(t)
      BY <1>2, <1>3, <2>5 DEF Seal, SealRun, SealFails, ProcessDies
    <2> QED
      BY <1>4, <2>1, <2>2, <2>3, <2>4, <2>5 DEF TaskStep
  <1>5. ASSUME NEW o \in Operator, OperatorStep(o) PROVE SameGrants
    BY <1>2, <1>3, <1>5 DEF OperatorStep, Rebind, RebindPolicy, RebindReturns, InspectHead
  <1>6. CASE Lapse
    BY <1>2, <1>6 DEF Lapse, AuthorizationLapses
  <1>7. CASE UNCHANGED vars
    BY <1>3, <1>7 DEF vars
  <1> QED
    BY <1>1, <1>4, <1>5, <1>6, <1>7 DEF Next

\* The tokens of one reservation, n of them.
TokensOfOne(r, n) == {r} \X (1..n)

LEMMA TokensOfOneCount ==
    ASSUME NEW r, NEW n \in Nat
    PROVE  IsFiniteSet(TokensOfOne(r, n)) /\ Cardinality(TokensOfOne(r, n)) = n
  <1> DEFINE S == {r}
             I == 1..n
             P == S \X I
  <1>1. IsFiniteSet(S) /\ Cardinality(S) = 1
    BY FS_Singleton
  <1>2. IsFiniteSet(I) /\ Cardinality(I) = n
    BY FS_Interval
  <1>3. TokensOfOne(r, n) = P
    BY DEF TokensOfOne
  <1> HIDE DEF S, I
  <1>4. IsFiniteSet(P) /\ Cardinality(P) = Cardinality(S) * Cardinality(I)
    BY <1>1, <1>2, FS_Product, Zenon
  <1> HIDE DEF P
  <1>5. IsFiniteSet(P) /\ Cardinality(P) = n
    BY <1>1, <1>2, <1>4
  <1> QED
    BY <1>3, <1>5

LEMMA TokensAdded ==
    ASSUME NEW T, IsFiniteSet(T), NEW r, NEW n \in Nat, T \cap TokensOfOne(r, n) = {}
    PROVE  /\ IsFiniteSet(T \cup TokensOfOne(r, n))
           /\ Cardinality(T \cup TokensOfOne(r, n)) = Cardinality(T) + n
  <1> DEFINE P == TokensOfOne(r, n)
  <1>1. IsFiniteSet(P) /\ Cardinality(P) = n
    BY TokensOfOneCount
  <1> HIDE DEF P
  <1>2. /\ IsFiniteSet(T \cup P)
        /\ Cardinality(T \cup P) = Cardinality(T) + Cardinality(P) - Cardinality(T \cap P)
    BY <1>1, FS_Union
  <1>3. Cardinality(T \cap P) = 0 /\ Cardinality(T) \in Nat
    BY FS_EmptySet, FS_CardinalityType DEF P
  <1>4. IsFiniteSet(T \cup P) /\ Cardinality(T \cup P) = Cardinality(T) + n
    BY <1>1, <1>2, <1>3
  <1> QED
    BY <1>4 DEF P

\* The transmitted total of a root counts the tokens of its reservations.
TokensCounted ==
    \A k \in Root :
        /\ IsFiniteSet(TokensOf(k))
        /\ Cardinality(TokensOf(k)) = IF roots[k] = NoRow THEN 0 ELSE roots[k].usage.transmitted

\* TokensOf, of any reservations.
TokensIn(rows, k) ==
    UNION {{r} \X (1..Size[rows[r].request.facts]) :
             r \in {s \in Reservation : rows[s] # NoRow /\ rows[s].request.root = k}}

LEMMA TokensForm ==
    ASSUME NEW k
    PROVE  TokensOf(k) = TokensIn(reservations, k) /\ TokensOf(k)' = TokensIn(reservations', k)
  <1>1. {s \in Committed : Granted(s).root = k} =
        {s \in Reservation : reservations[s] # NoRow /\ reservations[s].request.root = k}
    BY DEF Committed, Granted
  <1>2. {s \in Committed : Granted(s).root = k}' =
        {s \in Reservation : reservations'[s] # NoRow /\ reservations'[s].request.root = k}
    BY DEF Committed, Granted
  <1> QED
    BY <1>1, <1>2 DEF TokensOf, TokensIn, Granted

\* The total after a charge.
LEMMA ApplyUsageTotal ==
    ASSUME NEW u \in UsageSnapshot, NEW q \in Request
    PROVE  ApplyUsage(u, q).transmitted = u.transmitted + Size[q.facts]
  <1> DEFINE F == u.facts \cup q.facts
             n == u.transmitted + Size[q.facts]
             shared == [u EXCEPT !.facts = F, !.transmitted = n]
  <1>1. F \in SUBSET Disclosure /\ n \in Nat
    BY RequestFields DEF UsageSnapshot
  <1>2. shared \in UsageSnapshot /\ shared.transmitted = n
    <2> HIDE DEF F, n
    <2> QED
      BY <1>1 DEF UsageSnapshot
  <1>3. CASE q.stage = "judge"
    <2> DEFINE G == shared.judge \cup q.facts
               m == shared.judgeTransmitted + Size[q.facts]
               judged == [shared EXCEPT !.judge = G, !.judgeTransmitted = m]
    <2>1. ApplyUsage(u, q) = judged
      BY <1>3 DEF ApplyUsage
    <2> HIDE DEF shared, G, m
    <2>2. judged.transmitted = shared.transmitted
      BY <1>2 DEF UsageSnapshot
    <2> QED
      BY <1>2, <2>1, <2>2
  <1>4. CASE q.stage # "judge"
    <2> DEFINE w == ApplyToRun(shared.runs[q.run], q)
               online == [shared EXCEPT !.runs[q.run] = w]
    <2>1. ApplyUsage(u, q) = online
      BY <1>4 DEF ApplyUsage
    <2> HIDE DEF shared, w
    <2>2. online.transmitted = shared.transmitted
      BY <1>2 DEF UsageSnapshot
    <2> QED
      BY <1>2, <2>1, <2>2
  <1> QED
    BY <1>3, <1>4

LEMMA TokensStep ==
    ASSUME IndInv, TokensCounted, [Next]_vars
    PROVE  TokensCounted'
  <1> DEFINE of(rows, k) == {s \in Reservation : rows[s] # NoRow /\ rows[s].request.root = k}
             tokens(q, r) == TokensOfOne(r, Size[q.facts])
  <1>1. LedgerInv
    BY DEF IndInv
  <1>2. CASE SameGrants
    <2>1. ASSUME NEW k \in Root PROVE TokensOf(k)' = TokensOf(k)
      <3>1. of(reservations', k) = of(reservations, k)
        BY <1>2 DEF SameGrants
      <3>2. \A s \in of(reservations, k) : reservations'[s].request = reservations[s].request
        BY <1>2 DEF SameGrants
      <3>3. TokensIn(reservations', k) = TokensIn(reservations, k)
        BY <3>1, <3>2 DEF TokensIn
      <3> QED
        BY <3>3, TokensForm
    <2> QED
      BY <1>2, <2>1 DEF TokensCounted, SameGrants
  <1>3. ASSUME NEW q \in Request, NEW p \in Policy, NEW e \in Epoch, NEW r \in Reservation,
               Reserve(q, p, e, r)
        PROVE  TokensCounted'
    <2> DEFINE u == LockedUsage(q, p)
               n == Size[q.facts]
               P == TokensOfOne(r, n)
    <2>1. /\ reservations[r] = NoRow /\ reservations'[r] # NoRow /\ reservations'[r].request = q
          /\ \A s \in Reservation : s # r => reservations'[s] = reservations[s]
      <3>1. reservations[r] = NoRow
        BY <1>3 DEF Reserve
      <3> QED
        BY <1>1, <1>3, <3>1, ReserveKeeps
    <2>2. q.root \in Root /\ n \in Nat
      BY RequestFields
    <2>3. LockedEpoch(e) /\ RootInEpoch(q, e)
      BY <1>3 DEF Reserve
    <2>4. /\ u \in UsageSnapshot
          /\ u.transmitted = IF roots[q.root] = NoRow THEN 0 ELSE roots[q.root].usage.transmitted
      <3>1. u \in UsageSnapshot
        BY <1>1, <2>3, LockedRows
      <3> QED
        BY <3>1 DEF LockedUsage, EmptyUsage
    <2>5. /\ roots'[q.root] # NoRow /\ roots'[q.root].usage.transmitted = u.transmitted + n
          /\ \A k \in Root : k # q.root => roots'[k] = roots[k]
      <3> DEFINE v == ApplyUsage(u, q)
                 root == [epoch |-> e, usage |-> v]
      <3>1. v \in UsageSnapshot /\ v.transmitted = u.transmitted + n
        BY <2>4, ApplyUsageType, ApplyUsageTotal
      <3>2. roots' = [roots EXCEPT ![q.root] = root]
        BY <1>3 DEF Reserve
      <3> HIDE DEF u, v
      <3>3. root \in RootRow /\ root.usage = v
        BY <3>1 DEF RootRow
      <3>4. root # NoRow
        BY <3>3, LedgerAssumption
      <3> HIDE DEF root
      <3>5. roots \in [Root -> RootRow \cup {NoRow}]
        BY <1>1 DEF LedgerInv, LedgerTypeOK
      <3> QED
        BY <2>2, <3>1, <3>2, <3>3, <3>4, <3>5
    <2> HIDE DEF u, n
    <2>6. ASSUME NEW k \in Root
          PROVE  TokensOf(k)' = TokensOf(k) \cup (IF k = q.root THEN P ELSE {})
      <3>1. of(reservations', k) = of(reservations, k) \cup (IF k = q.root THEN {r} ELSE {})
        BY <2>1
      <3>2. \A s \in of(reservations, k) : reservations'[s] = reservations[s]
        BY <2>1
      <3>3. tokens(reservations'[r].request, r) = P
        BY <2>1 DEF n
      <3> HIDE DEF P
      <3>4. TokensIn(reservations', k) =
              UNION {tokens(reservations'[s].request, s) : s \in of(reservations', k)}
        BY DEF TokensIn, TokensOfOne
      <3>5. TokensIn(reservations, k) =
              UNION {tokens(reservations[s].request, s) : s \in of(reservations, k)}
        BY DEF TokensIn, TokensOfOne
      <3> HIDE DEF of, tokens
      <3>6. TokensIn(reservations', k) = TokensIn(reservations, k) \cup (IF k = q.root THEN P ELSE {})
        BY <3>1, <3>2, <3>3, <3>4, <3>5
      <3> QED
        BY <3>6, TokensForm
    <2>7. TokensOf(q.root) \cap P = {}
      <3>1. ASSUME NEW x \in TokensOf(q.root), x \in P PROVE FALSE
        <4>1. PICK s \in of(reservations, q.root) : x \in {s} \X (1..Size[reservations[s].request.facts])
          BY <3>1, TokensForm DEF TokensIn
        <4>2. x[1] = s /\ x[1] = r
          BY <3>1, <4>1 DEF TokensOfOne
        <4> QED
          BY <2>1, <4>1, <4>2
      <3> QED
        BY <3>1
    <2>8. /\ IsFiniteSet(TokensOf(q.root)')
          /\ Cardinality(TokensOf(q.root)') = Cardinality(TokensOf(q.root)) + n
      <3>1. IsFiniteSet(TokensOf(q.root))
        BY <2>2 DEF TokensCounted
      <3>2. TokensOf(q.root)' = TokensOf(q.root) \cup P
        BY <2>2, <2>6
      <3>3. TokensOf(q.root) \cap TokensOfOne(r, n) = {}
        BY <2>7
      <3> HIDE DEF P
      <3>4. TokensOf(q.root)' = TokensOf(q.root) \cup TokensOfOne(r, n)
        BY <3>2 DEF P
      <3> QED
        BY <2>2, <3>1, <3>3, <3>4, TokensAdded
    <2>9. ASSUME NEW k \in Root
          PROVE  /\ IsFiniteSet(TokensOf(k)')
                 /\ Cardinality(TokensOf(k)') =
                      IF roots'[k] = NoRow THEN 0 ELSE roots'[k].usage.transmitted
      <3>1. CASE k = q.root
        BY <2>2, <2>4, <2>5, <2>8, <3>1 DEF TokensCounted
      <3>2. CASE k # q.root
        <4>1. TokensOf(k)' = TokensOf(k) /\ roots'[k] = roots[k]
          BY <2>5, <2>6, <3>2
        <4> QED
          BY <4>1 DEF TokensCounted
      <3> QED
        BY <3>1, <3>2
    <2> QED
      BY <2>9 DEF TokensCounted
  <1> QED
    BY <1>2, <1>3, GrantMoves

\* The ledger never drifts from the reservations it holds: a root's transmitted
\* total counts each token of each of its reservations once, whatever is
\* retried, replayed, refused or committed ambiguously, and the corpus total is
\* the size of what the corpus lists (_apply_usage, _apply_corpus_usage).
THEOREM TotalsAreExact == Spec => []TotalsExact
  <1>1. Init => TokensCounted
    <2> SUFFICES ASSUME Init, NEW k \in Root
                 PROVE  /\ IsFiniteSet(TokensOf(k))
                        /\ Cardinality(TokensOf(k)) =
                             IF roots[k] = NoRow THEN 0 ELSE roots[k].usage.transmitted
      BY DEF TokensCounted
    <2>1. TokensOf(k) = {}
      BY DEF Init, LedgerInit, TokensOf, Committed
    <2> QED
      BY <2>1, FS_EmptySet DEF Init, LedgerInit
  <1>2. IndInv /\ TokensCounted /\ [Next]_vars => TokensCounted'
    BY TokensStep
  <1>3. TokensCounted /\ CorpusTotals => TotalsExact
    BY DEF TokensCounted, CorpusTotals, TotalsExact
  <1> QED
    BY <1>1, <1>2, <1>3, Invariance, CorpusTotalsAreExact, PTL DEF Spec
=============================================================================
