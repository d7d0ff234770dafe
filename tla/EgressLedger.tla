---------------------------- MODULE EgressLedger ----------------------------
(***************************************************************************)
(* The durable budget ledger of one frozen corpus, egress/postgres.py.     *)
(* Each operator below is one database transaction: check_and_reserve      *)
(* locks the corpus head before anything else, so transactions of one      *)
(* corpus are serial, and a raise rolls back every row it wrote (the first *)
(* epoch and the root row included).                                       *)
(***************************************************************************)
EXTENDS EgressEnforcer

CONSTANTS
    Epoch,          \* corpus_ledger_id: uuids of corpus ledger epochs
    NoEpoch,        \* SQL NULL
    Reservation,    \* reservation_id: uuids of reservations
    NoRow           \* a row that does not exist

VARIABLES
    head,           \* egress_corpus_ledger_head
    epochs,         \* egress_corpus_ledger
    roots,          \* egress_evaluation_root
    reservations,   \* egress_reservation
    attempts,       \* number of egress_attempt rows of each reservation
    seals,          \* egress_run_seal
    authorized      \* the stored source manifest authorizes the route now

ledgerVars == <<head, epochs, roots, reservations, attempts, seals, authorized>>

EpochRow == [usage : CorpusUsage, predecessor : Epoch \cup {NoEpoch}]
RootRow == [epoch : Epoch, usage : UsageSnapshot]
ReservationState == {"reserved", "succeeded", "failed_known"}
ReservationRow ==
    [request : Request, policy : Policy, epoch : Epoch, state : ReservationState]

ASSUME LedgerAssumption ==
    /\ NoEpoch \notin Epoch
    /\ NoRow \notin EpochRow
    /\ NoRow \notin RootRow
    /\ NoRow \notin ReservationRow

LedgerTypeOK ==
    /\ head \in Epoch \cup {NoEpoch}
    /\ epochs \in [Epoch -> EpochRow \cup {NoRow}]
    /\ roots \in [Root -> RootRow \cup {NoRow}]
    /\ reservations \in [Reservation -> ReservationRow \cup {NoRow}]
    /\ attempts \in [Reservation -> Nat]
    /\ seals \subseteq Root \X Run
    /\ authorized \in BOOLEAN

LedgerInit ==
    /\ head = NoEpoch
    /\ epochs = [e \in Epoch |-> NoRow]
    /\ roots = [r \in Root |-> NoRow]
    /\ reservations = [r \in Reservation |-> NoRow]
    /\ attempts = [r \in Reservation |-> 0]
    /\ seals = {}
    /\ authorized = TRUE

Committed == {r \in Reservation : reservations[r] # NoRow}

Sealed(q) == <<q.root, q.run>> \in seals

-----------------------------------------------------------------------------
(* check_and_reserve *)

\* _lock_corpus: the active epoch, or a fresh one bound to the caller's policy.
LockedEpoch(e) ==
    IF head = NoEpoch THEN e \in Epoch /\ epochs[e] = NoRow ELSE e = head

LockedCorpusUsage(e, p) ==
    IF head = NoEpoch THEN EmptyCorpusUsage(p) ELSE epochs[e].usage

LockedRow(e, p) ==
    IF head = NoEpoch
    THEN [usage |-> EmptyCorpusUsage(p), predecessor |-> NoEpoch]
    ELSE epochs[e]

\* _lock_root: a root belongs to the epoch it was created under.
RootInEpoch(q, e) == roots[q.root] # NoRow => roots[q.root].epoch = e

LockedUsage(q, p) ==
    IF roots[q.root] = NoRow THEN EmptyUsage(q, p) ELSE roots[q.root].usage

\* Mutant: the key is looked up before the locks, and not found.
ReplaysNotFound(q, p) == {}

\* _find_replay: the stored reservation of the same root, run, policy and key.
Replays(q, p) ==
    {r \in Committed :
        /\ reservations[r].request.root = q.root
        /\ reservations[r].request.run = q.run
        /\ reservations[r].policy = p
        /\ reservations[r].request.key = q.key}

\* EgressPolicyEnforcer.apply_reservation, which derives the request again.
ApplyReservation(q, p, e) ==
    LET usage == ApplyUsage(LockedUsage(q, p), q)
        corpus == ApplyCorpusUsage(LockedCorpusUsage(e, p), q)
    IN  /\ Derive(q, p, authorized)
        /\ LockedUsage(q, p).level = q.level
        /\ LockedUsage(q, p).policy = p
        /\ UsageAdmits(usage, q, Caps[p])
        /\ LockedCorpusUsage(e, p).policy = p
        /\ CorpusAdmits(corpus, q, Caps[p])

\* The transaction commits a new reservation r.
Reserve(q, p, e, r) ==
    /\ LockedEpoch(e)
    /\ RootInEpoch(q, e)
    /\ ~Sealed(q)
    /\ Replays(q, p) = {}
    /\ ApplyReservation(q, p, e)
    /\ reservations[r] = NoRow
    /\ head' = e
    /\ epochs' = [epochs EXCEPT ![e] =
           [LockedRow(e, p) EXCEPT
               !.usage = ApplyCorpusUsage(LockedCorpusUsage(e, p), q)]]
    /\ roots' = [roots EXCEPT ![q.root] =
           [epoch |-> e, usage |-> ApplyUsage(LockedUsage(q, p), q)]]
    /\ reservations' = [reservations EXCEPT ![r] =
           [request |-> q, policy |-> p, epoch |-> e, state |-> "reserved"]]
    /\ UNCHANGED <<attempts, seals, authorized>>

\* The transaction finds the key already spent: nothing is charged again.
Replay(q, p, r) ==
    /\ head # NoEpoch
    /\ RootInEpoch(q, head)
    /\ ~Sealed(q)
    /\ r \in Replays(q, p)
    /\ UNCHANGED ledgerVars

\* The transaction raises EgressPolicyViolation or RunSealed and rolls back.
Refuse(q, p) ==
    /\ \A e \in Epoch : LockedEpoch(e) =>
           \/ ~RootInEpoch(q, e)
           \/ Sealed(q)
           \/ Replays(q, p) = {} /\ ~ApplyReservation(q, p, e)
    /\ UNCHANGED ledgerVars

-----------------------------------------------------------------------------
(* record_attempt and seal_run *)

\* Mutant: the attempt leaves the reservation in state sending.
RecordAttemptSending(r, outcome) ==
    /\ attempts' = [attempts EXCEPT ![r] = @ + 1]
    /\ reservations' = [reservations EXCEPT ![r].state = "sending"]
    /\ UNCHANGED <<head, epochs, roots, seals, authorized>>

RecordAttempt(r, outcome) ==
    /\ attempts' = [attempts EXCEPT ![r] = @ + 1]
    /\ reservations' = [reservations EXCEPT ![r].state = outcome]
    /\ UNCHANGED <<head, epochs, roots, seals, authorized>>

SealRun(q) ==
    /\ seals' = seals \cup {<<q.root, q.run>>}
    /\ UNCHANGED <<head, epochs, roots, reservations, attempts, authorized>>

-----------------------------------------------------------------------------
(* rebind_policy: expected ledger x, expected policy y, new policy p. *)

RebindUnchanged(x, y, p) ==
    /\ head # NoEpoch
    /\ \/ head = x /\ epochs[head].usage.policy = y /\ y = p
       \/ /\ head # x
          /\ epochs[head].usage.policy = p
          /\ epochs[head].predecessor = x
          /\ epochs[x].usage.policy = y

\* Mutant: the expected ledger id is not compared with the head.
RebindMovesBlind(x, y, p) ==
    /\ head # NoEpoch
    /\ epochs[x].usage.policy = y
    /\ p # y

RebindMoves(x, y, p) ==
    /\ head # NoEpoch
    /\ head = x
    /\ epochs[head].usage.policy = y
    /\ p # y

RebindConflict(x, y, p) == ~RebindUnchanged(x, y, p) /\ ~RebindMoves(x, y, p)

\* The successor inherits the totals whether or not they fit the new caps.
RebindPolicy(x, y, p, e) ==
    /\ RebindMoves(x, y, p)
    /\ epochs[e] = NoRow
    /\ epochs' = [epochs EXCEPT ![e] =
           [usage |-> [epochs[x].usage EXCEPT !.policy = p], predecessor |-> x]]
    /\ head' = e
    /\ UNCHANGED <<roots, reservations, attempts, seals, authorized>>

-----------------------------------------------------------------------------
(* The authorization window of the source manifest ends (conclusion.expires_at). *)

AuthorizationLapses ==
    /\ authorized
    /\ authorized' = FALSE
    /\ UNCHANGED <<head, epochs, roots, reservations, attempts, seals>>

-----------------------------------------------------------------------------
(* The ledger's part of the inductive invariant. *)

\* Under the locks the key lookup is authoritative.
KeysUnique ==
    \A r, s \in Committed :
        /\ reservations[r].request.root = reservations[s].request.root
        /\ reservations[r].request.run = reservations[s].request.run
        /\ reservations[r].policy = reservations[s].policy
        /\ reservations[r].request.key = reservations[s].request.key
        => r = s

\* Roots and reservations point at epochs that exist, and carry their policy.
BoundToEpochs ==
    /\ head = NoEpoch => \A e \in Epoch : epochs[e] = NoRow
    /\ head # NoEpoch => epochs[head] # NoRow
    /\ \A k \in Root : roots[k] # NoRow =>
           /\ epochs[roots[k].epoch] # NoRow
           /\ roots[k].usage.policy = epochs[roots[k].epoch].usage.policy
    /\ \A r \in Committed :
           /\ roots[reservations[r].request.root] # NoRow
           /\ roots[reservations[r].request.root].epoch = reservations[r].epoch
           /\ reservations[r].policy = epochs[reservations[r].epoch].usage.policy

\* Every committed reservation is charged to its root and to the active epoch.
Charged ==
    \A r \in Committed :
        LET q == reservations[r].request
        IN  /\ head # NoEpoch
            /\ q.facts \subseteq roots[q.root].usage.facts
            /\ q.facts \subseteq epochs[head].usage.facts
            /\ q.facts \subseteq epochs[head].usage.docs[q.doc].facts

LedgerInv == LedgerTypeOK /\ KeysUnique /\ BoundToEpochs /\ Charged

=============================================================================
