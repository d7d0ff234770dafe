-------------------------- MODULE EgressTransport --------------------------
(***************************************************************************)
(* providers/transport.py over the ledger: tasks that call                 *)
(* PolicyBoundTransport.send, each in its own process with its own policy, *)
(* and operators that rebind the corpus policy while they do.              *)
(*                                                                         *)
(* A task's program counter names the await it is suspended in:            *)
(*   idle       not inside send                                            *)
(*   reserving  prepare passed, inside check_and_reserve                   *)
(*   granted    inside adapter.send, no byte on the wire yet               *)
(*   sent       inside adapter.send, the request is on the wire            *)
(*   recording  inside __record_after_send                                 *)
(*   sealing    record_attempt raised, inside seal_run                     *)
(*   closing    cancelled: the record was settled, inside __seal_bounded   *)
(***************************************************************************)
EXTENDS EgressLedger

CONSTANTS
    Task,           \* concurrent callers of send
    PolicyOf,       \* the policy each task's process loaded
    Operator,       \* operators running `egress rebind-policy`
    NoReservation,
    NoRequest,
    NoPolicy

VARIABLES
    tasks,          \* [pc, request, reservation, outcome] of each task
    wire,           \* how often each reservation's payload left the machine
    lost,           \* reservations whose process died, or could not seal
    operators       \* [pc, ledger, policy, new] arguments of each operator

vars == <<ledgerVars, tasks, wire, lost, operators>>

Pc == {"idle", "reserving", "granted", "sent", "recording", "sealing", "closing"}
TaskState ==
    [pc : Pc, request : Request \cup {NoRequest},
     reservation : Reservation \cup {NoReservation},
     outcome : {"none", "succeeded", "failed_known"}]
IdleTask ==
    [pc |-> "idle", request |-> NoRequest, reservation |-> NoReservation,
     outcome |-> "none"]

IdleOperator ==
    [pc |-> "idle", ledger |-> NoEpoch, policy |-> NoPolicy, new |-> NoPolicy]

OperatorState ==
    {IdleOperator} \cup
    [pc : {"rebinding"}, ledger : Epoch, policy : Policy, new : Policy]

ASSUME TransportAssumption ==
    /\ PolicyOf \in [Task -> Policy]
    /\ NoReservation \notin Reservation
    /\ NoRequest \notin Request
    /\ NoPolicy \notin Policy

TypeOK ==
    /\ LedgerTypeOK
    /\ tasks \in [Task -> TaskState]
    /\ wire \in [Reservation -> Nat]
    /\ lost \subseteq Reservation
    /\ operators \in [Operator -> OperatorState]

Init ==
    /\ LedgerInit
    /\ tasks = [t \in Task |-> IdleTask]
    /\ wire = [r \in Reservation |-> 0]
    /\ lost = {}
    /\ operators = [o \in Operator |-> IdleOperator]

\* A task returns from send, by its result or by an exception.
Finish(t) == tasks' = [tasks EXCEPT ![t] = IdleTask]
Suspend(t, pc) == tasks' = [tasks EXCEPT ![t].pc = pc]

-----------------------------------------------------------------------------
(* PolicyBoundTransport.send up to the reservation *)

\* The adapter is bound and prepare accepts the request.
Prepare(t, q) ==
    /\ tasks[t].pc = "idle"
    /\ Derive(q, PolicyOf[t], authorized)
    /\ tasks' = [tasks EXCEPT ![t] = [IdleTask EXCEPT !.pc = "reserving", !.request = q]]
    /\ UNCHANGED <<ledgerVars, wire, lost, operators>>

CheckAndReserve(t) ==
    /\ tasks[t].pc = "reserving"
    /\ \E e \in Epoch, r \in Reservation :
           /\ Reserve(tasks[t].request, PolicyOf[t], e, r)
           /\ tasks' = [tasks EXCEPT ![t].pc = "granted", ![t].reservation = r]
    /\ UNCHANGED <<wire, lost, operators>>

\* A repeated key raises TransportReplayError before any send.
RefuseReplay(t) ==
    /\ tasks[t].pc = "reserving"
    /\ \E r \in Reservation : Replay(tasks[t].request, PolicyOf[t], r)
    /\ Finish(t)
    /\ UNCHANGED <<wire, lost, operators>>

RefuseRequest(t) ==
    /\ tasks[t].pc = "reserving"
    /\ Refuse(tasks[t].request, PolicyOf[t])
    /\ Finish(t)
    /\ UNCHANGED <<wire, lost, operators>>

\* LedgerUnavailable, or ReservationAmbiguous where the commit did not happen.
ReserveUnavailable(t) ==
    /\ tasks[t].pc = "reserving"
    /\ Finish(t)
    /\ UNCHANGED <<ledgerVars, wire, lost, operators>>

\* ReservationAmbiguous where it did, or the caller is cancelled in the commit.
ReserveAmbiguous(t) ==
    /\ tasks[t].pc = "reserving"
    /\ \E e \in Epoch, r \in Reservation :
           Reserve(tasks[t].request, PolicyOf[t], e, r)
    /\ Finish(t)
    /\ UNCHANGED <<wire, lost, operators>>

-----------------------------------------------------------------------------
(* The single adapter.send and its accounting *)

Transmit(t) ==
    /\ tasks[t].pc = "granted"
    /\ wire' = [wire EXCEPT ![tasks[t].reservation] = @ + 1]
    /\ Suspend(t, "sent")
    /\ UNCHANGED <<ledgerVars, lost, operators>>

\* A response, or a ProviderError or unclassified fault (also before any byte).
AdapterReturns(t, outcome) ==
    /\ \/ tasks[t].pc = "sent"
       \/ tasks[t].pc = "granted" /\ outcome = "failed_known"
    /\ tasks' = [tasks EXCEPT ![t].pc = "recording", ![t].outcome = outcome]
    /\ UNCHANGED <<ledgerVars, wire, lost, operators>>

RecordAfterSend(t) ==
    /\ tasks[t].pc = "recording"
    /\ RecordAttempt(tasks[t].reservation, tasks[t].outcome)
    /\ Finish(t)
    /\ UNCHANGED <<wire, lost, operators>>

\* Mutant: the accounting failure is raised without sealing the run.
RecordFailsQuietly(t) ==
    /\ tasks[t].pc = "recording"
    /\ UNCHANGED ledgerVars
    /\ Finish(t)
    /\ UNCHANGED <<wire, lost, operators>>

\* record_attempt raises LedgerError: unavailable, or ambiguous after a commit.
RecordFails(t) ==
    /\ tasks[t].pc = "recording"
    /\ \/ UNCHANGED ledgerVars
       \/ RecordAttempt(tasks[t].reservation, tasks[t].outcome)
    /\ Suspend(t, "sealing")
    /\ UNCHANGED <<wire, lost, operators>>

Seal(t) ==
    /\ tasks[t].pc \in {"sealing", "closing"}
    /\ SealRun(tasks[t].request)
    /\ Finish(t)
    /\ UNCHANGED <<wire, lost, operators>>

\* seal_run raises LedgerUnavailable, or the bounded wait runs out.
SealFails(t) ==
    /\ tasks[t].pc \in {"sealing", "closing"}
    /\ lost' = lost \cup {tasks[t].reservation}
    /\ Finish(t)
    /\ UNCHANGED <<ledgerVars, wire, operators>>

\* Cancelled inside adapter.send: the bounded record of provider_cancelled
\* commits or not, and the run is sealed either way.
CancelSend(t) ==
    /\ tasks[t].pc \in {"granted", "sent"}
    /\ \/ UNCHANGED ledgerVars
       \/ RecordAttempt(tasks[t].reservation, "failed_known")
    /\ Suspend(t, "closing")
    /\ UNCHANGED <<wire, lost, operators>>

\* Cancelled inside the shielded record: it settles or is given up, then seals.
CancelRecord(t) ==
    /\ tasks[t].pc = "recording"
    /\ \/ UNCHANGED ledgerVars
       \/ RecordAttempt(tasks[t].reservation, tasks[t].outcome)
    /\ Suspend(t, "closing")
    /\ UNCHANGED <<wire, lost, operators>>

\* The process dies: every volatile fact is gone, the ledger stays as it is.
ProcessDies(t) ==
    /\ tasks[t].pc # "idle"
    /\ lost' = lost \cup (IF tasks[t].reservation = NoReservation THEN {}
                          ELSE {tasks[t].reservation})
    /\ Finish(t)
    /\ UNCHANGED <<ledgerVars, wire, operators>>

-----------------------------------------------------------------------------
(* cli.py egress rebind-policy *)

\* The operator reads the active epoch and chooses the new policy.
InspectHead(o, p) ==
    /\ operators[o].pc = "idle"
    /\ head # NoEpoch
    /\ operators' = [operators EXCEPT ![o] =
           [pc |-> "rebinding", ledger |-> head,
            policy |-> epochs[head].usage.policy, new |-> p]]
    /\ UNCHANGED <<ledgerVars, tasks, wire, lost>>

\* Rebound and reported (idle), or PolicyRebindAmbiguous after the commit: the
\* operator runs the same command again.
Rebind(o, done) ==
    /\ operators[o].pc = "rebinding"
    /\ \E e \in Epoch :
           RebindPolicy(operators[o].ledger, operators[o].policy, operators[o].new, e)
    /\ operators' = IF done THEN [operators EXCEPT ![o] = IdleOperator] ELSE operators
    /\ UNCHANGED <<tasks, wire, lost>>

\* Reported as unchanged, or refused as a conflict: nothing is written.
RebindReturns(o) ==
    /\ operators[o].pc = "rebinding"
    /\ \/ RebindUnchanged(operators[o].ledger, operators[o].policy, operators[o].new)
       \/ RebindConflict(operators[o].ledger, operators[o].policy, operators[o].new)
    /\ operators' = [operators EXCEPT ![o] = IdleOperator]
    /\ UNCHANGED <<ledgerVars, tasks, wire, lost>>

-----------------------------------------------------------------------------
TaskStep(t) ==
    \/ \E q \in Request : Prepare(t, q)
    \/ CheckAndReserve(t)
    \/ RefuseReplay(t)
    \/ RefuseRequest(t)
    \/ ReserveUnavailable(t)
    \/ ReserveAmbiguous(t)
    \/ Transmit(t)
    \/ \E outcome \in {"succeeded", "failed_known"} : AdapterReturns(t, outcome)
    \/ RecordAfterSend(t)
    \/ RecordFails(t)
    \/ Seal(t)
    \/ SealFails(t)
    \/ CancelSend(t)
    \/ CancelRecord(t)
    \/ ProcessDies(t)

OperatorStep(o) ==
    \/ \E p \in Policy : InspectHead(o, p)
    \/ \E done \in BOOLEAN : Rebind(o, done)
    \/ RebindReturns(o)

Lapse == AuthorizationLapses /\ UNCHANGED <<tasks, wire, lost, operators>>

Next ==
    \/ \E t \in Task : TaskStep(t)
    \/ \E o \in Operator : OperatorStep(o)
    \/ Lapse

Spec == Init /\ [][Next]_vars

-----------------------------------------------------------------------------
(* Properties *)

\* The request a committed reservation was granted for.
Granted(r) == reservations[r].request

RunWithinCaps(u, level, caps) ==
    /\ Cardinality(u.claims) <= caps.maxClaims
    /\ \A c \in u.claims : WithinUnique(u.claimFacts[c], caps.claim)
    /\ WithinUnique(u.facts, caps.online[level])
    /\ u.transmitted <= caps.onlineTransmitted[level]
    /\ u.toc <= caps.tocPerRun

\* However requests of concurrent tasks interleave, no evaluation root, no run
\* in it, none of its claims and no judge spends more than the caps of the
\* policy the root was created under (enforcer.py _apply_usage).
RootsWithinCaps ==
    \A k \in Root : roots[k] # NoRow =>
        LET u == roots[k].usage
            caps == Caps[u.policy]
        IN  /\ WithinUnique(u.facts, caps.root[u.level])
            /\ u.transmitted <= caps.rootTransmitted[u.level]
            /\ WithinUnique(u.judge, caps.judge)
            /\ u.judgeTransmitted <= caps.judgeTransmitted
            /\ \A r \in Run : RunWithinCaps(u.runs[r], u.level, caps)

\* The corpus and each document stay inside the active policy's unique caps;
\* only totals inherited through a rebind may exceed them, and then they no
\* longer grow (enforcer.py _apply_corpus_usage, postgres.py _rebind_policy).
CorpusWithinCaps ==
    \A e \in Epoch : epochs[e] # NoRow =>
        LET c == epochs[e].usage
            caps == Caps[c.policy]
            inherited == epochs[e].predecessor # NoEpoch
            before == epochs[epochs[e].predecessor].usage
        IN  /\ \/ WithinAccount(c, caps.corpus)
               \/ inherited /\ c.facts = before.facts /\ c.tokens = before.tokens
            /\ \A d \in Document :
                   \/ WithinAccount(c.docs[d], caps.document[d])
                   \/ inherited /\ c.docs[d] = before.docs[d]

\* One logical send (root, run, key) puts at most one request on the wire,
\* through retries, ambiguous commits, crashes and policy rebinds
\* (transport.py: "A reservation authorizes exactly one transmission").
AtMostOneTransmission ==
    /\ \A r \in Reservation : wire[r] <= 1
    /\ \A r, s \in Reservation :
           /\ wire[r] > 0 /\ wire[s] > 0
           /\ Granted(r).root = Granted(s).root
           /\ Granted(r).run = Granted(s).run
           /\ Granted(r).key = Granted(s).key
           => r = s

\* Whatever left the machine is charged to its root and, whichever epoch is
\* active by now, to the corpus (docs of CorpusUsage: "how much of this
\* specification has left the machine in total").
DisclosuresAccounted ==
    \A r \in Reservation : wire[r] > 0 =>
        /\ reservations[r] # NoRow
        /\ Granted(r).facts \subseteq roots[Granted(r).root].usage.facts
        /\ Granted(r).facts \subseteq epochs[head].usage.facts
        /\ Granted(r).facts \subseteq epochs[head].usage.docs[Granted(r).doc].facts

\* The tokens of each reservation of a root, numbered.
TokensOf(k) ==
    UNION {{r} \X (1..Size[Granted(r).facts]) : r \in {s \in Committed : Granted(s).root = k}}

\* The running totals are exact: a root's transmitted total counts every token
\* of every reservation, never charged by a replay or a refusal, and the corpus
\* total is the size of the distinct disclosures it lists.
TotalsExact ==
    /\ \A k \in Root : roots[k] # NoRow =>
           roots[k].usage.transmitted = Cardinality(TokensOf(k))
    /\ \A e \in Epoch : epochs[e] # NoRow =>
           /\ epochs[e].usage.tokens = Size[epochs[e].usage.facts]
           /\ epochs[e].usage.facts =
                  UNION {epochs[e].usage.docs[d].facts : d \in Document}

\* A send that left the machine and was never recorded has closed its run,
\* unless the process died or the seal itself could not be written
\* (transport.py step 5).
UnrecordedIsSealed ==
    \A r \in Reservation :
        wire[r] > 0 /\ reservations[r].state = "reserved" =>
            \/ \E t \in Task : tasks[t].reservation = r
            \/ <<Granted(r).root, Granted(r).run>> \in seals
            \/ r \in lost

\* The epochs of a corpus form one chain that ends in the head: racing
\* rebinds, and retries of an ambiguous one, never fork it.
LinearLineage ==
    \A e \in Epoch : epochs[e] # NoRow =>
        /\ e # head <=> \E s \in Epoch : epochs[s] # NoRow /\ epochs[s].predecessor = e
        /\ \A s \in Epoch :
               /\ epochs[s] # NoRow
               /\ epochs[s].predecessor = epochs[e].predecessor
               => s = e
        /\ epochs[e].predecessor # NoEpoch => epochs[epochs[e].predecessor] # NoRow

-----------------------------------------------------------------------------
(* The inductive invariant behind the theorems of EgressProofs. *)

\* A task past its reservation holds it alone, and has not sent before granted.
Holds(v) ==
    /\ v.pc # "idle" => v.request \in Request
    /\ v.pc \in {"idle", "reserving"} <=> v.reservation = NoReservation
    /\ v.reservation # NoReservation =>
           /\ reservations[v.reservation] # NoRow
           /\ Granted(v.reservation) = v.request
    /\ v.pc = "granted" => wire[v.reservation] = 0
    /\ v.pc = "recording" => v.outcome # "none"

TasksHold == \A t \in Task : Holds(tasks[t])

OneHolder ==
    \A t, u \in Task :
        tasks[t].reservation = tasks[u].reservation /\ t # u =>
            tasks[t].reservation = NoReservation

WireCommitted ==
    \A r \in Reservation : wire[r] <= 1 /\ (wire[r] > 0 => reservations[r] # NoRow)

\* Inductive: what TypeOK, AtMostOneTransmission and DisclosuresAccounted rest
\* on, that is unique keys, epoch bindings, charges and exclusive holders.
IndInv == TypeOK /\ LedgerInv /\ TasksHold /\ OneHolder /\ WireCommitted

=============================================================================
