------------------------------ MODULE RunStore ------------------------------
(***************************************************************************)
(* runs/postgres.py and checkpoints/postgres.py: the run row, its attempt  *)
(* rows, its checkpoint row and its trace, in one database.  Every store   *)
(* method locks the run row first and commits once, so each is one step.   *)
(* A lease is the number of clock ticks left of it, 0 when it has expired. *)
(***************************************************************************)
EXTENDS Naturals, Sequences

CONSTANTS
    Run,            \* run ids
    Key,            \* resume keys, as their hashes
    NoKey,
    NoRow,          \* the row does not exist
    LeaseTicks,     \* length of every lease (queue, worker and resume)
    Outcome         \* the statuses an attempt ends with

VARIABLES
    runs,           \* specpilot_run
    tries,          \* specpilot_run_attempt: [key, end], by attempt number
    checkpoints,    \* specpilot_run_checkpoint: [version, attempt, completed]
    trace           \* specpilot_run_event, in sequence order

storeVars == <<runs, tries, checkpoints, trace>>

QueueOwner == "queue-delivery"
WorkerOwner == "api-worker"     \* every process has the same one

Active == {"queued", "running"}
Status == Active \cup Outcome \cup {"interrupted"}
Reason == {"none", "lease_expired", "queue_delivery_failed"}

ASSUME StoreAssumption ==
    /\ LeaseTicks \in Nat \ {0}
    /\ Outcome \subseteq {"answered", "refused", "egress_blocked", "failed"}
    /\ NoKey \notin Key

RunRow ==
    [level : {"L1", "L2"}, status : Status, reason : Reason,
     owner : {"none", QueueOwner, WorkerOwner}, lease : 0..LeaseTicks]

Attempt == [key : Key \cup {NoKey}, end : {"open"} \cup Reason]

Checkpoint == [version : Nat \ {0}, attempt : Nat \ {0}, completed : BOOLEAN]

\* An absent row is no row.
ASSUME NoRowAssumption == NoRow \notin RunRow /\ NoRow \notin Checkpoint

Event ==
    [kind : {"state", "terminal", "resume", "checkpoint", "audit"},
     status : Status \cup {"none"}, attempt : Nat]

StateTransition(s) == [kind |-> "state", status |-> s, attempt |-> 0]
Terminal(s) == [kind |-> "terminal", status |-> s, attempt |-> 0]
ResumeSummary(n) == [kind |-> "resume", status |-> "none", attempt |-> n]
CheckpointSummary(n) == [kind |-> "checkpoint", status |-> "none", attempt |-> n]
\* Any other event; attempt is a ghost, the attempt that appended it.
Audit(n) == [kind |-> "audit", status |-> "none", attempt |-> n]

StoreTypeOK ==
    /\ runs \in [Run -> RunRow \cup {NoRow}]
    /\ tries \in [Run -> Seq(Attempt)]
    /\ checkpoints \in [Run -> Checkpoint \cup {NoRow}]
    /\ trace \in [Run -> Seq(Event)]

StoreInit ==
    /\ runs = [r \in Run |-> NoRow]
    /\ tries = [r \in Run |-> <<>>]
    /\ checkpoints = [r \in Run |-> NoRow]
    /\ trace = [r \in Run |-> <<>>]

Log(r, events) == trace' = [trace EXCEPT ![r] = @ \o events]

\* The terminal row: the lease columns are cleared.
Closed(row, status, reason) ==
    [row EXCEPT !.status = status, !.reason = reason, !.owner = "none", !.lease = 0]

-----------------------------------------------------------------------------
(* PostgresRunStore *)

Create(r, level) ==
    /\ runs[r] = NoRow
    /\ runs' = [runs EXCEPT ![r] =
           [level |-> level, status |-> "queued", reason |-> "none",
            owner |-> QueueOwner, lease |-> LeaseTicks]]
    /\ Log(r, <<StateTransition("queued")>>)
    /\ UNCHANGED <<tries, checkpoints>>

Expired(r) == runs[r] # NoRow /\ runs[r].status \in Active /\ runs[r].lease = 0

\* Mutant: the read shows the stored status only.
ViewStored(r) ==
    IF runs[r] = NoRow THEN <<"absent", "none">>
    ELSE <<runs[r].status, runs[r].reason>>

\* read_owned: an expired lease is shown as an interruption, never written.
View(r) ==
    IF runs[r] = NoRow THEN <<"absent", "none">>
    ELSE IF Expired(r) THEN <<"interrupted", "lease_expired">>
    ELSE <<runs[r].status, runs[r].reason>>

Claimable(r) == runs[r] # NoRow /\ runs[r].status = "queued" /\ runs[r].lease > 0

Claim(r, owner) ==
    /\ Claimable(r)
    /\ runs' = [runs EXCEPT ![r] =
           [@ EXCEPT !.status = "running", !.owner = owner, !.lease = LeaseTicks]]
    /\ Log(r, <<StateTransition("running")>>)
    /\ UNCHANGED <<tries, checkpoints>>

\* Mutant: heartbeats extend a lease that has already expired.
LeasedLate(r, owner) ==
    runs[r] # NoRow /\ runs[r].status = "running" /\ runs[r].owner = owner

\* The fence of heartbeat, append, append_many_once and reconcile_l2_egress.
Leased(r, owner) ==
    /\ runs[r] # NoRow
    /\ runs[r].status = "running"
    /\ runs[r].owner = owner
    /\ runs[r].lease > 0

Heartbeat(r, owner) ==
    /\ Leased(r, owner)
    /\ runs' = [runs EXCEPT ![r].lease = LeaseTicks]
    /\ UNCHANGED <<tries, checkpoints, trace>>

\* append, append_many_once and reconcile_l2_egress: none, one or more events.
AppendEvents(r, owner, events) ==
    /\ Leased(r, owner)
    /\ Log(r, events)
    /\ UNCHANGED <<runs, tries, checkpoints>>

Completable(r, owner) ==
    /\ runs[r] # NoRow
    /\ runs[r].status \in Active
    /\ runs[r].owner = owner
    /\ runs[r].lease > 0

\* The attempt row is not touched.
Complete(r, owner, status, reason) ==
    /\ Completable(r, owner)
    /\ runs' = [runs EXCEPT ![r] = Closed(@, status, reason)]
    /\ Log(r, <<Terminal(status)>>)
    /\ UNCHANGED <<tries, checkpoints>>

FailDelivery(r) == Complete(r, QueueOwner, "interrupted", "queue_delivery_failed")

\* Mutant: reconciliation forgets the attempt rows.
CloseOpenForgotten(rows, reason) == rows

CloseOpen(rows, reason) ==
    [n \in DOMAIN rows |->
        IF rows[n].end = "open" THEN [rows[n] EXCEPT !.end = reason] ELSE rows[n]]

\* The expired runs S that no other transaction has locked (SKIP LOCKED).
ReconcileExpired(S) ==
    /\ runs' = [r \in Run |->
           IF r \in S THEN Closed(runs[r], "interrupted", "lease_expired") ELSE runs[r]]
    /\ tries' = [r \in Run |->
           IF r \in S THEN CloseOpen(tries[r], "lease_expired") ELSE tries[r]]
    /\ trace' = [r \in Run |->
           IF r \in S THEN Append(trace[r], Terminal("interrupted")) ELSE trace[r]]
    /\ UNCHANGED checkpoints

-----------------------------------------------------------------------------
(* PostgresCheckpointStore *)

Version(r) == IF checkpoints[r] = NoRow THEN 0 ELSE checkpoints[r].version

\* Bindings, compare-and-set version, first write and validate_transition; the
\* run's status and lease are not looked at.
WriteAdmits(r, previous, attempt) ==
    /\ runs[r] # NoRow /\ runs[r].level = "L2"
    /\ previous = Version(r)
    /\ IF previous = 0 THEN attempt = 1
       ELSE attempt = checkpoints[r].attempt /\ ~checkpoints[r].completed

\* A first checkpoint that lands after the interruption records it.
FirstAttempt(row) ==
    [key |-> NoKey, end |-> IF row.status = "interrupted" THEN row.reason ELSE "open"]

\* Mutant: the last writer wins, whatever version it read.
WriteLastWins(r, previous, attempt, completed) ==
    /\ WriteAdmits(r, previous, attempt) \/ Version(r) > previous
    /\ previous = 0 => ~completed
    /\ checkpoints' = [checkpoints EXCEPT ![r] =
           [version |-> Version(r) + 1, completed |-> completed,
            attempt |-> IF Version(r) = 0 THEN attempt ELSE @.attempt]]
    /\ tries' = IF previous = 0 /\ tries[r] = <<>>
                THEN [tries EXCEPT ![r] = <<FirstAttempt(runs[r])>>]
                ELSE tries
    /\ Log(r, <<CheckpointSummary(attempt)>>)
    /\ UNCHANGED runs

Write(r, previous, attempt, completed) ==
    /\ WriteAdmits(r, previous, attempt)
    /\ previous = 0 => ~completed      \* it must be planned
    /\ checkpoints' = [checkpoints EXCEPT ![r] =
           [version |-> previous + 1, attempt |-> attempt, completed |-> completed]]
    /\ tries' = IF previous = 0 /\ tries[r] = <<>>
                THEN [tries EXCEPT ![r] = <<FirstAttempt(runs[r])>>]
                ELSE tries
    /\ Log(r, <<CheckpointSummary(attempt)>>)
    /\ UNCHANGED runs

Replays(r, k) == {n \in DOMAIN tries[r] : tries[r][n].key = k}

\* begin_resume for the run's owner and question under the run's bindings (any
\* mismatch is refused before anything is written); settled says whether every
\* reservation the checkpoint lists has a known outcome.
Disposition(r, k, settled) ==
    LET latest == tries[r][Len(tries[r])]
        active == runs[r].status \in Active
        resumable == runs[r].status = "interrupted" /\ runs[r].reason = "lease_expired"
        replay == Replays(r, k) # {}
    IN  IF runs[r] = NoRow THEN "not_found"
        ELSE IF ~replay /\ active THEN "leased"
        ELSE IF ~replay /\ ~resumable THEN "not_interrupted"
        ELSE IF checkpoints[r] = NoRow THEN "checkpoint_missing"
        ELSE IF Len(tries[r]) # checkpoints[r].attempt THEN "checkpoint_invalid"
        ELSE IF replay
             THEN IF /\ checkpoints[r].attempt \in Replays(r, k)
                     /\ latest.end = IF active THEN "open" ELSE runs[r].reason
                  THEN "replay" ELSE "checkpoint_invalid"
        ELSE IF latest.end = "lease_expired" /\ settled
             THEN "acquired" ELSE "checkpoint_invalid"

\* Mutant: the resumed status is not traced.
BeginResumeUntraced(r, k, owner, settled) ==
    LET attempt == Len(tries[r]) + 1
    IN  /\ Disposition(r, k, settled) = "acquired"
        /\ runs' = [runs EXCEPT ![r] =
               [@ EXCEPT !.status = "running", !.reason = "none",
                         !.owner = owner, !.lease = LeaseTicks]]
        /\ tries' = [tries EXCEPT ![r] = Append(@, [key |-> k, end |-> "open"])]
        /\ checkpoints' = [checkpoints EXCEPT ![r].attempt = attempt, ![r].version = @ + 1]
        /\ Log(r, <<ResumeSummary(attempt)>>)

BeginResume(r, k, owner, settled) ==
    LET attempt == Len(tries[r]) + 1
    IN  /\ Disposition(r, k, settled) = "acquired"
        /\ runs' = [runs EXCEPT ![r] =
               [@ EXCEPT !.status = "running", !.reason = "none",
                         !.owner = owner, !.lease = LeaseTicks]]
        /\ tries' = [tries EXCEPT ![r] = Append(@, [key |-> k, end |-> "open"])]
        /\ checkpoints' = [checkpoints EXCEPT ![r].attempt = attempt, ![r].version = @ + 1]
        /\ Log(r, <<StateTransition("running"), ResumeSummary(attempt)>>)

\* The lease is compared with a clock that was read before the connection was
\* opened and the row locked: however late the transaction runs, a reading made
\* just after begin_resume passes, so the lease of the moment is no guard.
FailResumeDelivery(r, attempt, owner) ==
    /\ runs[r].status = "running"
    /\ runs[r].owner = owner
    /\ attempt \in DOMAIN tries[r] /\ tries[r][attempt].end = "open"
    /\ checkpoints[r] # NoRow /\ checkpoints[r].attempt = attempt
    /\ tries' = [tries EXCEPT ![r][attempt].end = "queue_delivery_failed"]
    /\ runs' = [runs EXCEPT ![r] = Closed(@, "interrupted", "queue_delivery_failed")]
    /\ Log(r, <<StateTransition("interrupted"), Terminal("interrupted")>>)
    /\ UNCHANGED checkpoints

\* delete_expired: retention of unfinished checkpoints of inactive runs.
DeleteExpired(r) ==
    /\ checkpoints[r] # NoRow /\ ~checkpoints[r].completed
    /\ runs[r].status \notin Active
    /\ checkpoints' = [checkpoints EXCEPT ![r] = NoRow]
    /\ UNCHANGED <<runs, tries, trace>>

-----------------------------------------------------------------------------
\* The wall clock advances for every lease.
Elapse ==
    /\ \E r \in Run : runs[r] # NoRow /\ runs[r].lease > 0
    /\ runs' = [r \in Run |->
           IF runs[r] # NoRow /\ runs[r].lease > 0
           THEN [runs[r] EXCEPT !.lease = @ - 1] ELSE runs[r]]
    /\ UNCHANGED <<tries, checkpoints, trace>>

=============================================================================
