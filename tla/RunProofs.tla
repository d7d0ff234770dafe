----------------------------- MODULE RunProofs -----------------------------
(***************************************************************************)
(* Safety of the run service for any runs, keys, processes, handlers,      *)
(* leases and bounds, and its refinement of RunLifecycle.                  *)
(***************************************************************************)
EXTENDS RunService, TLAPS, FiniteSetTheorems

-----------------------------------------------------------------------------
(* The inductive invariant: the store *)

\* The rows of one run, as AttemptLineage has them.
Lineage(row, rows, ckpt) ==
    /\ ckpt # NoRow => ckpt.attempt = Len(rows)
    /\ \A n \in 1..Len(rows) - 1 : rows[n].end = "lease_expired"
    /\ Len(rows) > 0 => rows[Len(rows)].end =
           IF row.status = "interrupted" THEN row.reason ELSE "open"
    /\ \A m, n \in 1..Len(rows) : rows[m].key = rows[n].key => m = n

\* The last status in a trace is status.
Shows(events, status) ==
    \E i \in DOMAIN events :
        /\ ShowsStatus(events[i]) /\ events[i].status = status
        /\ \A j \in DOMAIN events : j > i => ~ShowsStatus(events[j])

\* Resumptions in a trace are of attempts that exist, and no checkpoint of an
\* earlier attempt follows one.
Fenced(events, last) ==
    /\ \A i \in DOMAIN events : events[i].kind = "resume" => events[i].attempt <= last
    /\ \A i, j \in DOMAIN events :
           i < j /\ events[i].kind = "resume" /\ events[j].kind = "checkpoint" =>
               events[j].attempt >= events[i].attempt

\* A queued run has no attempts, and is the queue's.
Sound(row, rows, ckpt, events) ==
    /\ Lineage(row, rows, ckpt)
    /\ row = NoRow \/ row.status = "queued" => rows = <<>>
    /\ row # NoRow => (row.status = "queued" <=> row.owner = QueueOwner)
    /\ row # NoRow => Shows(events, row.status)
    /\ Fenced(events, Len(rows))

StoreInv ==
    /\ StoreTypeOK
    /\ \A r \in Run : Sound(runs[r], tries[r], checkpoints[r], trace[r])

-----------------------------------------------------------------------------
(* The inductive invariant: the service *)

ChatPc == {"creating", "building", "failing"}
ResumePc == {"reading", "admitting", "sealing"}
Given(r, attempt) == \E i \in DOMAIN delivered[r] : delivered[r][i] = attempt

\* A chat handler works on a run that was not delivered, a resume handler on an
\* attempt that was not.
Serving(v) ==
    /\ v.pc = "idle" => v = IdleHandler
    /\ v.pc # "idle" => v.process \in Process /\ v.run \in Run /\ processes[v.process] # "down"
    /\ v.pc \in ChatPc => v.attempt = 1 /\ delivered[v.run] = <<>>
    /\ v.pc \in {"building", "failing"} => runs[v.run] # NoRow
    /\ v.pc \in ResumePc => v.attempt >= 2 /\ v.attempt <= Len(tries[v.run])
    /\ v.pc \in {"reading", "admitting"} => ~Given(v.run, v.attempt)
    /\ v.pc = "admitting" => v.version > 0

Requests ==
    /\ processes \in [Process -> {"down", "up", "closing"}]
    /\ handlers \in [Handler -> HandlerState]
    /\ \A h \in Handler : Serving(handlers[h])
    /\ \A g, h \in Handler :
           /\ g # h /\ handlers[g].pc # "idle" /\ handlers[h].pc # "idle"
           /\ handlers[g].run = handlers[h].run
           => handlers[g].attempt # handlers[h].attempt

\* Attempts are delivered once they exist; the first one exists with the run.
Deliveries ==
    /\ delivered \in [Run -> Seq(Nat)]
    /\ \A r \in Run :
           /\ runs[r] = NoRow => delivered[r] = <<>>
           /\ delivered[r] = <<>> => tries[r] = <<>>
           /\ \A i \in DOMAIN delivered[r] :
                  delivered[r][i] = 1 \/ delivered[r][i] <= Len(tries[r])
    /\ DeliveredOnce

\* The jobs of a process: slot 0 is the worker's, the others are the queue's.
Slots(p) == (IF workers[p].pc = "idle" THEN {} ELSE {0}) \cup DOMAIN queues[p]
SlotJob(p, i) == IF i = 0 THEN workers[p].job ELSE queues[p][i]
SlotVersion(p, i) == IF i = 0 THEN workers[p].version ELSE queues[p][i].version

\* A job, and the version its attempt has reached: it was delivered, and one
\* that has not written its first checkpoint is of a run that has no attempt row.
Holds(job, version, row, rows, given) ==
    /\ job \in Job
    /\ job.leased => job.version > 0
    /\ job.version <= version
    /\ row # NoRow
    /\ \E i \in DOMAIN given : given[i] = job.attempt
    /\ version = 0 => job.attempt = 1 /\ rows = <<>>
    /\ version > 0 => job.attempt <= Len(rows)
Carries(job, version) ==
    Holds(job, version, runs[job.run], tries[job.run], delivered[job.run])

WorkerStates ==
    /\ queues \in [Process -> Seq(Job)]
    /\ workers \in [Process -> WorkerState]
    /\ \A p \in Process :
           /\ workers[p].pc = "idle" => workers[p] = IdleWorker
           /\ processes[p] # "up" => workers[p] = IdleWorker /\ queues[p] = <<>>
           /\ workers[p].pc = "starting" => workers[p].job.leased
           /\ workers[p].pc = "running" => runs[workers[p].job.run].status # "queued"

Carrying ==
    \A p \in Process : \A i \in Slots(p) : Carries(SlotJob(p, i), SlotVersion(p, i))

\* No attempt is in two slots.
OneSlot ==
    \A p, q \in Process : \A i \in Slots(p), j \in Slots(q) :
        /\ SlotJob(p, i).run = SlotJob(q, j).run
        /\ SlotJob(p, i).attempt = SlotJob(q, j).attempt
        => p = q /\ i = j

Jobs == WorkerStates /\ Carrying /\ OneSlot

Capacity ==
    /\ permits \in [Process -> SUBSET Permit]
    /\ \A p \in Process : IsFiniteSet(permits[p]) /\ IsFiniteSet(Holders(p))
    /\ PermitsConserved

RunInv == StoreInv /\ Requests /\ Deliveries /\ Jobs /\ Capacity

-----------------------------------------------------------------------------
(* Rows and traces *)

\* What every transaction of the stores respects.
Onward ==
    \A r \in Run :
        /\ runs[r] # NoRow =>
               runs'[r] # NoRow /\ (runs[r].status # "queued" => runs'[r].status # "queued")
        /\ Len(tries'[r]) >= Len(tries[r])
Untried == \A r \in Run : tries[r] = <<>> => tries'[r] = <<>>

\* A trace that ends with one more event.
LEMMA ShowsMore ==
    ASSUME NEW events \in Seq(Event), NEW e \in Event
    PROVE  /\ ShowsStatus(e) => Shows(Append(events, e), e.status)
           /\ ~ShowsStatus(e) => \A s : Shows(events, s) => Shows(Append(events, e), s)
  <1> DEFINE all == Append(events, e)
  <1>1. /\ all \in Seq(Event) /\ Len(all) = Len(events) + 1 /\ all[Len(events) + 1] = e
        /\ \A i \in 1..Len(events) : all[i] = events[i]
        /\ DOMAIN all = 1..Len(events) + 1 /\ DOMAIN events = 1..Len(events)
        /\ Len(events) \in Nat
    OBVIOUS
  <1> HIDE DEF all
  <1>2. ASSUME ShowsStatus(e) PROVE Shows(all, e.status)
    <2>1. /\ Len(events) + 1 \in DOMAIN all
          /\ \A j \in DOMAIN all : ~(j > Len(events) + 1)
      BY <1>1
    <2> QED
      BY <1>1, <1>2, <2>1 DEF Shows
  <1>3. ASSUME ~ShowsStatus(e), NEW s, Shows(events, s) PROVE Shows(all, s)
    <2>1. PICK i \in DOMAIN events :
            /\ ShowsStatus(events[i]) /\ events[i].status = s
            /\ \A j \in DOMAIN events : j > i => ~ShowsStatus(events[j])
      BY <1>3 DEF Shows
    <2>2. i \in DOMAIN all /\ ShowsStatus(all[i]) /\ all[i].status = s
      BY <1>1, <2>1
    <2>3. ASSUME NEW j \in DOMAIN all, j > i PROVE ~ShowsStatus(all[j])
      BY <1>1, <1>3, <2>1, <2>3
    <2> QED
      BY <2>2, <2>3 DEF Shows
  <1> QED
    BY <1>2, <1>3 DEF all

LEMMA FencedMore ==
    ASSUME NEW events \in Seq(Event), NEW e \in Event, NEW n \in Nat, NEW m \in Nat, m >= n,
           Fenced(events, n),
           e.kind = "resume" => e.attempt <= m, e.kind = "checkpoint" => e.attempt >= n
    PROVE  Fenced(Append(events, e), m)
  <1> DEFINE all == Append(events, e)
  <1>1. \A d \in Event : d.attempt \in Nat
    BY DEF Event
  <1>2. /\ Len(all) = Len(events) + 1 /\ all[Len(events) + 1] = e
        /\ \A i \in 1..Len(events) : all[i] = events[i] /\ events[i] \in Event
        /\ DOMAIN all = 1..Len(events) + 1 /\ DOMAIN events = 1..Len(events)
        /\ Len(events) \in Nat
    OBVIOUS
  <1> HIDE DEF all
  <1>3. ASSUME NEW i \in DOMAIN all, all[i].kind = "resume" PROVE all[i].attempt <= m
    BY <1>1, <1>2, <1>3 DEF Fenced
  <1>4. ASSUME NEW i \in DOMAIN all, NEW j \in DOMAIN all, i < j,
               all[i].kind = "resume", all[j].kind = "checkpoint"
        PROVE  all[j].attempt >= all[i].attempt
    <2>1. i \in DOMAIN events /\ all[i] = events[i] /\ events[i].attempt <= n
      BY <1>1, <1>2, <1>4 DEF Fenced
    <2>2. CASE j = Len(events) + 1
      BY <1>1, <1>2, <1>4, <2>1, <2>2
    <2>3. CASE j \in DOMAIN events
      BY <1>1, <1>2, <1>4, <2>1, <2>3 DEF Fenced
    <2> QED
      BY <1>2, <2>2, <2>3
  <1> QED
    BY <1>3, <1>4 DEF Fenced, all

\* The events the stores log.
LEMMA EventTypes ==
    /\ \A s \in Status : /\ StateTransition(s) \in Event /\ Terminal(s) \in Event
                         /\ ShowsStatus(StateTransition(s)) /\ ShowsStatus(Terminal(s))
                         /\ StateTransition(s).status = s /\ Terminal(s).status = s
                         /\ StateTransition(s).kind = "state" /\ Terminal(s).kind = "terminal"
    /\ \A n \in Nat : /\ ResumeSummary(n) \in Event /\ CheckpointSummary(n) \in Event
                      /\ Audit(n) \in Event
                      /\ ~ShowsStatus(ResumeSummary(n)) /\ ~ShowsStatus(CheckpointSummary(n))
                      /\ ~ShowsStatus(Audit(n))
                      /\ ResumeSummary(n).kind = "resume" /\ ResumeSummary(n).attempt = n
                      /\ CheckpointSummary(n).kind = "checkpoint"
                      /\ CheckpointSummary(n).attempt = n /\ Audit(n).kind = "audit"
  BY DEF Event, StateTransition, Terminal, ResumeSummary, CheckpointSummary, Audit, ShowsStatus

\* The rows of one run become these.
Becomes(r, row, rows, ckpt, events) ==
    /\ runs' = [runs EXCEPT ![r] = row] /\ tries' = [tries EXCEPT ![r] = rows]
    /\ checkpoints' = [checkpoints EXCEPT ![r] = ckpt]
    /\ trace' = [trace EXCEPT ![r] = events]

LEMMA OneRun ==
    ASSUME StoreInv, NEW r \in Run, NEW row \in RunRow, NEW rows \in Seq(Attempt),
           NEW ckpt \in Checkpoint \cup {NoRow}, NEW events \in Seq(Event),
           Becomes(r, row, rows, ckpt, events), Sound(row, rows, ckpt, events),
           runs[r] # NoRow /\ runs[r].status # "queued" => row.status # "queued",
           Len(rows) >= Len(tries[r])
    PROVE  StoreInv' /\ Onward /\ ((tries[r] = <<>> => rows = <<>>) => Untried)
  <1>1. /\ runs \in [Run -> RunRow \cup {NoRow}] /\ tries \in [Run -> Seq(Attempt)]
        /\ checkpoints \in [Run -> Checkpoint \cup {NoRow}] /\ trace \in [Run -> Seq(Event)]
    BY DEF StoreInv, StoreTypeOK
  <1>2. /\ runs'[r] = row /\ tries'[r] = rows /\ checkpoints'[r] = ckpt /\ trace'[r] = events
        /\ \A s \in Run \ {r} : /\ runs'[s] = runs[s] /\ tries'[s] = tries[s]
                                /\ checkpoints'[s] = checkpoints[s] /\ trace'[s] = trace[s]
    BY <1>1 DEF Becomes
  <1>3. StoreTypeOK'
    BY <1>1 DEF StoreTypeOK, Becomes
  <1>4. ASSUME NEW s \in Run PROVE Sound(runs'[s], tries'[s], checkpoints'[s], trace'[s])
    <2>1. Sound(runs[s], tries[s], checkpoints[s], trace[s])
      BY DEF StoreInv
    <2> QED
      BY <1>2, <2>1
  <1>5. Onward
    <2>1. \A s \in Run : Len(tries[s]) \in Nat
      BY <1>1
    <2> QED
      BY <1>2, <2>1, NoRowAssumption DEF Onward
  <1>6. (tries[r] = <<>> => rows = <<>>) => Untried
    BY <1>2 DEF Untried
  <1> QED
    BY <1>3, <1>4, <1>5, <1>6 DEF StoreInv

LEMMA Concatenations ==
    ASSUME NEW events \in Seq(Event), NEW a \in Event, NEW b \in Event
    PROVE  /\ events \o <<>> = events
           /\ events \o <<a>> = Append(events, a)
           /\ events \o <<a, b>> = Append(Append(events, a), b)
  OBVIOUS

LEMMA RowTypes ==
    ASSUME StoreInv, NEW r \in Run
    PROVE  /\ runs[r] # NoRow => runs[r] \in RunRow
           /\ tries[r] \in Seq(Attempt) /\ Len(tries[r]) \in Nat
           /\ checkpoints[r] \in Checkpoint \cup {NoRow} /\ trace[r] \in Seq(Event)
           /\ runs \in [Run -> RunRow \cup {NoRow}] /\ tries \in [Run -> Seq(Attempt)]
           /\ checkpoints \in [Run -> Checkpoint \cup {NoRow}] /\ trace \in [Run -> Seq(Event)]
           /\ Sound(runs[r], tries[r], checkpoints[r], trace[r])
           /\ checkpoints[r] # NoRow => tries[r] # <<>> /\ runs[r] # NoRow
  <1>1. /\ runs \in [Run -> RunRow \cup {NoRow}] /\ tries \in [Run -> Seq(Attempt)]
        /\ checkpoints \in [Run -> Checkpoint \cup {NoRow}] /\ trace \in [Run -> Seq(Event)]
    BY DEF StoreInv, StoreTypeOK
  <1>2. Sound(runs[r], tries[r], checkpoints[r], trace[r])
    BY DEF StoreInv
  <1>3. checkpoints[r] # NoRow => Len(tries[r]) > 0
    BY <1>1, <1>2 DEF Sound, Lineage, Checkpoint
  <1>4. checkpoints[r] # NoRow => tries[r] # <<>> /\ runs[r] # NoRow
    BY <1>2, <1>3 DEF Sound
  <1> QED
    BY <1>1, <1>2, <1>4

\* The row changes, with one event, and the attempts do not.
LEMMA RowChanges ==
    ASSUME StoreInv, NEW r \in Run, NEW row \in RunRow, NEW e \in Event,
           runs' = [runs EXCEPT ![r] = row], trace' = [trace EXCEPT ![r] = @ \o <<e>>],
           UNCHANGED <<tries, checkpoints>>,
           ShowsStatus(e), e.status = row.status, e.kind \notin {"resume", "checkpoint"},
           row.status = "queued" <=> row.owner = QueueOwner,
           row.status = "queued" => runs[r] = NoRow,
           \/ tries[r] = <<>>
           \/ tries[r][Len(tries[r])].end =
                IF row.status = "interrupted" THEN row.reason ELSE "open"
    PROVE  StoreInv' /\ Onward /\ Untried
  <1> DEFINE all == Append(trace[r], e)
  <1>1. trace' = [trace EXCEPT ![r] = all]
    BY RowTypes, Concatenations
  <1>2. Becomes(r, row, tries[r], checkpoints[r], all)
    BY <1>1, RowTypes DEF Becomes
  <1>3. Shows(all, row.status) /\ all \in Seq(Event)
    BY ShowsMore, RowTypes
  <1>4. Fenced(all, Len(tries[r]))
    BY FencedMore, RowTypes DEF Sound
  <1>5. Lineage(row, tries[r], checkpoints[r])
    BY RowTypes DEF Sound, Lineage
  <1>6. row = NoRow \/ row.status = "queued" => tries[r] = <<>>
    BY NoRowAssumption, RowTypes DEF Sound
  <1> HIDE DEF all
  <1>7. Sound(row, tries[r], checkpoints[r], all)
    BY <1>3, <1>4, <1>5, <1>6 DEF Sound
  <1>8. /\ runs[r] # NoRow /\ runs[r].status # "queued" => row.status # "queued"
        /\ tries[r] \in Seq(Attempt) /\ checkpoints[r] \in Checkpoint \cup {NoRow}
        /\ Len(tries[r]) >= Len(tries[r])
    BY RowTypes
  <1> QED
    BY <1>2, <1>3, <1>7, <1>8, OneRun

-----------------------------------------------------------------------------
(* The transactions of PostgresRunStore *)

LEMMA CreateStores ==
    ASSUME StoreInv, NEW r \in Run, NEW level \in {"L1", "L2"}, Create(r, level)
    PROVE  StoreInv' /\ Onward /\ Untried /\ runs'[r] # NoRow
  <1> DEFINE row == [level |-> level, status |-> "queued", reason |-> "none",
                     owner |-> QueueOwner, lease |-> LeaseTicks]
  <1>1. /\ row \in RunRow /\ row.status = "queued" /\ row.owner = QueueOwner
    BY StoreAssumption DEF RunRow, Status, Active, Reason
  <1>2. /\ runs[r] = NoRow /\ runs' = [runs EXCEPT ![r] = row]
        /\ trace' = [trace EXCEPT ![r] = @ \o <<StateTransition("queued")>>]
        /\ UNCHANGED <<tries, checkpoints>>
    BY DEF Create, Log
  <1> HIDE DEF row
  <1>3. tries[r] = <<>>
    BY <1>2, RowTypes DEF Sound
  <1> DEFINE e == StateTransition("queued")
  <1>4. e \in Event /\ ShowsStatus(e) /\ e.status = "queued" /\ e.kind = "state"
    BY EventTypes DEF Status, Active
  <1> HIDE DEF e
  <1>5. trace' = [trace EXCEPT ![r] = @ \o <<e>>]
    BY <1>2 DEF e
  <1>6. StoreInv' /\ Onward /\ Untried
    BY <1>1, <1>2, <1>3, <1>4, <1>5, RowChanges
  <1> QED
    BY <1>1, <1>2, <1>6, NoRowAssumption, RowTypes

LEMMA ClaimStores ==
    ASSUME StoreInv, NEW r \in Run, Claim(r, WorkerOwner)
    PROVE  StoreInv' /\ Onward /\ Untried /\ runs'[r] # NoRow /\ runs'[r].status # "queued"
  <1> DEFINE row == [runs[r] EXCEPT !.status = "running", !.owner = WorkerOwner,
                                    !.lease = LeaseTicks]
  <1>1. /\ runs[r] \in RunRow /\ runs[r].status = "queued" /\ runs' = [runs EXCEPT ![r] = row]
        /\ trace' = [trace EXCEPT ![r] = @ \o <<StateTransition("running")>>]
        /\ UNCHANGED <<tries, checkpoints>>
    BY RowTypes DEF Claim, Claimable, Log
  <1>2. "running" \in Status /\ LeaseTicks \in 0..LeaseTicks
    BY StoreAssumption DEF Status, Active
  <1>3. row \in RunRow /\ row.status = "running" /\ row.owner = WorkerOwner
    BY <1>1, <1>2 DEF RunRow
  <1> HIDE DEF row
  <1>4. tries[r] = <<>> /\ row.owner # QueueOwner
    BY <1>1, <1>3, RowTypes DEF Sound, WorkerOwner, QueueOwner
  <1> DEFINE e == StateTransition("running")
  <1>5. e \in Event /\ ShowsStatus(e) /\ e.status = "running" /\ e.kind = "state"
    BY <1>2, EventTypes
  <1> HIDE DEF e
  <1>6. trace' = [trace EXCEPT ![r] = @ \o <<e>>]
    BY <1>1 DEF e
  <1>7. StoreInv' /\ Onward /\ Untried
    BY <1>1, <1>3, <1>4, <1>5, <1>6, RowChanges
  <1> QED
    BY <1>1, <1>3, <1>7, NoRowAssumption, RowTypes

\* Nothing but the lease changes.
LEMMA SoundLease ==
    ASSUME StoreInv, NEW r \in Run, runs[r] # NoRow, NEW n \in 0..LeaseTicks
    PROVE  /\ [runs[r] EXCEPT !.lease = n] \in RunRow
           /\ [runs[r] EXCEPT !.lease = n].status = runs[r].status
           /\ [runs[r] EXCEPT !.lease = n].reason = runs[r].reason
           /\ Sound([runs[r] EXCEPT !.lease = n], tries[r], checkpoints[r], trace[r])
  <1> DEFINE row == [runs[r] EXCEPT !.lease = n]
  <1>1. /\ row \in RunRow /\ row.status = runs[r].status /\ row.reason = runs[r].reason
        /\ row.owner = runs[r].owner
    BY RowTypes DEF RunRow
  <1> HIDE DEF row
  <1>2. row # NoRow
    BY <1>1, NoRowAssumption
  <1>3. Sound(row, tries[r], checkpoints[r], trace[r])
    BY <1>1, <1>2, RowTypes DEF Sound, Lineage
  <1> QED
    BY <1>1, <1>3 DEF row

LEMMA HeartbeatStores ==
    ASSUME StoreInv, NEW r \in Run, Heartbeat(r, WorkerOwner)
    PROVE  StoreInv' /\ Onward /\ Untried
  <1> DEFINE row == [runs[r] EXCEPT !.lease = LeaseTicks]
  <1>1. runs[r] # NoRow /\ UNCHANGED <<tries, checkpoints, trace>>
    BY DEF Heartbeat, Leased
  <1>2. Becomes(r, row, tries[r], checkpoints[r], trace[r])
    BY <1>1, RowTypes DEF Heartbeat, Becomes
  <1>3. LeaseTicks \in 0..LeaseTicks
    BY StoreAssumption
  <1>4. /\ row \in RunRow /\ row.status = runs[r].status
        /\ Sound(row, tries[r], checkpoints[r], trace[r])
    BY <1>1, <1>3, SoundLease
  <1>5. /\ tries[r] \in Seq(Attempt) /\ checkpoints[r] \in Checkpoint \cup {NoRow}
        /\ Len(tries[r]) >= Len(tries[r]) /\ trace[r] \in Seq(Event)
    BY RowTypes
  <1> HIDE DEF row
  <1> QED
    BY <1>2, <1>4, <1>5, OneRun

\* append, append_many_once and reconcile_l2_egress, of events that are no status.
LEMMA AppendStores ==
    ASSUME StoreInv, NEW r \in Run, NEW events, NEW n \in Nat,
           AppendEvents(r, WorkerOwner, events), events = <<>> \/ events = <<Audit(n)>>
    PROVE  StoreInv' /\ Onward /\ Untried
  <1> DEFINE e == Audit(n)
             all == IF events = <<>> THEN trace[r] ELSE Append(trace[r], e)
  <1>1. /\ runs[r] \in RunRow /\ UNCHANGED <<runs, tries, checkpoints>>
        /\ trace' = [trace EXCEPT ![r] = @ \o events]
    BY RowTypes DEF AppendEvents, Leased, Log
  <1>2. e \in Event /\ ~ShowsStatus(e) /\ e.kind = "audit"
    BY EventTypes
  <1>3. events = <<>> \/ events = <<e>>
    OBVIOUS
  <1> HIDE DEF e
  <1>4. trace[r] \o events = all /\ all \in Seq(Event)
    <2>1. trace[r] \in Seq(Event)
      BY RowTypes
    <2>2. trace[r] \o <<>> = trace[r] /\ trace[r] \o <<e>> = Append(trace[r], e)
      BY <1>2, <2>1, Concatenations
    <2>3. CASE events = <<>>
      BY <2>1, <2>2, <2>3
    <2>4. CASE events = <<e>>
      BY <1>2, <2>1, <2>2, <2>4
    <2> QED
      BY <1>3, <2>3, <2>4
  <1>5. Becomes(r, runs[r], tries[r], checkpoints[r], all)
    BY <1>1, <1>4, RowTypes DEF Becomes
  <1>6. Sound(runs[r], tries[r], checkpoints[r], all)
    <2>1. Shows(Append(trace[r], e), runs[r].status)
      BY <1>1, <1>2, ShowsMore, RowTypes, NoRowAssumption DEF Sound
    <2>2. Fenced(Append(trace[r], e), Len(tries[r]))
      <3>1. /\ trace[r] \in Seq(Event) /\ Len(tries[r]) \in Nat /\ Fenced(trace[r], Len(tries[r]))
            /\ Len(tries[r]) >= Len(tries[r])
        BY RowTypes DEF Sound
      <3> QED
        BY <1>2, <3>1, FencedMore
    <2>3. Sound(runs[r], tries[r], checkpoints[r], trace[r])
      BY RowTypes
    <2>4. CASE events = <<>>
      BY <2>3, <2>4
    <2>5. CASE events # <<>>
      BY <2>1, <2>2, <2>3, <2>5 DEF Sound
    <2> QED
      BY <2>4, <2>5
  <1>7. /\ tries[r] \in Seq(Attempt) /\ checkpoints[r] \in Checkpoint \cup {NoRow}
        /\ Len(tries[r]) >= Len(tries[r])
    BY RowTypes
  <1> HIDE DEF all
  <1> QED
    BY <1>1, <1>4, <1>5, <1>6, <1>7, OneRun

\* The terminal row.
LEMMA ClosedRow ==
    ASSUME NEW row \in RunRow, NEW s \in Status, NEW reason \in Reason
    PROVE  /\ Closed(row, s, reason) \in RunRow /\ Closed(row, s, reason).status = s
           /\ Closed(row, s, reason).reason = reason
           /\ Closed(row, s, reason).owner = "none" /\ Closed(row, s, reason).lease = 0
           /\ Closed(row, s, reason).level = row.level
  <1>1. 0 \in 0..LeaseTicks
    BY StoreAssumption
  <1> DEFINE a == [row EXCEPT !.status = s]
             b == [a EXCEPT !.reason = reason]
             c == [b EXCEPT !.owner = "none"]
             d == [c EXCEPT !.lease = 0]
  <1>2. a \in RunRow /\ a.status = s /\ a.level = row.level
    BY DEF RunRow
  <1> HIDE DEF a
  <1>3. b \in RunRow /\ b.status = s /\ b.level = row.level /\ b.reason = reason
    BY <1>2 DEF RunRow
  <1> HIDE DEF b
  <1>4. /\ c \in RunRow /\ c.status = s /\ c.level = row.level /\ c.reason = reason
        /\ c.owner = "none"
    BY <1>3 DEF RunRow
  <1> HIDE DEF c
  <1>5. /\ d \in RunRow /\ d.status = s /\ d.level = row.level /\ d.reason = reason
        /\ d.owner = "none" /\ d.lease = 0
    BY <1>1, <1>4 DEF RunRow
  <1> HIDE DEF d
  <1>6. d = Closed(row, s, reason)
    BY DEF a, b, c, d, Closed
  <1> QED
    BY <1>5, <1>6

LEMMA CompleteStores ==
    ASSUME StoreInv, NEW r \in Run, NEW s \in Outcome, Complete(r, WorkerOwner, s, "none")
    PROVE  StoreInv' /\ Onward /\ Untried
  <1> DEFINE row == Closed(runs[r], s, "none")
             e == Terminal(s)
  <1>1. /\ runs[r] \in RunRow /\ runs[r].status \in Active /\ runs[r].owner = WorkerOwner
        /\ runs' = [runs EXCEPT ![r] = row] /\ trace' = [trace EXCEPT ![r] = @ \o <<e>>]
        /\ UNCHANGED <<tries, checkpoints>>
    BY RowTypes DEF Complete, Completable, Log
  <1>2. s \in Status /\ "none" \in Reason /\ s \notin {"queued", "running", "interrupted"}
    BY StoreAssumption DEF Status, Reason, Active
  <1>3. row \in RunRow /\ row.status = s /\ row.owner = "none"
    BY <1>1, <1>2, ClosedRow
  <1>4. e \in Event /\ ShowsStatus(e) /\ e.status = s /\ e.kind = "terminal"
    BY <1>2, EventTypes
  <1> HIDE DEF row, e
  <1>5. runs[r].status = "running"
    BY <1>1, RowTypes, NoRowAssumption DEF Sound, Active, WorkerOwner, QueueOwner
  <1>6. tries[r] = <<>> \/ tries[r][Len(tries[r])].end = "open"
    BY <1>5, RowTypes DEF Sound, Lineage
  <1>7. row.owner # QueueOwner
    BY <1>3 DEF QueueOwner
  <1> QED
    BY <1>1, <1>2, <1>3, <1>4, <1>6, <1>7, RowChanges

LEMMA FailDeliveryStores ==
    ASSUME StoreInv, NEW r \in Run, FailDelivery(r)
    PROVE  StoreInv' /\ Onward /\ Untried
  <1> DEFINE row == Closed(runs[r], "interrupted", "queue_delivery_failed")
             e == Terminal("interrupted")
  <1>1. /\ runs[r] \in RunRow /\ runs[r].owner = QueueOwner
        /\ runs' = [runs EXCEPT ![r] = row] /\ trace' = [trace EXCEPT ![r] = @ \o <<e>>]
        /\ UNCHANGED <<tries, checkpoints>>
    BY RowTypes DEF FailDelivery, Complete, Completable, Log
  <1>2. "interrupted" \in Status /\ "queue_delivery_failed" \in Reason
    BY DEF Status, Reason
  <1>3. row \in RunRow /\ row.status = "interrupted" /\ row.owner = "none"
    BY <1>1, <1>2, ClosedRow
  <1>4. e \in Event /\ ShowsStatus(e) /\ e.status = "interrupted" /\ e.kind = "terminal"
    BY <1>2, EventTypes
  <1> HIDE DEF row, e
  <1>5. tries[r] = <<>> /\ row.owner # QueueOwner
    BY <1>1, <1>3, RowTypes, NoRowAssumption DEF Sound, QueueOwner
  <1> QED
    BY <1>1, <1>3, <1>4, <1>5, RowChanges

\* Only the last attempt can be open.
LEMMA CloseOpenClosesLast ==
    ASSUME NEW row \in RunRow, NEW rows \in Seq(Attempt), NEW ckpt, NEW closed \in RunRow,
           Lineage(row, rows, ckpt), row.status # "interrupted",
           closed.status = "interrupted", closed.reason = "lease_expired"
    PROVE  /\ CloseOpen(rows, "lease_expired") \in Seq(Attempt)
           /\ Len(CloseOpen(rows, "lease_expired")) = Len(rows)
           /\ Lineage(closed, CloseOpen(rows, "lease_expired"), ckpt)
  <1> DEFINE new == CloseOpen(rows, "lease_expired")
  <1>1. DOMAIN rows = 1..Len(rows) /\ Len(rows) \in Nat /\ \A n \in 1..Len(rows) : rows[n] \in Attempt
    OBVIOUS
  <1>2. "lease_expired" \in {"open"} \cup Reason
    BY DEF Reason
  <1>3. /\ DOMAIN new = 1..Len(rows)
        /\ \A n \in 1..Len(rows) :
               new[n] = IF rows[n].end = "open" THEN [rows[n] EXCEPT !.end = "lease_expired"] ELSE rows[n]
    BY <1>1 DEF CloseOpen
  <1>4. \A n \in 1..Len(rows) :
            /\ new[n] \in Attempt /\ new[n].key = rows[n].key
            /\ rows[n].end = "open" => new[n].end = "lease_expired"
            /\ rows[n].end # "open" => new[n].end = rows[n].end
    BY <1>1, <1>2, <1>3 DEF Attempt
  <1>5. new = [n \in 1..Len(rows) |-> new[n]]
    BY <1>1 DEF CloseOpen
  <1> HIDE DEF new
  <1>6. new \in Seq(Attempt) /\ Len(new) = Len(rows)
    BY <1>1, <1>3, <1>4, <1>5
  <1>7. Lineage(closed, new, ckpt)
    BY <1>1, <1>4, <1>6 DEF Lineage
  <1> QED
    BY <1>6, <1>7 DEF new

LEMMA ReconcileStores ==
    ASSUME StoreInv, NEW S, \A r \in S : r \in Run /\ Expired(r), ReconcileExpired(S)
    PROVE  StoreInv' /\ Onward /\ Untried
  <1> DEFINE row(r) == Closed(runs[r], "interrupted", "lease_expired")
             rows(r) == CloseOpen(tries[r], "lease_expired")
             e == Terminal("interrupted")
  <1>1. "interrupted" \in Status /\ "lease_expired" \in Reason
    BY DEF Status, Reason
  <1>2. e \in Event /\ ShowsStatus(e) /\ e.status = "interrupted" /\ e.kind = "terminal"
    BY <1>1, EventTypes
  <1> HIDE DEF e
  <1>3. ASSUME NEW r \in S
        PROVE  r \in Run /\ runs[r] \in RunRow /\ runs[r] # NoRow /\ runs[r].status # "interrupted"
    <2>1. r \in Run /\ Expired(r)
      OBVIOUS
    <2>2. runs[r] # NoRow /\ runs[r].status # "interrupted"
      BY <2>1 DEF Expired, Active
    <2> QED
      BY <2>1, <2>2, RowTypes
  <1>4. ASSUME NEW r \in S
        PROVE  /\ row(r) \in RunRow /\ row(r).status = "interrupted" /\ row(r) # NoRow
               /\ rows(r) \in Seq(Attempt) /\ Len(rows(r)) = Len(tries[r])
               /\ Append(trace[r], e) \in Seq(Event)
               /\ Sound(row(r), rows(r), checkpoints[r], Append(trace[r], e))
    <2>1. /\ r \in Run /\ runs[r] # NoRow /\ runs[r] \in RunRow /\ runs[r].status # "interrupted"
      BY <1>3
    <2>2. /\ tries[r] \in Seq(Attempt) /\ Len(tries[r]) \in Nat /\ trace[r] \in Seq(Event)
          /\ Sound(runs[r], tries[r], checkpoints[r], trace[r])
      BY <2>1, RowTypes
    <2>3. /\ row(r) \in RunRow /\ row(r).status = "interrupted" /\ row(r).owner = "none"
          /\ row(r).reason = "lease_expired" /\ row(r) # NoRow
      BY <1>1, <2>1, ClosedRow, NoRowAssumption
    <2> HIDE DEF row
    <2>4. Lineage(runs[r], tries[r], checkpoints[r]) /\ Fenced(trace[r], Len(tries[r]))
      BY <2>2 DEF Sound
    <2>5. /\ rows(r) \in Seq(Attempt) /\ Len(rows(r)) = Len(tries[r])
          /\ Lineage(row(r), rows(r), checkpoints[r])
      BY <2>1, <2>2, <2>3, <2>4, CloseOpenClosesLast
    <2>6. Append(trace[r], e) \in Seq(Event) /\ Shows(Append(trace[r], e), "interrupted")
      BY <1>2, <2>2, ShowsMore
    <2>7. Len(tries[r]) >= Len(tries[r])
      BY <2>2
    <2>8. Fenced(Append(trace[r], e), Len(tries[r]))
      BY <1>2, <2>2, <2>4, <2>7, FencedMore
    <2> HIDE DEF rows
    <2>9. Sound(row(r), rows(r), checkpoints[r], Append(trace[r], e))
      BY <2>3, <2>5, <2>6, <2>8 DEF Sound, QueueOwner
    <2> QED
      BY <2>3, <2>5, <2>6, <2>9
  <1>5. /\ runs' = [r \in Run |-> IF r \in S THEN row(r) ELSE runs[r]]
        /\ tries' = [r \in Run |-> IF r \in S THEN rows(r) ELSE tries[r]]
        /\ trace' = [r \in Run |-> IF r \in S THEN Append(trace[r], e) ELSE trace[r]]
        /\ checkpoints' = checkpoints
    BY DEF ReconcileExpired, e
  <1> HIDE DEF row, rows
  <1>6. StoreTypeOK'
    BY <1>4, <1>5, RowTypes DEF StoreInv, StoreTypeOK
  <1>7. ASSUME NEW r \in Run
        PROVE  /\ Sound(runs'[r], tries'[r], checkpoints'[r], trace'[r])
               /\ runs[r] # NoRow => runs'[r] # NoRow
                                     /\ (runs[r].status # "queued" => runs'[r].status # "queued")
               /\ Len(tries'[r]) = Len(tries[r])
    <2>1. CASE r \in S
      BY <1>4, <1>5, <2>1
    <2>2. CASE r \notin S
      BY <1>5, <2>2, RowTypes
    <2> QED
      BY <2>1, <2>2
  <1>8. \A r \in Run : tries'[r] \in Seq(Attempt) /\ tries[r] \in Seq(Attempt)
    BY <1>6, RowTypes DEF StoreTypeOK
  <1>9. Onward
    BY <1>7, <1>8 DEF Onward
  <1>10. Untried
    BY <1>7, <1>8 DEF Untried
  <1> QED
    BY <1>6, <1>7, <1>9, <1>10 DEF StoreInv

-----------------------------------------------------------------------------
(* The transactions of PostgresCheckpointStore, and time *)

LEMMA DeleteStores ==
    ASSUME StoreInv, NEW r \in Run, DeleteExpired(r)
    PROVE  StoreInv' /\ Onward /\ Untried
  <1>1. checkpoints[r] # NoRow /\ UNCHANGED <<runs, tries, trace>>
    BY DEF DeleteExpired
  <1>2. /\ runs[r] \in RunRow /\ tries[r] \in Seq(Attempt) /\ trace[r] \in Seq(Event)
        /\ NoRow \in Checkpoint \cup {NoRow} /\ Len(tries[r]) >= Len(tries[r])
    BY <1>1, RowTypes
  <1>3. Becomes(r, runs[r], tries[r], NoRow, trace[r])
    BY <1>1, RowTypes DEF DeleteExpired, Becomes
  <1>4. Sound(runs[r], tries[r], NoRow, trace[r])
    BY RowTypes DEF Sound, Lineage
  <1> QED
    BY <1>2, <1>3, <1>4, OneRun

LEMMA ElapseStores ==
    ASSUME StoreInv, Elapse
    PROVE  StoreInv' /\ Onward /\ Untried
  <1> DEFINE n(r) == runs[r].lease - 1
             row(r) == [runs[r] EXCEPT !.lease = n(r)]
             ticks(r) == runs[r] # NoRow /\ runs[r].lease > 0
  <1>1. /\ runs' = [r \in Run |-> IF ticks(r) THEN row(r) ELSE runs[r]]
        /\ UNCHANGED <<tries, checkpoints, trace>>
    BY DEF Elapse
  <1>2. ASSUME NEW r \in Run, ticks(r)
        PROVE  /\ row(r) \in RunRow /\ row(r).status = runs[r].status /\ row(r) # NoRow
               /\ Sound(row(r), tries[r], checkpoints[r], trace[r])
    <2>1. runs[r] # NoRow /\ runs[r] \in RunRow
      BY <1>2, RowTypes
    <2>2. n(r) \in 0..LeaseTicks
      BY <1>2, <2>1, StoreAssumption DEF RunRow
    <2> HIDE DEF n
    <2>3. /\ row(r) \in RunRow /\ row(r).status = runs[r].status
          /\ Sound(row(r), tries[r], checkpoints[r], trace[r])
      BY <2>1, <2>2, SoundLease
    <2> HIDE DEF row
    <2> QED
      BY <2>3, NoRowAssumption
  <1> HIDE DEF row, ticks
  <1>3. \A r \in Run : /\ runs'[r] = IF ticks(r) THEN row(r) ELSE runs[r]
                       /\ tries'[r] = tries[r] /\ Len(tries[r]) \in Nat
                       /\ Sound(runs[r], tries[r], checkpoints[r], trace[r])
    BY <1>1, RowTypes
  <1>4. StoreTypeOK'
    BY <1>1, <1>2 DEF StoreInv, StoreTypeOK
  <1>5. \A r \in Run : Sound(runs'[r], tries'[r], checkpoints'[r], trace'[r])
    BY <1>1, <1>2, <1>3
  <1>6. Onward /\ Untried
    BY <1>2, <1>3 DEF Onward, Untried
  <1> QED
    BY <1>4, <1>5, <1>6 DEF StoreInv

LEMMA StoreStays ==
    ASSUME StoreInv, UNCHANGED storeVars
    PROVE  StoreInv' /\ Onward /\ Untried
  <1>1. runs' = runs /\ tries' = tries /\ checkpoints' = checkpoints /\ trace' = trace
    BY DEF storeVars
  <1>2. \A r \in Run : Len(tries[r]) \in Nat
    BY RowTypes
  <1> QED
    BY <1>1, <1>2 DEF StoreInv, StoreTypeOK, Onward, Untried

\* A write: the attempt that writes is the latest one, and the first write of a
\* run adds it.
LEMMA WriteStores ==
    ASSUME StoreInv, NEW r \in Run, NEW previous \in Nat, NEW attempt \in Nat \ {0},
           NEW completed \in BOOLEAN, Write(r, previous, attempt, completed),
           previous = 0 => tries[r] = <<>>, runs[r].status # "queued"
    PROVE  /\ StoreInv' /\ Onward
           /\ attempt <= Len(tries'[r]) /\ tries'[r] # <<>>
           /\ \A s \in Run \ {r} : tries'[s] = tries[s]
           /\ previous > 0 => Untried
           /\ runs' = runs
  <1> DEFINE ckpt == [version |-> previous + 1, attempt |-> attempt, completed |-> completed]
             e == CheckpointSummary(attempt)
             all == Append(trace[r], e)
             one == FirstAttempt(runs[r])
             rows == IF previous = 0 THEN <<one>> ELSE tries[r]
  <1>1. /\ runs[r] # NoRow /\ runs[r] \in RunRow /\ tries[r] \in Seq(Attempt) /\ trace[r] \in Seq(Event)
        /\ Len(tries[r]) \in Nat /\ checkpoints[r] \in Checkpoint \cup {NoRow}
        /\ Sound(runs[r], tries[r], checkpoints[r], trace[r])
    BY RowTypes DEF Write, WriteAdmits
  <1>2. /\ runs' = runs
        /\ checkpoints' = [checkpoints EXCEPT ![r] = ckpt]
        /\ trace' = [trace EXCEPT ![r] = @ \o <<e>>]
        /\ tries' = IF previous = 0 THEN [tries EXCEPT ![r] = <<one>>] ELSE tries
    BY DEF Write, Log
  <1>3. ckpt \in Checkpoint /\ ckpt.attempt = attempt
    BY DEF Checkpoint
  <1>4. e \in Event /\ ~ShowsStatus(e) /\ e.kind = "checkpoint" /\ e.attempt = attempt
    BY EventTypes
  <1>5. one \in Attempt /\ one.end = IF runs[r].status = "interrupted" THEN runs[r].reason ELSE "open"
    BY <1>1 DEF Attempt, FirstAttempt, RunRow
  <1>6. previous = 0 => attempt = 1
    BY DEF Write, WriteAdmits
  <1>7. previous # 0 => attempt = Len(tries[r]) /\ checkpoints[r] # NoRow
    <2>1. previous # 0 => checkpoints[r] # NoRow /\ attempt = checkpoints[r].attempt
      BY DEF Write, WriteAdmits, Version
    <2> QED
      BY <1>1, <2>1 DEF Sound, Lineage
  <1> HIDE DEF ckpt, e, one
  <1>8. trace' = [trace EXCEPT ![r] = all] /\ all \in Seq(Event)
    <2>1. trace[r] \o <<e>> = all /\ all \in Seq(Event)
      BY <1>1, <1>4, Concatenations
    <2> QED
      BY <1>2, <2>1
  <1>9. /\ rows \in Seq(Attempt) /\ Len(rows) = attempt
        /\ Len(rows) >= Len(tries[r]) /\ rows # <<>> /\ Len(tries[r]) <= attempt
    BY <1>1, <1>5, <1>6, <1>7
  <1>10. Becomes(r, runs[r], rows, ckpt, all)
    BY <1>2, <1>8, RowTypes DEF Becomes
  <1>11. Lineage(runs[r], rows, ckpt)
    <2>1. CASE previous = 0
      <3>1. rows = <<one>> /\ Len(rows) = 1 /\ rows[1] = one
        BY <2>1
      <3> HIDE DEF rows
      <3> QED
        BY <1>3, <1>5, <1>6, <2>1, <3>1 DEF Lineage
    <2>2. CASE previous # 0
      BY <1>1, <1>3, <1>7, <2>2 DEF Sound, Lineage
    <2> QED
      BY <2>1, <2>2
  <1>12. Shows(all, runs[r].status)
    BY <1>1, <1>4, ShowsMore DEF Sound
  <1>13. Fenced(all, Len(rows))
    <2>1. Fenced(trace[r], Len(tries[r])) /\ Len(rows) \in Nat /\ attempt >= Len(tries[r])
      BY <1>1, <1>9 DEF Sound
    <2> HIDE DEF rows
    <2> QED
      BY <1>1, <1>4, <1>9, <2>1, FencedMore
  <1> HIDE DEF rows, all
  <1>14. Sound(runs[r], rows, ckpt, all)
    BY <1>1, <1>11, <1>12, <1>13 DEF Sound
  <1>15. StoreInv' /\ Onward /\ ((tries[r] = <<>> => rows = <<>>) => Untried)
    BY <1>1, <1>3, <1>8, <1>9, <1>10, <1>14, OneRun
  <1>16. tries'[r] = rows /\ \A s \in Run \ {r} : tries'[s] = tries[s]
    BY <1>10, RowTypes DEF Becomes
  <1>17. previous > 0 => tries[r] # <<>>
    BY <1>1, <1>7, RowTypes
  <1>18. attempt <= Len(tries'[r]) /\ tries'[r] # <<>>
    BY <1>9, <1>16
  <1>19. previous > 0 => Untried
    BY <1>15, <1>17
  <1> QED
    BY <1>2, <1>15, <1>16, <1>18, <1>19

\* What begin_resume finds when it acquires a new attempt.
LEMMA Acquired ==
    ASSUME StoreInv, NEW r \in Run, NEW k \in Key, Disposition(r, k, TRUE) = "acquired"
    PROVE  /\ runs[r] # NoRow /\ checkpoints[r] # NoRow
           /\ runs[r].status = "interrupted" /\ runs[r].reason = "lease_expired"
           /\ Replays(r, k) = {}
  BY DEF Disposition, Active

\* Two more events, the first of which shows the status.
LEMMA TwoEvents ==
    ASSUME NEW events \in Seq(Event), NEW a \in Event, NEW b \in Event,
           NEW n \in Nat, NEW m \in Nat, m >= n, Fenced(events, n),
           ShowsStatus(a), a.kind \notin {"resume", "checkpoint"},
           ShowsStatus(b) => b.status = a.status,
           b.kind = "resume" => b.attempt <= m, b.kind # "checkpoint"
    PROVE  LET all == Append(Append(events, a), b)
           IN  all \in Seq(Event) /\ Shows(all, a.status) /\ Fenced(all, m)
  <1> DEFINE one == Append(events, a)
             all == Append(one, b)
  <1>1. n >= n
    OBVIOUS
  <1>2. one \in Seq(Event) /\ Shows(one, a.status) /\ Fenced(one, n)
    BY <1>1, ShowsMore, FencedMore
  <1> HIDE DEF one
  <1>3. all \in Seq(Event) /\ Fenced(all, m)
    BY <1>2, FencedMore
  <1>4. Shows(all, a.status)
    BY <1>2, ShowsMore
  <1> QED
    BY <1>3, <1>4 DEF one

LEMMA ResumeStores ==
    ASSUME StoreInv, NEW r \in Run, NEW k \in Key, BeginResume(r, k, WorkerOwner, TRUE)
    PROVE  /\ StoreInv' /\ Onward /\ Untried
           /\ runs[r] # NoRow /\ Len(tries[r]) >= 1 /\ Len(tries'[r]) = Len(tries[r]) + 1
  <1> DEFINE last == Len(tries[r])
             row == [runs[r] EXCEPT !.status = "running", !.reason = "none",
                                    !.owner = WorkerOwner, !.lease = LeaseTicks]
             new == [key |-> k, end |-> "open"]
             rows == Append(tries[r], new)
             moved == [checkpoints[r] EXCEPT !.attempt = last + 1]
             ckpt == [moved EXCEPT !.version = checkpoints[r].version + 1]
             a == StateTransition("running")
             b == ResumeSummary(last + 1)
             all == Append(Append(trace[r], a), b)
  <1>1. /\ runs[r] # NoRow /\ checkpoints[r] # NoRow
        /\ runs[r].status = "interrupted" /\ runs[r].reason = "lease_expired"
        /\ Replays(r, k) = {}
    BY Acquired DEF BeginResume
  <1>2. /\ runs[r] \in RunRow /\ checkpoints[r] \in Checkpoint /\ trace[r] \in Seq(Event)
        /\ tries[r] \in Seq(Attempt) /\ last \in Nat /\ tries[r] # <<>>
        /\ Sound(runs[r], tries[r], checkpoints[r], trace[r])
    BY <1>1, RowTypes
  <1>3. last >= 1
    BY <1>2
  <1>4. /\ runs' = [runs EXCEPT ![r] = row] /\ tries' = [tries EXCEPT ![r] = rows]
        /\ checkpoints' = [checkpoints EXCEPT ![r] = ckpt]
        /\ trace' = [trace EXCEPT ![r] = @ \o <<a, b>>]
    <2>1. /\ runs' = [runs EXCEPT ![r] = row] /\ tries' = [tries EXCEPT ![r] = rows]
          /\ trace' = [trace EXCEPT ![r] = @ \o <<a, b>>]
      BY DEF BeginResume, Log
    <2>2. checkpoints' = [checkpoints EXCEPT ![r].attempt = last + 1, ![r].version = @ + 1]
      BY DEF BeginResume
    <2>3. checkpoints' = [checkpoints EXCEPT ![r] = ckpt]
      BY <1>2, <2>2, RowTypes DEF Checkpoint
    <2> QED
      BY <2>1, <2>3
  <1>5. row \in RunRow /\ row.status = "running" /\ row.owner = WorkerOwner /\ row # NoRow
    <2> DEFINE c == [runs[r] EXCEPT !.status = "running", !.reason = "none"]
               d == [c EXCEPT !.owner = WorkerOwner, !.lease = LeaseTicks]
    <2>1. "running" \in Status /\ "none" \in Reason /\ LeaseTicks \in 0..LeaseTicks
      BY StoreAssumption DEF Status, Active, Reason
    <2>2. c \in RunRow /\ c.status = "running"
      BY <1>2, <2>1 DEF RunRow
    <2> HIDE DEF c
    <2>3. d \in RunRow /\ d.status = "running" /\ d.owner = WorkerOwner
      BY <2>1, <2>2 DEF RunRow
    <2> HIDE DEF d
    <2>4. d = row
      BY DEF c, d
    <2> QED
      BY <2>3, <2>4, NoRowAssumption
  <1>6. new \in Attempt /\ new.key = k /\ new.end = "open"
    BY DEF Attempt
  <1>7. ckpt \in Checkpoint /\ ckpt.attempt = last + 1
    <2>1. last + 1 \in Nat \ {0} /\ checkpoints[r].version + 1 \in Nat \ {0}
      BY <1>2, <1>3 DEF Checkpoint
    <2>2. moved \in Checkpoint /\ moved.attempt = last + 1
      BY <1>2, <2>1 DEF Checkpoint
    <2> HIDE DEF moved
    <2> QED
      BY <2>1, <2>2 DEF Checkpoint
  <1>8. /\ a \in Event /\ ShowsStatus(a) /\ a.status = "running" /\ a.kind = "state"
        /\ b \in Event /\ ~ShowsStatus(b) /\ b.kind = "resume" /\ b.attempt = last + 1
    BY <1>2, EventTypes DEF Status, Active
  <1> HIDE DEF row, new, ckpt, a, b
  <1>9. /\ rows \in Seq(Attempt) /\ Len(rows) = last + 1 /\ rows[last + 1] = new
        /\ \A n \in 1..last : rows[n] = tries[r][n]
    BY <1>2, <1>6
  <1> HIDE DEF rows
  <1>10. Lineage(row, rows, ckpt)
    <2>1. \A n \in 1..last : tries[r][n].end = "lease_expired" /\ tries[r][n].key # k
      <3>1. \A n \in 1..last : tries[r][n].key # k
        BY <1>1, <1>2 DEF Replays
      <3> QED
        BY <1>1, <1>2, <3>1 DEF Sound, Lineage
    <2>2. \A m, n \in 1..last : tries[r][m].key = tries[r][n].key => m = n
      BY <1>2 DEF Sound, Lineage
    <2>3. \A m, n \in 1..Len(rows) : rows[m].key = rows[n].key => m = n
      <3>1. SUFFICES ASSUME NEW m \in 1..last + 1, NEW n \in 1..last + 1, rows[m].key = rows[n].key
                     PROVE  m = n
        BY <1>9
      <3>2. CASE m = last + 1
        BY <1>2, <1>6, <1>9, <2>1, <3>1, <3>2
      <3>3. CASE n = last + 1
        BY <1>2, <1>6, <1>9, <2>1, <3>1, <3>3
      <3>4. CASE m \in 1..last /\ n \in 1..last
        BY <1>9, <2>2, <3>1, <3>4
      <3> QED
        BY <1>2, <3>2, <3>3, <3>4
    <2>4. \A n \in 1..Len(rows) - 1 : rows[n].end = "lease_expired"
      BY <1>2, <1>9, <2>1
    <2> QED
      BY <1>2, <1>5, <1>6, <1>7, <1>9, <2>3, <2>4 DEF Lineage
  <1>11. all \in Seq(Event) /\ Shows(all, "running") /\ Fenced(all, last + 1)
    <2>1. last + 1 \in Nat /\ last + 1 >= last /\ Fenced(trace[r], last) /\ b.attempt <= last + 1
      BY <1>2, <1>8 DEF Sound
    <2> QED
      BY <1>2, <1>8, <2>1, TwoEvents
  <1>12. trace' = [trace EXCEPT ![r] = all]
    <2>1. trace[r] \o <<a, b>> = all
      BY <1>2, <1>8, Concatenations
    <2> QED
      BY <1>4, <2>1
  <1> HIDE DEF all
  <1>13. Becomes(r, row, rows, ckpt, all)
    BY <1>4, <1>12 DEF Becomes
  <1>14. Sound(row, rows, ckpt, all)
    BY <1>5, <1>9, <1>10, <1>11 DEF Sound, WorkerOwner, QueueOwner
  <1>15. ckpt \in Checkpoint \cup {NoRow} /\ Len(rows) >= Len(tries[r])
    BY <1>2, <1>7, <1>9
  <1>16. StoreInv' /\ Onward /\ ((tries[r] = <<>> => rows = <<>>) => Untried)
    BY <1>5, <1>9, <1>11, <1>13, <1>14, <1>15, OneRun
  <1>17. tries'[r] = rows
    BY <1>4, RowTypes
  <1> QED
    BY <1>1, <1>2, <1>3, <1>9, <1>16, <1>17

LEMMA SealStores ==
    ASSUME StoreInv, NEW r \in Run, NEW n \in Nat, FailResumeDelivery(r, n, WorkerOwner)
    PROVE  StoreInv' /\ Onward /\ Untried
  <1> DEFINE row == Closed(runs[r], "interrupted", "queue_delivery_failed")
             rows == [tries[r] EXCEPT ![n].end = "queue_delivery_failed"]
             a == StateTransition("interrupted")
             b == Terminal("interrupted")
             all == Append(Append(trace[r], a), b)
  <1>1. /\ runs[r].status = "running" /\ n \in DOMAIN tries[r]
        /\ checkpoints[r] # NoRow /\ checkpoints[r].attempt = n
        /\ runs' = [runs EXCEPT ![r] = row]
        /\ trace' = [trace EXCEPT ![r] = @ \o <<a, b>>] /\ checkpoints' = checkpoints
        /\ tries' = [tries EXCEPT ![r][n].end = "queue_delivery_failed"]
    BY DEF FailResumeDelivery, Log
  <1>2. /\ runs[r] \in RunRow /\ trace[r] \in Seq(Event) /\ tries[r] \in Seq(Attempt)
        /\ Len(tries[r]) \in Nat /\ Sound(runs[r], tries[r], checkpoints[r], trace[r])
        /\ checkpoints[r] \in Checkpoint \cup {NoRow} /\ tries \in [Run -> Seq(Attempt)]
    BY <1>1, RowTypes
  <1>3. n = Len(tries[r]) /\ n \in 1..Len(tries[r])
    BY <1>1, <1>2 DEF Sound, Lineage
  <1>4. "interrupted" \in Status /\ "queue_delivery_failed" \in Reason
    BY DEF Status, Reason
  <1>5. /\ row \in RunRow /\ row.status = "interrupted" /\ row.owner = "none" /\ row # NoRow
        /\ row.reason = "queue_delivery_failed"
    BY <1>2, <1>4, ClosedRow, NoRowAssumption
  <1>6. /\ a \in Event /\ ShowsStatus(a) /\ a.status = "interrupted" /\ a.kind = "state"
        /\ b \in Event /\ b.status = "interrupted" /\ b.kind = "terminal"
    BY <1>4, EventTypes
  <1> HIDE DEF row, a, b
  <1>7. tries' = [tries EXCEPT ![r] = rows]
    BY <1>1, <1>2
  <1>8. /\ rows \in Seq(Attempt) /\ Len(rows) = Len(tries[r])
        /\ rows[n].end = "queue_delivery_failed" /\ rows[n].key = tries[r][n].key
        /\ \A i \in 1..Len(tries[r]) : i # n => rows[i] = tries[r][i]
    <2> DEFINE new == [tries[r][n] EXCEPT !.end = "queue_delivery_failed"]
    <2>1. new \in Attempt /\ new.end = "queue_delivery_failed" /\ new.key = tries[r][n].key
      <3>1. tries[r][n] \in Attempt
        BY <1>2, <1>3
      <3> QED
        BY <1>4, <3>1 DEF Attempt
    <2>2. rows = [tries[r] EXCEPT ![n] = new]
      OBVIOUS
    <2> HIDE DEF new, rows
    <2> QED
      BY <1>2, <1>3, <2>1, <2>2
  <1> HIDE DEF rows
  <1>9. Lineage(row, rows, checkpoints[r])
    <2>1. /\ \A i \in 1..Len(tries[r]) - 1 : tries[r][i].end = "lease_expired"
          /\ \A i, j \in 1..Len(tries[r]) : tries[r][i].key = tries[r][j].key => i = j
      BY <1>2 DEF Sound, Lineage
    <2>2. \A i \in 1..Len(tries[r]) : rows[i].key = tries[r][i].key
      BY <1>8
    <2> QED
      BY <1>1, <1>2, <1>3, <1>5, <1>8, <2>1, <2>2 DEF Lineage
  <1>10. all \in Seq(Event) /\ Shows(all, "interrupted") /\ Fenced(all, Len(tries[r]))
    <2>1. Len(tries[r]) >= Len(tries[r]) /\ Fenced(trace[r], Len(tries[r]))
      BY <1>2 DEF Sound
    <2> QED
      BY <1>2, <1>6, <2>1, TwoEvents
  <1>11. trace' = [trace EXCEPT ![r] = all]
    <2>1. trace[r] \o <<a, b>> = all
      BY <1>2, <1>6, Concatenations
    <2> QED
      BY <1>1, <2>1
  <1> HIDE DEF all
  <1>12. Becomes(r, row, rows, checkpoints[r], all)
    BY <1>1, <1>7, <1>11, RowTypes DEF Becomes
  <1>13. Sound(row, rows, checkpoints[r], all)
    BY <1>5, <1>8, <1>9, <1>10 DEF Sound, QueueOwner
  <1>14. Len(rows) >= Len(tries[r]) /\ row.status # "queued" /\ tries[r] # <<>>
    BY <1>2, <1>3, <1>5, <1>8
  <1> QED
    BY <1>2, <1>5, <1>8, <1>10, <1>12, <1>13, <1>14, OneRun

-----------------------------------------------------------------------------
(* Requests *)

\* A suspended handler, over a step of another actor.
LEMMA ServingStays ==
    ASSUME StoreInv, Requests, Onward, StoreInv', NEW g \in Handler, handlers'[g] = handlers[g],
           handlers[g].pc # "idle" => processes'[handlers[g].process] # "down",
           handlers[g].pc \in ChatPc => delivered'[handlers[g].run] = delivered[handlers[g].run],
           handlers[g].pc \in {"reading", "admitting"} =>
               \A i \in DOMAIN delivered'[handlers[g].run] :
                   delivered'[handlers[g].run][i] # handlers[g].attempt
    PROVE  Serving(handlers[g])'
  <1> DEFINE v == handlers[g]
             r == v.run
  <1>1. Serving(handlers[g]) /\ handlers[g] \in HandlerState
    BY DEF Requests
  <1>2. v.pc # "idle" => r \in Run /\ v.process \in Process
    BY <1>1 DEF Serving
  <1>3. v.pc # "idle" => /\ runs[r] # NoRow => runs'[r] # NoRow
                         /\ Len(tries'[r]) >= Len(tries[r])
                         /\ Len(tries'[r]) \in Nat /\ Len(tries[r]) \in Nat
    BY <1>2 DEF Onward, StoreInv, StoreTypeOK
  <1>4. v.attempt \in Nat
    BY <1>1 DEF HandlerState
  <1>5. v.pc \in {"building", "failing"} => runs'[r] # NoRow
    BY <1>1, <1>3 DEF Serving
  <1>6. v.pc \in ResumePc => v.attempt >= 2 /\ v.attempt <= Len(tries'[r])
    <2>1. v.pc \in ResumePc => v.pc # "idle" /\ v.attempt >= 2 /\ v.attempt <= Len(tries[r])
      BY <1>1 DEF Serving, ResumePc
    <2>2. \A a, m, n \in Nat : a <= m /\ n >= m => a <= n
      OBVIOUS
    <2> QED
      BY <1>3, <1>4, <2>1, <2>2
  <1>7. v.pc \in ChatPc => v.attempt = 1 /\ delivered'[r] = <<>>
    BY <1>1 DEF Serving
  <1> QED
    BY <1>1, <1>2, <1>5, <1>6, <1>7 DEF Serving, Given

\* Nothing is delivered.
LEMMA QuietServing ==
    ASSUME StoreInv, Requests, Onward, StoreInv', NEW g \in Handler, handlers'[g] = handlers[g],
           handlers[g].pc # "idle" => processes'[handlers[g].process] # "down",
           delivered' = delivered
    PROVE  Serving(handlers[g])'
  <1>1. handlers[g].pc \in {"reading", "admitting"} =>
           \A i \in DOMAIN delivered'[handlers[g].run] :
               delivered'[handlers[g].run][i] # handlers[g].attempt
    BY DEF Requests, Serving, Given
  <1> QED
    BY <1>1, ServingStays

LEMMA RequestsStay ==
    ASSUME StoreInv, Requests, Onward, StoreInv', handlers' = handlers, delivered' = delivered,
           processes' \in [Process -> {"down", "up", "closing"}],
           \A p \in Process : processes[p] # "down" => processes'[p] # "down"
    PROVE  Requests'
  <1>1. ASSUME NEW g \in Handler PROVE Serving(handlers[g])'
    <2>1. handlers[g].pc # "idle" => processes'[handlers[g].process] # "down"
      BY DEF Requests, Serving
    <2> QED
      BY <2>1, QuietServing
  <1> QED
    BY <1>1 DEF Requests

\* One handler moves.
LEMMA RequestsStep ==
    ASSUME StoreInv, Requests, Onward, StoreInv', NEW h \in Handler, NEW v \in HandlerState,
           handlers' = [handlers EXCEPT ![h] = v], UNCHANGED <<processes, delivered>>,
           Serving(handlers[h])',
           \A g \in Handler :
               g # h /\ handlers[g].pc # "idle" /\ v.pc # "idle" /\ handlers[g].run = v.run =>
                   handlers[g].attempt # v.attempt
    PROVE  Requests'
  <1>1. /\ handlers' \in [Handler -> HandlerState] /\ handlers'[h] = v
        /\ \A g \in Handler : g # h => handlers'[g] = handlers[g]
    BY DEF Requests
  <1>2. ASSUME NEW g \in Handler PROVE Serving(handlers[g])'
    <2>1. CASE g = h
      BY <2>1
    <2>2. CASE g # h
      <3>1. handlers[g].pc # "idle" => processes'[handlers[g].process] # "down"
        BY DEF Requests, Serving
      <3> QED
        BY <1>1, <2>2, <3>1, QuietServing
    <2> QED
      BY <2>1, <2>2
  <1>3. ASSUME NEW f \in Handler, NEW g \in Handler, f # g,
               handlers'[f].pc # "idle", handlers'[g].pc # "idle",
               handlers'[f].run = handlers'[g].run
        PROVE  handlers'[f].attempt # handlers'[g].attempt
    <2>1. CASE f = h
      BY <1>1, <1>3, <2>1
    <2>2. CASE g = h
      BY <1>1, <1>3, <2>2
    <2>3. CASE f # h /\ g # h
      BY <1>1, <1>3, <2>3 DEF Requests
    <2> QED
      BY <2>1, <2>2, <2>3
  <1> QED
    BY <1>1, <1>2, <1>3 DEF Requests

LEMMA IdleTypes ==
    /\ IdleHandler \in HandlerState /\ IdleHandler.pc = "idle"
    /\ IdleWorker \in WorkerState /\ IdleWorker.pc = "idle"
  BY ServiceAssumption DEF IdleHandler, HandlerState, IdleWorker, WorkerState

LEMMA Returns ==
    ASSUME StoreInv, Requests, Onward, StoreInv', NEW h \in Handler, Return(h),
           UNCHANGED <<processes, delivered>>
    PROVE  Requests'
  <1>1. handlers' = [handlers EXCEPT ![h] = IdleHandler] /\ handlers'[h] = IdleHandler
    BY DEF Return, Requests
  <1>2. Serving(handlers[h])'
    BY <1>1, IdleTypes DEF Serving, ChatPc, ResumePc
  <1> QED
    BY <1>1, <1>2, IdleTypes, RequestsStep

\* The handler goes on with the same attempt.
LEMMA Suspends ==
    ASSUME StoreInv, Requests, Onward, StoreInv', NEW h \in Handler, NEW v \in HandlerState,
           handlers' = [handlers EXCEPT ![h] = v], UNCHANGED <<processes, delivered>>,
           handlers[h].pc # "idle", v.pc # "idle",
           v.run = handlers[h].run, v.attempt = handlers[h].attempt,
           Serving(handlers[h])'
    PROVE  Requests'
  <1>1. \A g \in Handler :
            g # h /\ handlers[g].pc # "idle" /\ v.pc # "idle" /\ handlers[g].run = v.run =>
                handlers[g].attempt # v.attempt
    BY DEF Requests
  <1> QED
    BY <1>1, RequestsStep

\* The steps of a handler that deliver nothing.
LEMMA HandlerRequests ==
    ASSUME StoreInv, Requests, Deliveries, StoreInv', Onward, NEW h \in Handler
    PROVE  /\ \A p \in Process, r \in Run : ChatReserve(h, p, r) => Requests'
           /\ \A level : ChatCreate(h, level) /\ runs'[handlers[h].run] # NoRow => Requests'
           /\ ChatDeliveryFails(h) => Requests'
           /\ \A p \in Process, r \in Run, k \in Key :
                  ResumeBegin(h, p, r, k) /\ Len(tries[r]) >= 1 /\ Len(tries'[r]) = Len(tries[r]) + 1
                  => Requests'
           /\ ResumeRead(h) => Requests'
           /\ ResumeDeliveryFails(h) => Requests'
  <1> DEFINE v == handlers[h]
  <1>1. /\ handlers \in [Handler -> HandlerState] /\ v \in HandlerState /\ Serving(handlers[h])
        /\ v.attempt \in Nat /\ v.version \in Nat
    BY DEF Requests, HandlerState
  <1>2. ASSUME NEW p \in Process, NEW r \in Run, ChatReserve(h, p, r) PROVE Requests'
    <2> DEFINE new == [IdleHandler EXCEPT !.pc = "creating", !.process = p, !.run = r, !.attempt = 1]
    <2>1. /\ new \in HandlerState /\ new.pc = "creating" /\ new.process = p /\ new.run = r
          /\ new.attempt = 1
      BY DEF IdleHandler, HandlerState
    <2> HIDE DEF new
    <2>2. /\ handlers' = [handlers EXCEPT ![h] = new] /\ processes[p] = "up"
          /\ runs[r] = NoRow /\ UNCHANGED <<processes, delivered>>
          /\ \A g \in Handler : handlers[g].run # r
      BY <1>2 DEF ChatReserve, HasCapacity, new
    <2>3. delivered[r] = <<>>
      BY <2>2 DEF Deliveries
    <2>4. Serving(handlers[h])'
      BY <1>1, <2>1, <2>2, <2>3 DEF Serving, ChatPc, ResumePc
    <2>5. \A g \in Handler :
            g # h /\ handlers[g].pc # "idle" /\ new.pc # "idle" /\ handlers[g].run = new.run =>
                handlers[g].attempt # new.attempt
      BY <2>1, <2>2
    <2> QED
      BY <2>1, <2>2, <2>4, <2>5, RequestsStep
  <1>3. ASSUME NEW level, ChatCreate(h, level), runs'[handlers[h].run] # NoRow PROVE Requests'
    <2> DEFINE new == [v EXCEPT !.pc = "building"]
    <2>1. /\ new \in HandlerState /\ new.pc = "building" /\ new.run = v.run
          /\ new.attempt = v.attempt /\ new.process = v.process
      BY <1>1 DEF HandlerState
    <2>2. handlers' = [handlers EXCEPT ![h] = new] /\ UNCHANGED <<processes, delivered>>
      BY <1>1, <1>3 DEF ChatCreate, Await
    <2> HIDE DEF new
    <2>3. v.pc = "creating"
      BY <1>3 DEF ChatCreate
    <2>4. /\ v.process \in Process /\ v.run \in Run /\ processes[v.process] # "down"
          /\ v.attempt = 1 /\ delivered[v.run] = <<>>
      BY <1>1, <2>3 DEF Serving, ChatPc
    <2>5. Serving(handlers[h])'
      BY <1>1, <1>3, <2>1, <2>2, <2>4 DEF Serving, ChatPc, ResumePc
    <2> QED
      BY <2>1, <2>2, <2>3, <2>5, Suspends
  <1>4. ASSUME ChatDeliveryFails(h) PROVE Requests'
    <2> DEFINE new == [v EXCEPT !.pc = "failing"]
    <2>1. /\ new \in HandlerState /\ new.pc = "failing" /\ new.run = v.run
          /\ new.attempt = v.attempt /\ new.process = v.process
      BY <1>1 DEF HandlerState
    <2>2. /\ handlers' = [handlers EXCEPT ![h] = new] /\ UNCHANGED <<processes, delivered>>
          /\ runs' = runs
      BY <1>1, <1>4 DEF ChatDeliveryFails, Await, storeVars
    <2> HIDE DEF new
    <2>3. v.pc = "building"
      BY <1>4 DEF ChatDeliveryFails
    <2>4. /\ v.process \in Process /\ v.run \in Run /\ processes[v.process] # "down"
          /\ v.attempt = 1 /\ delivered[v.run] = <<>> /\ runs[v.run] # NoRow
      BY <1>1, <2>3 DEF Serving, ChatPc
    <2>5. Serving(handlers[h])'
      BY <1>1, <2>1, <2>2, <2>4 DEF Serving, ChatPc, ResumePc
    <2> QED
      BY <2>1, <2>2, <2>3, <2>5, Suspends
  <1>5. ASSUME NEW p \in Process, NEW r \in Run, NEW k \in Key, ResumeBegin(h, p, r, k),
               Len(tries[r]) >= 1, Len(tries'[r]) = Len(tries[r]) + 1
        PROVE  Requests'
    <2> DEFINE n == Len(tries[r]) + 1
               new == [IdleHandler EXCEPT !.pc = "reading", !.process = p, !.run = r, !.attempt = n]
    <2>1. Len(tries[r]) \in Nat /\ n \in Nat /\ n >= 2 /\ n > Len(tries[r])
      BY <1>5, RowTypes
    <2>2. n = Len(tries'[r]) /\ n <= Len(tries'[r])
      BY <1>5, <2>1
    <2>3. /\ new \in HandlerState /\ new.pc = "reading" /\ new.process = p /\ new.run = r
          /\ new.attempt = n
      <3> HIDE DEF n
      <3> QED
        BY <2>1 DEF IdleHandler, HandlerState
    <2>4. /\ handlers' = [handlers EXCEPT ![h] = new] /\ processes[p] = "up"
          /\ UNCHANGED <<processes, delivered>>
      BY <1>5 DEF ResumeBegin
    <2> HIDE DEF new, n
    <2>5. ~Given(r, n)
      <3>1. \A i \in DOMAIN delivered[r] : delivered[r][i] = 1 \/ delivered[r][i] <= Len(tries[r])
        BY DEF Deliveries
      <3>2. \A i \in DOMAIN delivered[r] : delivered[r][i] \in Nat
        BY DEF Deliveries
      <3> QED
        BY <2>1, <3>1, <3>2 DEF Given
    <2>6. Serving(handlers[h])'
      BY <1>1, <2>1, <2>2, <2>3, <2>4, <2>5 DEF Serving, Given, ChatPc, ResumePc
    <2>7. ASSUME NEW g \in Handler, g # h, handlers[g].pc # "idle", handlers[g].run = new.run
          PROVE  handlers[g].attempt # new.attempt
      <3>1. /\ handlers[g].attempt = 1 \/ handlers[g].attempt <= Len(tries[r])
            /\ handlers[g].attempt \in Nat
        BY <2>3, <2>7 DEF Requests, Serving, ChatPc, ResumePc, HandlerState
      <3> QED
        BY <2>1, <2>3, <3>1
    <2> QED
      BY <2>3, <2>4, <2>6, <2>7, RequestsStep
  <1>6. ASSUME ResumeRead(h) PROVE Requests'
    <2> DEFINE found == checkpoints[v.run]
               new == [v EXCEPT !.pc = "admitting", !.version = found.version]
    <2>1. v.pc = "reading" /\ found # NoRow /\ UNCHANGED <<processes, delivered, tries>>
      BY <1>6 DEF ResumeRead, storeVars
    <2>2. /\ v.process \in Process /\ v.run \in Run /\ processes[v.process] # "down"
          /\ v.attempt >= 2 /\ v.attempt <= Len(tries[v.run]) /\ ~Given(v.run, v.attempt)
      BY <1>1, <2>1 DEF Serving, ResumePc
    <2>3. found.version \in Nat /\ found.version > 0
      BY <2>1, <2>2, RowTypes DEF Checkpoint
    <2>4. /\ new \in HandlerState /\ new.pc = "admitting" /\ new.run = v.run
          /\ new.attempt = v.attempt /\ new.process = v.process /\ new.version > 0
      BY <1>1, <2>3 DEF HandlerState
    <2>5. handlers' = [handlers EXCEPT ![h] = new]
      BY <1>1, <1>6 DEF ResumeRead
    <2> HIDE DEF new
    <2>6. Serving(handlers[h])'
      BY <1>1, <2>1, <2>2, <2>4, <2>5 DEF Serving, Given, ChatPc, ResumePc
    <2> QED
      BY <2>1, <2>4, <2>5, <2>6, Suspends
  <1>7. ASSUME ResumeDeliveryFails(h) PROVE Requests'
    <2> DEFINE new == [v EXCEPT !.pc = "sealing"]
    <2>1. /\ new \in HandlerState /\ new.pc = "sealing" /\ new.run = v.run
          /\ new.attempt = v.attempt /\ new.process = v.process
      BY <1>1 DEF HandlerState
    <2>2. handlers' = [handlers EXCEPT ![h] = new] /\ UNCHANGED <<processes, delivered, tries>>
      BY <1>1, <1>7 DEF ResumeDeliveryFails, Await, storeVars
    <2> HIDE DEF new
    <2>3. v.pc \in {"reading", "admitting"}
      BY <1>7 DEF ResumeDeliveryFails
    <2>4. /\ v.process \in Process /\ v.run \in Run /\ processes[v.process] # "down"
          /\ v.attempt >= 2 /\ v.attempt <= Len(tries[v.run])
      BY <1>1, <2>3 DEF Serving, ResumePc
    <2>5. Serving(handlers[h])'
      BY <1>1, <2>1, <2>2, <2>4 DEF Serving, ChatPc, ResumePc
    <2> QED
      BY <2>1, <2>2, <2>3, <2>5, Suspends
  <1> QED
    BY <1>2, <1>3, <1>4, <1>5, <1>6, <1>7

-----------------------------------------------------------------------------
(* Deliveries *)

LEMMA DeliveriesStay ==
    ASSUME StoreInv, Deliveries, StoreInv', Onward, delivered' = delivered,
           \A r \in Run : delivered[r] = <<>> /\ tries[r] = <<>> => tries'[r] = <<>>
    PROVE  Deliveries'
  <1>1. \A r \in Run : runs'[r] = NoRow => delivered[r] = <<>>
    BY DEF Onward, Deliveries
  <1>2. \A r \in Run : delivered[r] = <<>> => tries'[r] = <<>>
    BY DEF Deliveries
  <1>3. ASSUME NEW r \in Run, NEW i \in DOMAIN delivered[r]
        PROVE  delivered[r][i] = 1 \/ delivered[r][i] <= Len(tries'[r])
    <2>1. delivered[r][i] \in Nat /\ Len(tries[r]) \in Nat /\ Len(tries'[r]) \in Nat
      BY DEF Deliveries, StoreInv, StoreTypeOK
    <2>2. delivered[r][i] = 1 \/ delivered[r][i] <= Len(tries[r])
      BY DEF Deliveries
    <2>3. Len(tries'[r]) >= Len(tries[r])
      BY DEF Onward
    <2> QED
      BY <2>1, <2>2, <2>3
  <1> QED
    BY <1>1, <1>2, <1>3 DEF Deliveries, DeliveredOnce

\* One more delivery.
LEMMA DeliveredMore ==
    ASSUME NEW events \in Seq(Nat), NEW n \in Nat,
           \A i \in DOMAIN events : events[i] # n,
           \A i, j \in DOMAIN events : events[i] = events[j] => i = j
    PROVE  LET all == Append(events, n)
           IN  /\ all \in Seq(Nat) /\ all # <<>>
               /\ \A i \in DOMAIN all : all[i] = n \/ \E j \in DOMAIN events : all[i] = events[j]
               /\ \A i \in DOMAIN events : i \in DOMAIN all /\ all[i] = events[i]
               /\ \E i \in DOMAIN all : all[i] = n
               /\ \A i, j \in DOMAIN all : all[i] = all[j] => i = j
  <1> DEFINE all == Append(events, n)
  <1>1. /\ all \in Seq(Nat) /\ Len(all) = Len(events) + 1 /\ all[Len(events) + 1] = n
        /\ \A i \in 1..Len(events) : all[i] = events[i]
        /\ DOMAIN all = 1..Len(events) + 1 /\ DOMAIN events = 1..Len(events)
        /\ Len(events) \in Nat
    OBVIOUS
  <1> HIDE DEF all
  <1>2. \A i \in DOMAIN all : i = Len(events) + 1 \/ i \in DOMAIN events
    BY <1>1
  <1>3. all # <<>> /\ \E i \in DOMAIN all : all[i] = n
    BY <1>1
  <1>4. \A i \in DOMAIN all : all[i] = n \/ \E j \in DOMAIN events : all[i] = events[j]
    BY <1>1, <1>2
  <1>5. \A i, j \in DOMAIN all : all[i] = all[j] => i = j
    BY <1>1, <1>2
  <1>6. \A i \in DOMAIN events : i \in DOMAIN all /\ all[i] = events[i]
    BY <1>1
  <1> QED
    BY <1>1, <1>3, <1>4, <1>5, <1>6 DEF all

\* A handler hands attempt n of r to the queue and returns.
LEMMA DeliveryStep ==
    ASSUME StoreInv, Requests, Deliveries, UNCHANGED <<storeVars, processes>>,
           NEW h \in Handler, Return(h), NEW r \in Run, NEW n \in Nat,
           handlers[h].pc \in {"building", "admitting"},
           handlers[h].run = r, handlers[h].attempt = n,
           delivered' = [delivered EXCEPT ![r] = Append(@, n)]
    PROVE  /\ Requests' /\ Deliveries' /\ ~Given(r, n) /\ Given(r, n)' /\ runs[r] # NoRow
           /\ \A s \in Run, m \in Nat : Given(s, m) => Given(s, m)'
  <1> DEFINE all == Append(delivered[r], n)
  <1>1. /\ delivered \in [Run -> Seq(Nat)] /\ delivered'[r] = all
        /\ \A s \in Run : s # r => delivered'[s] = delivered[s]
        /\ delivered[r] \in Seq(Nat)
    BY DEF Deliveries
  <1>2. Serving(handlers[h]) /\ handlers[h] \in HandlerState
    BY DEF Requests
  <1>3. \A i \in DOMAIN delivered[r] : delivered[r][i] # n
    BY <1>2 DEF Serving, ChatPc, Given
  <1>4. \A i, j \in DOMAIN delivered[r] : delivered[r][i] = delivered[r][j] => i = j
    BY DEF Deliveries, DeliveredOnce
  <1>5. /\ all \in Seq(Nat) /\ all # <<>>
        /\ \A i \in DOMAIN all : all[i] = n \/ \E j \in DOMAIN delivered[r] : all[i] = delivered[r][j]
        /\ \A i \in DOMAIN delivered[r] : i \in DOMAIN all /\ all[i] = delivered[r][i]
        /\ \E i \in DOMAIN all : all[i] = n
        /\ \A i, j \in DOMAIN all : all[i] = all[j] => i = j
    BY <1>1, <1>3, <1>4, DeliveredMore
  <1> HIDE DEF all
  <1>6. runs[r] # NoRow /\ (n = 1 \/ (n >= 2 /\ n <= Len(tries[r])))
    <2>1. CASE handlers[h].pc = "building"
      BY <1>2, <2>1 DEF Serving, ChatPc
    <2>2. CASE handlers[h].pc = "admitting"
      <3>1. n >= 2 /\ n <= Len(tries[r])
        BY <1>2, <2>2 DEF Serving, ResumePc
      <3>2. tries[r] # <<>>
        BY <3>1
      <3> QED
        BY <3>1, <3>2, RowTypes DEF Sound
    <2> QED
      BY <2>1, <2>2
  <1>7. runs' = runs /\ tries' = tries /\ StoreInv' /\ Onward
    BY StoreStays DEF storeVars
  <1>8. Deliveries'
    <2>1. delivered' \in [Run -> Seq(Nat)]
      BY <1>1, <1>5
    <2>2. ASSUME NEW s \in Run
          PROVE  /\ runs[s] = NoRow => delivered'[s] = <<>>
                 /\ delivered'[s] = <<>> => tries[s] = <<>>
                 /\ \A i \in DOMAIN delivered'[s] : delivered'[s][i] = 1 \/ delivered'[s][i] <= Len(tries[s])
                 /\ \A i, j \in DOMAIN delivered'[s] : delivered'[s][i] = delivered'[s][j] => i = j
      <3>1. CASE s = r
        BY <1>1, <1>5, <1>6, <3>1 DEF Deliveries
      <3>2. CASE s # r
        BY <1>1, <3>2 DEF Deliveries, DeliveredOnce
      <3> QED
        BY <3>1, <3>2
    <2> QED
      BY <1>7, <2>1, <2>2 DEF Deliveries, DeliveredOnce
  <1>9. /\ handlers' = [handlers EXCEPT ![h] = IdleHandler] /\ handlers'[h] = IdleHandler
        /\ \A g \in Handler : g # h => handlers'[g] = handlers[g]
        /\ handlers' \in [Handler -> HandlerState]
    BY IdleTypes DEF Return, Requests
  <1>10. ASSUME NEW g \in Handler PROVE Serving(handlers[g])'
    <2>1. CASE g = h
      BY <1>9, <2>1, IdleTypes DEF Serving, ChatPc, ResumePc
    <2>2. CASE g # h
      <3>1. Serving(handlers[g]) /\ handlers[g] \in HandlerState
        BY DEF Requests
      <3>2. handlers[g].pc # "idle" => processes'[handlers[g].process] # "down"
        BY <3>1 DEF Serving
      <3>3. handlers[g].pc # "idle" /\ handlers[g].run = r => handlers[g].attempt # n
        BY <2>2 DEF Requests
      <3>4. handlers[g].pc \in ChatPc => delivered'[handlers[g].run] = delivered[handlers[g].run]
        <4>1. SUFFICES ASSUME handlers[g].pc \in ChatPc, handlers[g].run = r PROVE FALSE
          BY <1>1, <3>1 DEF Serving, ChatPc
        <4>2. n # 1 /\ delivered[r] = <<>>
          BY <3>1, <3>3, <4>1 DEF Serving, ChatPc
        <4>3. tries[r] = <<>> /\ n >= 2 /\ n <= Len(tries[r])
          BY <1>6, <4>2 DEF Deliveries
        <4> QED
          BY <4>3
      <3>5. handlers[g].pc \in {"reading", "admitting"} =>
               \A i \in DOMAIN delivered'[handlers[g].run] :
                   delivered'[handlers[g].run][i] # handlers[g].attempt
        <4>1. CASE handlers[g].run = r
          BY <1>1, <1>5, <3>1, <3>3, <4>1 DEF Serving, Given
        <4>2. CASE handlers[g].run # r
          BY <1>1, <3>1, <4>2 DEF Serving, Given
        <4> QED
          BY <4>1, <4>2
      <3> QED
        BY <1>7, <1>9, <2>2, <3>2, <3>4, <3>5, ServingStays
    <2> QED
      BY <2>1, <2>2
  <1>11. Requests'
    <2>1. processes' = processes
      OBVIOUS
    <2> QED
      BY <1>9, <1>10, <2>1, IdleTypes DEF Requests
  <1>12. ~Given(r, n) /\ Given(r, n)' /\ \A s \in Run, m \in Nat : Given(s, m) => Given(s, m)'
    BY <1>1, <1>3, <1>5 DEF Given
  <1> QED
    BY <1>6, <1>8, <1>11, <1>12

-----------------------------------------------------------------------------
(* Jobs *)

\* A slot's job, over a step of the stores that adds no first attempt of it.
LEMMA HoldsOnward ==
    ASSUME StoreInv, StoreInv', Onward, NEW job, NEW version \in Nat, Carries(job, version),
           \A m \in Nat : Given(job.run, m) => Given(job.run, m)',
           version = 0 => tries'[job.run] = <<>>
    PROVE  Holds(job, version, runs'[job.run], tries'[job.run], delivered'[job.run])
  <1>1. job \in Job /\ Holds(job, version, runs[job.run], tries[job.run], delivered[job.run])
    BY DEF Carries, Holds
  <1>2. job.run \in Run /\ job.attempt \in Nat
    BY <1>1 DEF Job
  <1>3. runs'[job.run] # NoRow
    BY <1>1, <1>2 DEF Holds, Onward
  <1>4. \E i \in DOMAIN delivered'[job.run] : delivered'[job.run][i] = job.attempt
    BY <1>1, <1>2 DEF Holds, Given
  <1>5. version > 0 => job.attempt <= Len(tries'[job.run])
    <2>1. Len(tries'[job.run]) \in Nat /\ Len(tries[job.run]) \in Nat
      BY <1>2 DEF StoreInv, StoreTypeOK
    <2>2. Len(tries'[job.run]) >= Len(tries[job.run])
      BY <1>2 DEF Onward
    <2>3. version > 0 => job.attempt <= Len(tries[job.run])
      BY <1>1 DEF Holds
    <2>4. \A a, m, n \in Nat : a <= m /\ n >= m => a <= n
      OBVIOUS
    <2> QED
      BY <1>2, <2>1, <2>2, <2>3, <2>4
  <1> QED
    BY <1>1, <1>3, <1>4, <1>5 DEF Holds

LEMMA SlotFacts ==
    ASSUME Jobs, NEW p \in Process
    PROVE  /\ Slots(p) \subseteq Nat
           /\ \A i \in Slots(p) : /\ SlotJob(p, i) \in Job /\ SlotVersion(p, i) \in Nat
                                  /\ Carries(SlotJob(p, i), SlotVersion(p, i))
           /\ workers[p] \in WorkerState /\ queues[p] \in Seq(Job) /\ Len(queues[p]) \in Nat
           /\ DOMAIN queues[p] = 1..Len(queues[p])
           /\ workers[p].pc # "idle" =>
                  /\ 0 \in Slots(p) /\ SlotJob(p, 0) = workers[p].job
                  /\ SlotVersion(p, 0) = workers[p].version
           /\ \A i \in DOMAIN queues[p] :
                  /\ i \in Slots(p) /\ i # 0 /\ SlotJob(p, i) = queues[p][i]
                  /\ SlotVersion(p, i) = queues[p][i].version
  <1>1. /\ workers[p] \in WorkerState /\ queues[p] \in Seq(Job) /\ Len(queues[p]) \in Nat
        /\ DOMAIN queues[p] = 1..Len(queues[p])
    BY DEF Jobs, WorkerStates
  <1>2. workers[p].version \in Nat /\ \A i \in DOMAIN queues[p] : queues[p][i].version \in Nat
    <2>1. workers[p].version \in Nat
      BY <1>1 DEF WorkerState
    <2>2. \A i \in DOMAIN queues[p] : queues[p][i] \in Job
      BY <1>1
    <2> QED
      BY <2>1, <2>2 DEF Job
  <1>3. Slots(p) \subseteq Nat /\ \A i \in Slots(p) : SlotVersion(p, i) \in Nat
    BY <1>1, <1>2 DEF Slots, SlotVersion
  <1>4. \A i \in Slots(p) : Carries(SlotJob(p, i), SlotVersion(p, i))
    BY DEF Jobs, Carrying
  <1>5. \A i \in Slots(p) : SlotJob(p, i) \in Job
    BY <1>4 DEF Carries, Holds
  <1>6. \A i \in DOMAIN queues[p] :
            /\ i \in Slots(p) /\ i # 0 /\ SlotJob(p, i) = queues[p][i]
            /\ SlotVersion(p, i) = queues[p][i].version
    BY <1>1 DEF Slots, SlotJob, SlotVersion
  <1>7. workers[p].pc # "idle" =>
            /\ 0 \in Slots(p) /\ SlotJob(p, 0) = workers[p].job
            /\ SlotVersion(p, 0) = workers[p].version
    BY DEF Slots, SlotJob, SlotVersion
  <1> QED
    BY <1>1, <1>3, <1>4, <1>5, <1>6, <1>7

\* The slots are a part of what they were, those of process p moved by d[p].
Moves(d) ==
    \A p \in Process : \A i \in Slots(p)' :
        /\ i + d[p] \in Slots(p) /\ i \in Nat
        /\ SlotJob(p, i)' = SlotJob(p, i + d[p])

LEMMA OneSlotStays ==
    ASSUME Jobs, NEW d \in [Process -> {0, 1}], Moves(d)
    PROVE  OneSlot'
  <1>1. SUFFICES ASSUME NEW p \in Process, NEW q \in Process,
                        NEW i \in Slots(p)', NEW j \in Slots(q)',
                        SlotJob(p, i)'.run = SlotJob(q, j)'.run,
                        SlotJob(p, i)'.attempt = SlotJob(q, j)'.attempt
                 PROVE  p = q /\ i = j
    BY DEF OneSlot
  <1>2. /\ i + d[p] \in Slots(p) /\ i \in Nat /\ SlotJob(p, i)' = SlotJob(p, i + d[p])
        /\ j + d[q] \in Slots(q) /\ j \in Nat /\ SlotJob(q, j)' = SlotJob(q, j + d[q])
    BY DEF Moves
  <1>3. p = q /\ i + d[p] = j + d[q]
    BY <1>1, <1>2 DEF Jobs, OneSlot
  <1>4. d[p] \in {0, 1}
    OBVIOUS
  <1> QED
    BY <1>2, <1>3, <1>4

LEMMA CarryingStays ==
    ASSUME StoreInv, StoreInv', Onward, Jobs, NEW d \in [Process -> {0, 1}], Moves(d),
           \A p \in Process : \A i \in Slots(p)' : SlotVersion(p, i)' = SlotVersion(p, i + d[p]),
           \A s \in Run, m \in Nat : Given(s, m) => Given(s, m)',
           Untried
    PROVE  Carrying'
  <1>1. SUFFICES ASSUME NEW p \in Process, NEW i \in Slots(p)'
                 PROVE  Carries(SlotJob(p, i), SlotVersion(p, i))'
    BY DEF Carrying
  <1> DEFINE job == SlotJob(p, i + d[p])
             version == SlotVersion(p, i + d[p])
  <1>2. /\ i + d[p] \in Slots(p) /\ SlotJob(p, i)' = job /\ SlotVersion(p, i)' = version
    BY DEF Moves
  <1>3. job \in Job /\ version \in Nat /\ Carries(job, version)
    BY <1>2, SlotFacts
  <1> HIDE DEF job, version
  <1>4. job.run \in Run
    BY <1>3 DEF Job
  <1>5. version = 0 => tries'[job.run] = <<>>
    BY <1>3, <1>4 DEF Untried, Carries, Holds
  <1>6. Holds(job, version, runs'[job.run], tries'[job.run], delivered'[job.run])
    BY <1>3, <1>4, <1>5, HoldsOnward
  <1> QED
    BY <1>2, <1>6 DEF Carries

\* What a process' queue and worker were, they are.
LEMMA WorkerStatesStay ==
    ASSUME StoreInv, Onward, Jobs, processes' = processes, queues' = queues, workers' = workers
    PROVE  WorkerStates'
  <1>1. ASSUME NEW p \in Process, workers[p].pc = "running"
        PROVE  runs'[workers[p].job.run].status # "queued"
    <2>1. SlotJob(p, 0) = workers[p].job /\ SlotJob(p, 0) \in Job
          /\ Carries(SlotJob(p, 0), SlotVersion(p, 0))
      BY <1>1, SlotFacts
    <2>2. workers[p].job.run \in Run /\ runs[workers[p].job.run] # NoRow
      BY <2>1 DEF Job, Carries, Holds
    <2>3. runs[workers[p].job.run].status # "queued"
      BY <1>1 DEF Jobs, WorkerStates
    <2> QED
      BY <2>2, <2>3 DEF Onward
  <1> QED
    BY <1>1 DEF Jobs, WorkerStates

LEMMA JobsStay ==
    ASSUME StoreInv, StoreInv', Onward, Untried, Jobs,
           UNCHANGED <<processes, queues, workers, delivered>>
    PROVE  Jobs'
  <1> DEFINE d == [p \in Process |-> 0]
  <1>1. \A p \in Process : Slots(p)' = Slots(p)
    BY DEF Slots
  <1>2. \A p \in Process : \A i : SlotJob(p, i)' = SlotJob(p, i) /\ SlotVersion(p, i)' = SlotVersion(p, i)
    BY DEF SlotJob, SlotVersion
  <1>3. \A p \in Process : \A i \in Slots(p) : i \in Nat /\ i + d[p] = i
    BY SlotFacts
  <1>4. d \in [Process -> {0, 1}] /\ Moves(d)
    BY <1>1, <1>2, <1>3 DEF Moves
  <1>5. \A p \in Process : \A i \in Slots(p)' : SlotVersion(p, i)' = SlotVersion(p, i + d[p])
    BY <1>1, <1>2, <1>3
  <1> HIDE DEF d
  <1>6. \A s \in Run, m \in Nat : Given(s, m) => Given(s, m)'
    BY DEF Given
  <1> QED
    BY <1>4, <1>5, <1>6, OneSlotStays, CarryingStays, WorkerStatesStay DEF Jobs

\* A worker goes on with its job or drops it; the queue stays or is dropped.
LEMMA WorkerMoves ==
    ASSUME StoreInv, StoreInv', Onward, Untried, Jobs, delivered' = delivered,
           NEW p \in Process, NEW w \in WorkerState, NEW q \in Seq(Job),
           workers' = [workers EXCEPT ![p] = w], queues' = [queues EXCEPT ![p] = q],
           \A o \in Process : o # p => processes'[o] = processes[o],
           processes'[p] # "up" => w = IdleWorker /\ q = <<>>,
           q = queues[p] \/ q = <<>>,
           \/ w = IdleWorker
           \/ /\ w.pc # "idle" /\ workers[p].pc # "idle"
              /\ w.job = workers[p].job /\ w.version = workers[p].version,
           w.pc = "starting" => w.job.leased,
           w.pc = "running" => runs'[w.job.run].status # "queued"
    PROVE  Jobs'
  <1> DEFINE d == [o \in Process |-> 0]
  <1>1. /\ workers \in [Process -> WorkerState] /\ queues \in [Process -> Seq(Job)]
        /\ workers' \in [Process -> WorkerState] /\ queues' \in [Process -> Seq(Job)]
        /\ workers'[p] = w /\ queues'[p] = q
        /\ \A o \in Process : o # p => workers'[o] = workers[o] /\ queues'[o] = queues[o]
    BY DEF Jobs, WorkerStates
  <1>2. w.pc = "idle" => w = IdleWorker
    OBVIOUS
  <1>3. ASSUME NEW o \in Process, NEW i \in Slots(o)'
        PROVE  /\ i \in Slots(o) /\ i \in Nat
               /\ SlotJob(o, i)' = SlotJob(o, i) /\ SlotVersion(o, i)' = SlotVersion(o, i)
    <2>1. Slots(o) \subseteq Nat
      BY SlotFacts
    <2>2. CASE o # p
      BY <1>1, <2>1, <2>2 DEF Slots, SlotJob, SlotVersion
    <2>3. CASE o = p
      <3>1. (i = 0 /\ w.pc # "idle") \/ i \in DOMAIN q
        BY <1>1, <2>3 DEF Slots
      <3>2. CASE i = 0 /\ w.pc # "idle"
        BY <1>1, <2>1, <2>3, <3>2, IdleTypes DEF Slots, SlotJob, SlotVersion
      <3>3. CASE i \in DOMAIN q
        <4>1. q = queues[p] /\ i \in DOMAIN queues[p]
          BY <3>3
        <4>2. i # 0
          BY <4>1, SlotFacts
        <4> QED
          BY <1>1, <2>1, <2>3, <4>1, <4>2 DEF Slots, SlotJob, SlotVersion
      <3> QED
        BY <3>1, <3>2, <3>3
    <2> QED
      BY <2>2, <2>3
  <1>4. d \in [Process -> {0, 1}] /\ Moves(d)
    BY <1>3 DEF Moves
  <1>5. \A o \in Process : \A i \in Slots(o)' : SlotVersion(o, i)' = SlotVersion(o, i + d[o])
    BY <1>3
  <1> HIDE DEF d
  <1>6. \A s \in Run, m \in Nat : Given(s, m) => Given(s, m)'
    BY DEF Given
  <1>7. ASSUME NEW o \in Process, o # p, workers[o].pc = "running"
        PROVE  runs'[workers[o].job.run].status # "queued"
    <2>1. SlotJob(o, 0) = workers[o].job /\ SlotJob(o, 0) \in Job
          /\ Carries(SlotJob(o, 0), SlotVersion(o, 0))
      BY <1>7, SlotFacts
    <2>2. workers[o].job.run \in Run /\ runs[workers[o].job.run] # NoRow
      BY <2>1 DEF Job, Carries, Holds
    <2>3. runs[workers[o].job.run].status # "queued"
      BY <1>7 DEF Jobs, WorkerStates
    <2> QED
      BY <2>2, <2>3 DEF Onward
  <1>8. ASSUME NEW o \in Process
        PROVE  /\ workers'[o].pc = "idle" => workers'[o] = IdleWorker
               /\ processes'[o] # "up" => workers'[o] = IdleWorker /\ queues'[o] = <<>>
               /\ workers'[o].pc = "starting" => workers'[o].job.leased
               /\ workers'[o].pc = "running" => runs'[workers'[o].job.run].status # "queued"
    <2>1. CASE o = p
      BY <1>1, <1>2, <2>1
    <2>2. CASE o # p
      BY <1>1, <1>7, <2>2 DEF Jobs, WorkerStates
    <2> QED
      BY <2>1, <2>2
  <1>9. WorkerStates'
    BY <1>1, <1>8 DEF WorkerStates
  <1> QED
    BY <1>4, <1>5, <1>6, <1>9, OneSlotStays, CarryingStays DEF Jobs

LEMMA DequeueJobs ==
    ASSUME StoreInv, Jobs, NEW p \in Process, Dequeue(p)
    PROVE  Jobs'
  <1> DEFINE q == queues[p]
             job == Head(q)
             w == [IdleWorker EXCEPT !.pc = IF job.leased THEN "starting" ELSE "claiming",
                                     !.job = job, !.version = job.version]
             d == [o \in Process |-> IF o = p THEN 1 ELSE 0]
  <1>1. /\ workers' = [workers EXCEPT ![p] = w] /\ queues' = [queues EXCEPT ![p] = Tail(q)]
        /\ workers[p].pc = "idle" /\ q # <<>> /\ processes[p] = "up"
        /\ UNCHANGED <<processes, delivered>> /\ UNCHANGED storeVars
    BY DEF Dequeue
  <1>2. /\ workers \in [Process -> WorkerState] /\ queues \in [Process -> Seq(Job)]
        /\ q \in Seq(Job) /\ Len(q) \in Nat
    BY DEF Jobs, WorkerStates
  <1>3. /\ Len(q) >= 1 /\ job = q[1] /\ job \in Job /\ Tail(q) \in Seq(Job)
        /\ DOMAIN Tail(q) = 1..Len(q) - 1
        /\ \A i \in 1..Len(q) - 1 : Tail(q)[i] = q[i + 1]
    BY <1>1, <1>2
  <1> HIDE DEF job
  <1>4. job.version \in Nat /\ job.leased \in BOOLEAN
    BY <1>3 DEF Job
  <1>5. /\ w \in WorkerState /\ w.job = job /\ w.version = job.version
        /\ w.pc \in {"starting", "claiming"} /\ (w.pc = "starting" => job.leased)
    <2> DEFINE pc == IF job.leased THEN "starting" ELSE "claiming"
    <2>1. pc \in {"starting", "claiming"} /\ (pc = "starting" => job.leased)
      OBVIOUS
    <2>2. IdleWorker \in WorkerState
      BY IdleTypes
    <2> HIDE DEF pc
    <2> QED
      BY <1>3, <1>4, <2>1, <2>2 DEF WorkerState
  <1> HIDE DEF w
  <1>6. /\ workers' \in [Process -> WorkerState] /\ queues' \in [Process -> Seq(Job)]
        /\ workers'[p] = w /\ queues'[p] = Tail(q)
        /\ \A o \in Process : o # p => workers'[o] = workers[o] /\ queues'[o] = queues[o]
    BY <1>1, <1>2, <1>3, <1>5
  <1>7. ASSUME NEW o \in Process, NEW i \in Slots(o)'
        PROVE  /\ i + d[o] \in Slots(o) /\ i \in Nat
               /\ SlotJob(o, i)' = SlotJob(o, i + d[o])
               /\ SlotVersion(o, i)' = SlotVersion(o, i + d[o])
    <2>1. Slots(o) \subseteq Nat
      BY SlotFacts
    <2>2. CASE o # p
      <3>1. d[o] = 0 /\ i \in Slots(o) /\ i \in Nat
        BY <1>6, <2>1, <2>2 DEF Slots
      <3>2. i + d[o] = i
        BY <3>1
      <3> QED
        BY <1>6, <2>2, <3>1, <3>2 DEF SlotJob, SlotVersion
    <2>3. CASE o = p
      <3>1. d[o] = 1 /\ DOMAIN q = 1..Len(q)
        BY <1>2, <2>3
      <3>2. i = 0 \/ i \in 1..Len(q) - 1
        BY <1>3, <1>6, <2>3 DEF Slots
      <3>3. /\ i \in Nat /\ i + 1 \in DOMAIN q /\ i + 1 # 0
            /\ i # 0 => Tail(q)[i] = q[i + 1]
            /\ i = 0 => i + 1 = 1
        BY <1>2, <1>3, <3>1, <3>2
      <3>4. i + 1 \in Slots(o)
        BY <2>3, <3>3 DEF Slots
      <3>5. CASE i = 0
        BY <1>3, <1>5, <1>6, <2>3, <3>1, <3>3, <3>4, <3>5 DEF SlotJob, SlotVersion
      <3>6. CASE i # 0
        BY <1>6, <2>3, <3>1, <3>3, <3>4, <3>6 DEF SlotJob, SlotVersion
      <3> QED
        BY <3>5, <3>6
    <2> QED
      BY <2>2, <2>3
  <1>8. d \in [Process -> {0, 1}] /\ Moves(d)
    BY <1>7 DEF Moves
  <1>9. \A o \in Process : \A i \in Slots(o)' : SlotVersion(o, i)' = SlotVersion(o, i + d[o])
    BY <1>7
  <1> HIDE DEF d
  <1>10. StoreInv' /\ Onward /\ Untried /\ runs' = runs
    BY <1>1, StoreStays DEF storeVars
  <1>11. \A s \in Run, m \in Nat : Given(s, m) => Given(s, m)'
    BY <1>1 DEF Given
  <1>12. ASSUME NEW o \in Process
        PROVE  /\ workers'[o].pc = "idle" => workers'[o] = IdleWorker
               /\ processes'[o] # "up" => workers'[o] = IdleWorker /\ queues'[o] = <<>>
               /\ workers'[o].pc = "starting" => workers'[o].job.leased
               /\ workers'[o].pc = "running" => runs'[workers'[o].job.run].status # "queued"
    <2>1. CASE o = p
      BY <1>1, <1>5, <1>6, <2>1
    <2>2. CASE o # p
      BY <1>1, <1>6, <1>10, <2>2 DEF Jobs, WorkerStates
    <2> QED
      BY <2>1, <2>2
  <1>13. WorkerStates'
    BY <1>6, <1>12 DEF WorkerStates
  <1> QED
    BY <1>8, <1>9, <1>10, <1>11, <1>13, OneSlotStays, CarryingStays DEF Jobs

\* A checkpoint is written: no other slot waits to write the run's first one.
LEMMA WriteJobs ==
    ASSUME StoreInv, StoreInv', Onward, Jobs, NEW p \in Process, NEW completed \in BOOLEAN,
           WriteCheckpoint(p, completed), runs' = runs,
           workers[p].job.attempt <= Len(tries'[JobRun(p)]),
           \A s \in Run \ {JobRun(p)} : tries'[s] = tries[s],
           workers[p].version > 0 => Untried
    PROVE  Jobs'
  <1> DEFINE w == [workers[p] EXCEPT !.version = @ + 1]
             r == JobRun(p)
             mine == workers[p].job
             d == [o \in Process |-> 0]
  <1>1. /\ workers' = [workers EXCEPT ![p] = w] /\ workers[p].pc = "running"
        /\ UNCHANGED <<processes, queues, delivered>>
    <2>1. workers' = [workers EXCEPT ![p].version = @ + 1]
      BY DEF WriteCheckpoint
    <2> QED
      BY <2>1 DEF WriteCheckpoint, Running, Jobs, WorkerStates
  <1>2. /\ workers \in [Process -> WorkerState] /\ workers[p] \in WorkerState
        /\ workers[p].version \in Nat
        /\ 0 \in Slots(p) /\ SlotJob(p, 0) = mine /\ SlotVersion(p, 0) = workers[p].version
        /\ mine \in Job /\ Carries(mine, workers[p].version)
    BY <1>1, SlotFacts DEF Jobs, WorkerStates
  <1>3. w \in WorkerState /\ w.pc = "running" /\ w.job = mine /\ w.version = workers[p].version + 1
    BY <1>1, <1>2 DEF WorkerState
  <1>4. r \in Run /\ r = mine.run /\ mine.attempt \in Nat
    BY <1>2 DEF Job, JobRun
  <1> HIDE DEF w, r, mine
  <1>5. /\ workers' \in [Process -> WorkerState] /\ workers'[p] = w
        /\ \A o \in Process : o # p => workers'[o] = workers[o]
    BY <1>1, <1>2, <1>3
  <1>6. ASSUME NEW o \in Process, NEW i \in Slots(o)'
        PROVE  /\ i \in Slots(o) /\ i \in Nat /\ SlotJob(o, i)' = SlotJob(o, i)
               /\ (o # p \/ i # 0) => SlotVersion(o, i)' = SlotVersion(o, i)
               /\ (o = p /\ i = 0) => SlotVersion(o, i)' = workers[p].version + 1
    <2>1. Slots(o) \subseteq Nat
      BY SlotFacts
    <2>2. CASE o # p
      BY <1>1, <1>5, <2>1, <2>2 DEF Slots, SlotJob, SlotVersion
    <2>3. CASE o = p
      BY <1>1, <1>2, <1>3, <1>5, <2>1, <2>3 DEF Slots, SlotJob, SlotVersion
    <2> QED
      BY <2>2, <2>3
  <1>7. d \in [Process -> {0, 1}] /\ Moves(d)
    BY <1>6 DEF Moves
  <1> HIDE DEF d
  <1>8. OneSlot'
    BY <1>7, OneSlotStays
  <1>9. \A s \in Run, m \in Nat : Given(s, m) => Given(s, m)'
    BY <1>1 DEF Given
  <1>10. Carrying'
    <2>1. SUFFICES ASSUME NEW o \in Process, NEW i \in Slots(o)'
                   PROVE  Carries(SlotJob(o, i), SlotVersion(o, i))'
      BY DEF Carrying
    <2> DEFINE job == SlotJob(o, i)
               version == SlotVersion(o, i)
    <2>2. /\ i \in Slots(o) /\ SlotJob(o, i)' = job
          /\ job \in Job /\ version \in Nat /\ Carries(job, version)
      BY <1>6, SlotFacts
    <2>3. o # p \/ i # 0 => SlotVersion(o, i)' = version
      BY <1>6
    <2>4. job.run \in Run /\ job.attempt \in Nat
      BY <2>2 DEF Job
    <2>5. CASE o = p /\ i = 0
      <3>1. job = mine /\ SlotVersion(o, i)' = workers[p].version + 1
        BY <1>2, <1>6, <2>5
      <3>2. Holds(mine, workers[p].version + 1, runs'[r], tries'[r], delivered'[r])
        <4>1. Holds(mine, workers[p].version, runs[r], tries[r], delivered[r])
          BY <1>2, <1>4 DEF Carries
        <4>2. mine.attempt <= Len(tries'[r])
          BY DEF mine, r
        <4>3. mine.version \in Nat
          BY <1>2 DEF Job
        <4> QED
          BY <1>1, <1>2, <4>1, <4>2, <4>3 DEF Holds
      <3> QED
        BY <1>4, <2>2, <3>1, <3>2 DEF Carries
    <2>6. CASE ~(o = p /\ i = 0)
      <3>1. version = 0 => tries'[job.run] = <<>>
        <4>1. SUFFICES ASSUME version = 0 PROVE tries'[job.run] = <<>>
          OBVIOUS
        <4>2. job.attempt = 1 /\ tries[job.run] = <<>>
          BY <2>2, <4>1 DEF Carries, Holds
        <4>3. CASE workers[p].version > 0
          BY <2>4, <4>2, <4>3 DEF Untried
        <4>4. CASE workers[p].version = 0
          <5>1. mine.attempt = 1
            BY <1>2, <4>4 DEF Carries, Holds
          <5>2. job.run # mine.run
            BY <1>2, <2>2, <2>6, <4>2, <5>1 DEF Jobs, OneSlot
          <5> QED
            BY <1>4, <2>4, <4>2, <5>2 DEF r
        <4> QED
          BY <1>2, <4>3, <4>4
      <3> HIDE DEF job, version
      <3>2. Holds(job, version, runs'[job.run], tries'[job.run], delivered'[job.run])
        BY <1>9, <2>2, <2>4, <3>1, HoldsOnward
      <3> QED
        BY <2>2, <2>3, <2>6, <3>2 DEF Carries
    <2> QED
      BY <2>5, <2>6
  <1>11. WorkerStates'
    <2>1. processes[p] = "up" /\ runs[mine.run].status # "queued"
      BY <1>1, IdleTypes DEF Jobs, WorkerStates, mine
    <2>2. ASSUME NEW o \in Process
          PROVE  /\ workers'[o].pc = "idle" => workers'[o] = IdleWorker
                 /\ processes[o] # "up" => workers'[o] = IdleWorker /\ queues[o] = <<>>
                 /\ workers'[o].pc = "starting" => workers'[o].job.leased
                 /\ workers'[o].pc = "running" => runs[workers'[o].job.run].status # "queued"
      <3>1. CASE o = p
        BY <1>3, <1>5, <2>1, <3>1
      <3>2. CASE o # p
        BY <1>5, <3>2 DEF Jobs, WorkerStates
      <3> QED
        BY <3>1, <3>2
    <2> QED
      BY <1>1, <1>5, <2>2 DEF Jobs, WorkerStates
  <1> QED
    BY <1>8, <1>10, <1>11 DEF Jobs

\* A job that was not delivered before joins the queue.
LEMMA EnqueueJobs ==
    ASSUME StoreInv, Jobs, UNCHANGED <<storeVars, processes, workers>>,
           NEW p \in Process, processes[p] = "up", NEW job \in Job, Enqueue(p, job),
           ~Given(job.run, job.attempt),
           \A s \in Run, m \in Nat : Given(s, m) => Given(s, m)',
           Holds(job, job.version, runs[job.run], tries[job.run], delivered'[job.run])
    PROVE  Jobs'
  <1> DEFINE q == queues[p]
             last == Len(q) + 1
  <1>1. /\ queues' = [queues EXCEPT ![p] = Append(q, job)]
        /\ queues \in [Process -> Seq(Job)] /\ workers \in [Process -> WorkerState]
        /\ q \in Seq(Job) /\ Len(q) \in Nat /\ DOMAIN q = 1..Len(q)
    BY DEF Enqueue, Jobs, WorkerStates
  <1>2. /\ Append(q, job) \in Seq(Job) /\ DOMAIN Append(q, job) = 1..last
        /\ \A i \in 1..Len(q) : Append(q, job)[i] = q[i]
        /\ Append(q, job)[last] = job
    BY <1>1
  <1>3. /\ queues' \in [Process -> Seq(Job)] /\ queues'[p] = Append(q, job)
        /\ \A o \in Process : o # p => queues'[o] = queues[o]
    BY <1>1, <1>2
  <1>4. runs' = runs /\ tries' = tries /\ StoreInv' /\ Onward /\ Untried
    BY StoreStays DEF storeVars
  <1>5. ASSUME NEW o \in Process, NEW i \in Slots(o)'
        PROVE  \/ /\ i \in Slots(o) /\ SlotJob(o, i)' = SlotJob(o, i)
                  /\ SlotVersion(o, i)' = SlotVersion(o, i)
               \/ /\ o = p /\ i = last /\ SlotJob(o, i)' = job /\ SlotVersion(o, i)' = job.version
    <2>1. CASE o # p
      BY <1>3, <2>1 DEF Slots, SlotJob, SlotVersion
    <2>2. CASE o = p
      <3>1. (i = 0 /\ workers[p].pc # "idle") \/ i \in 1..Len(q) \/ i = last
        BY <1>1, <1>2, <1>3, <2>2 DEF Slots
      <3>2. CASE i = 0 /\ workers[p].pc # "idle"
        BY <2>2, <3>2 DEF Slots, SlotJob, SlotVersion
      <3>3. CASE i \in 1..Len(q)
        <4>1. i # 0 /\ i \in DOMAIN q /\ queues'[p][i] = q[i]
          BY <1>1, <1>2, <1>3, <3>3
        <4> QED
          BY <2>2, <4>1 DEF Slots, SlotJob, SlotVersion
      <3>4. CASE i = last
        <4>1. i # 0 /\ queues'[p][i] = job
          BY <1>1, <1>2, <1>3, <3>4
        <4> QED
          BY <2>2, <3>4, <4>1 DEF SlotJob, SlotVersion
      <3> QED
        BY <3>1, <3>2, <3>3, <3>4
    <2> QED
      BY <2>1, <2>2
  <1>6. \A o \in Process : \A i \in Slots(o) :
            SlotJob(o, i).run = job.run => SlotJob(o, i).attempt # job.attempt
    BY SlotFacts DEF Carries, Holds, Given
  <1>7. OneSlot'
    <2>1. SUFFICES ASSUME NEW m \in Process, NEW n \in Process,
                          NEW i \in Slots(m)', NEW j \in Slots(n)',
                          SlotJob(m, i)'.run = SlotJob(n, j)'.run,
                          SlotJob(m, i)'.attempt = SlotJob(n, j)'.attempt
                   PROVE  m = n /\ i = j
      BY DEF OneSlot
    <2> HIDE DEF last
    <2> QED
      BY <1>5, <1>6, <2>1 DEF Jobs, OneSlot
  <1>8. Carrying'
    <2>1. SUFFICES ASSUME NEW o \in Process, NEW i \in Slots(o)'
                   PROVE  Carries(SlotJob(o, i), SlotVersion(o, i))'
      BY DEF Carrying
    <2>2. CASE SlotJob(o, i)' = job /\ SlotVersion(o, i)' = job.version
      BY <1>4, <2>2 DEF Carries
    <2>3. CASE /\ i \in Slots(o) /\ SlotJob(o, i)' = SlotJob(o, i)
               /\ SlotVersion(o, i)' = SlotVersion(o, i)
      <3> DEFINE old == SlotJob(o, i)
                 version == SlotVersion(o, i)
      <3>1. old \in Job /\ version \in Nat /\ Carries(old, version)
        BY <2>3, SlotFacts
      <3> HIDE DEF old, version
      <3>2. old.run \in Run /\ (version = 0 => tries'[old.run] = <<>>)
        BY <1>4, <3>1 DEF Job, Carries, Holds
      <3>3. Holds(old, version, runs'[old.run], tries'[old.run], delivered'[old.run])
        BY <1>4, <3>1, <3>2, HoldsOnward
      <3> QED
        BY <2>3, <3>3 DEF Carries, old, version
    <2> QED
      BY <1>5, <2>2, <2>3
  <1>9. WorkerStates'
    BY <1>3, <1>4 DEF Jobs, WorkerStates
  <1> QED
    BY <1>7, <1>8, <1>9 DEF Jobs

-----------------------------------------------------------------------------
(* Capacity *)

\* What PermitsConserved says of one process.
Room(p) ==
    /\ IsFiniteSet(permits[p]) /\ IsFiniteSet(Holders(p))
    /\ processes[p] # "up" => permits[p] = {}
    /\ processes[p] = "up" =>
           /\ permits[p] = QueuedPermits(p) \cup {HeldBy(h) : h \in Holders(p)}
           /\ Cardinality(permits[p]) = Len(queues[p]) + Cardinality(Holders(p))
           /\ Cardinality(permits[p]) <= QueueCapacity

\* Nothing about its permits changes.
Steady(p) ==
    /\ processes'[p] = processes[p] /\ queues'[p] = queues[p] /\ permits'[p] = permits[p]
    /\ Holders(p)' = Holders(p) /\ \A g \in Holders(p) : HeldBy(g)' = HeldBy(g)

LEMMA CapacityIsRoom ==
    Capacity <=> permits \in [Process -> SUBSET Permit] /\ \A p \in Process : Room(p)
  BY DEF Capacity, Room, PermitsConserved

LEMMA CapacityStep ==
    ASSUME Capacity, permits' \in [Process -> SUBSET Permit],
           \A p \in Process : Steady(p) \/ Room(p)'
    PROVE  Capacity'
  <1>1. ASSUME NEW p \in Process PROVE Room(p)'
    <2>1. CASE Room(p)'
      BY <2>1
    <2>2. CASE Steady(p)
      <3>1. Room(p)
        BY CapacityIsRoom
      <3>2. QueuedPermits(p)' = QueuedPermits(p)
        BY <2>2 DEF Steady, QueuedPermits
      <3>3. {HeldBy(h) : h \in Holders(p)}' = {HeldBy(h) : h \in Holders(p)}
        BY <2>2 DEF Steady
      <3> QED
        BY <2>2, <3>1, <3>2, <3>3 DEF Steady, Room
    <2> QED
      BY <2>1, <2>2
  <1> QED
    BY <1>1 DEF Capacity, Room, PermitsConserved

LEMMA CapacityStays ==
    ASSUME Capacity, UNCHANGED <<processes, queues, permits, handlers>>
    PROVE  Capacity'
  <1>1. \A p \in Process : Steady(p)
    BY DEF Steady, Holders, HeldBy
  <1>2. permits' \in [Process -> SUBSET Permit]
    BY DEF Capacity
  <1> QED
    BY <1>1, <1>2, CapacityStep

\* A handler moves, and holds as many permits as it did.
LEMMA CapacityHandler ==
    ASSUME Capacity, Requests, UNCHANGED <<processes, queues, permits>>,
           NEW h \in Handler, NEW v, handlers' = [handlers EXCEPT ![h] = v],
           \/ handlers[h].pc \notin ChatPc /\ v.pc \notin ChatPc
           \/ /\ handlers[h].pc \in ChatPc /\ v.pc \in ChatPc
              /\ v.run = handlers[h].run /\ v.attempt = handlers[h].attempt
              /\ v.process = handlers[h].process
    PROVE  Capacity'
  <1>1. handlers'[h] = v /\ \A g \in Handler : g # h => handlers'[g] = handlers[g]
    BY DEF Requests
  <1>2. ASSUME NEW p \in Process PROVE Steady(p)
    <2>1. \A g \in Handler : g \in Holders(p)' <=> g \in Holders(p)
      BY <1>1 DEF Holders, ChatPc
    <2>2. \A g \in Holders(p) : HeldBy(g)' = HeldBy(g)
      BY <1>1 DEF Holders, ChatPc, HeldBy
    <2>3. Holders(p)' = Holders(p)
      <3>1. Holders(p) \subseteq Handler /\ Holders(p)' \subseteq Handler
        BY DEF Holders
      <3> QED
        BY <2>1, <3>1
    <2> QED
      BY <2>2, <2>3 DEF Steady
  <1>3. permits' \in [Process -> SUBSET Permit]
    BY DEF Capacity
  <1> QED
    BY <1>2, <1>3, CapacityStep

\* The permits of queued jobs and of handlers before delivery.
LEMMA PermitFacts ==
    ASSUME StoreInv, Requests, Deliveries, Jobs, NEW p \in Process
    PROVE  /\ \A i \in DOMAIN queues[p] :
                  /\ queues[p][i].run \in Run /\ queues[p][i].attempt \in Nat \ {0}
                  /\ runs[queues[p][i].run] # NoRow
                  /\ Given(queues[p][i].run, queues[p][i].attempt)
           /\ \A g \in Holders(p) :
                  /\ g \in Handler /\ handlers[g].attempt = 1 /\ handlers[g].run \in Run
                  /\ \A m : ~Given(handlers[g].run, m)
           /\ \A f, g \in Holders(p) : HeldBy(f) = HeldBy(g) => f = g
           /\ \A x : x \in QueuedPermits(p) <=>
                  \E i \in DOMAIN queues[p] : x = PermitOf(queues[p][i].run, queues[p][i].attempt)
  <1>1. \A i \in DOMAIN queues[p] :
            /\ queues[p][i] \in Job /\ Carries(queues[p][i], queues[p][i].version)
    BY SlotFacts
  <1>2. \A i \in DOMAIN queues[p] :
            /\ queues[p][i].run \in Run /\ queues[p][i].attempt \in Nat \ {0}
    BY <1>1 DEF Job
  <1>3. \A i \in DOMAIN queues[p] :
            /\ runs[queues[p][i].run] # NoRow /\ Given(queues[p][i].run, queues[p][i].attempt)
    BY <1>1 DEF Carries, Holds, Given
  <1>4. ASSUME NEW g \in Holders(p)
        PROVE  /\ g \in Handler /\ handlers[g].pc \in ChatPc
               /\ handlers[g].attempt = 1 /\ handlers[g].run \in Run
               /\ \A m : ~Given(handlers[g].run, m)
    BY DEF Holders, ChatPc, Requests, Serving, Given
  <1>5. ASSUME NEW f \in Holders(p), NEW g \in Holders(p), HeldBy(f) = HeldBy(g) PROVE f = g
    <2>1. handlers[f].run = handlers[g].run /\ handlers[f].attempt = handlers[g].attempt
      BY <1>5 DEF HeldBy, PermitOf
    <2>2. handlers[f].pc # "idle" /\ handlers[g].pc # "idle" /\ f \in Handler /\ g \in Handler
      BY <1>4 DEF ChatPc
    <2> QED
      BY <2>1, <2>2 DEF Requests
  <1>6. \A x : x \in QueuedPermits(p) <=>
            \E i \in DOMAIN queues[p] : x = PermitOf(queues[p][i].run, queues[p][i].attempt)
    BY DEF QueuedPermits
  <1> QED
    BY <1>2, <1>3, <1>4, <1>5, <1>6

\* A handler of p gives its permit up, or takes one.
LEMMA HolderLeaves ==
    ASSUME Requests, NEW h \in Handler, handlers[h].pc \in ChatPc, Return(h)
    PROVE  /\ \A p \in Process : Holders(p)' = Holders(p) \ {h}
           /\ \A p \in Process : h \in Holders(p) <=> p = handlers[h].process
           /\ \A p \in Process : \A g \in Holders(p) \ {h} : HeldBy(g)' = HeldBy(g)
  <1>1. /\ handlers'[h] = IdleHandler
        /\ \A g \in Handler : g # h => handlers'[g] = handlers[g]
    BY DEF Return, Requests
  <1>2. handlers'[h].pc \notin ChatPc
    BY <1>1, IdleTypes DEF ChatPc
  <1>3. ASSUME NEW p \in Process
        PROVE  /\ \A g : g \in Holders(p) <=>
                      g \in Handler /\ handlers[g].process = p /\ handlers[g].pc \in ChatPc
               /\ \A g : g \in Holders(p)' <=>
                      g \in Handler /\ handlers'[g].process = p /\ handlers'[g].pc \in ChatPc
    BY DEF Holders, ChatPc
  <1>4. ASSUME NEW p \in Process PROVE Holders(p)' = Holders(p) \ {h}
    BY <1>1, <1>2, <1>3
  <1>5. \A p \in Process : \A g \in Holders(p) \ {h} : HeldBy(g)' = HeldBy(g)
    BY <1>1, <1>3 DEF HeldBy
  <1> QED
    BY <1>3, <1>4, <1>5

LEMMA CancelCapacity ==
    ASSUME StoreInv, Requests, Deliveries, Jobs, Capacity, UNCHANGED <<processes, queues>>,
           NEW h \in Handler, handlers[h].pc \in ChatPc, Return(h),
           CancelPermit(handlers[h].process, HeldBy(h))
    PROVE  Capacity'
  <1> DEFINE p == handlers[h].process
             x == HeldBy(h)
  <1>1. /\ permits \in [Process -> SUBSET Permit] /\ p \in Process
        /\ permits' = [permits EXCEPT ![p] = @ \ {x}]
    BY DEF Capacity, CancelPermit, Requests, Serving, ChatPc
  <1>2. PICK o \in Process : o = p
    BY <1>1
  <1> HIDE DEF p, x
  <1>3. /\ permits' \in [Process -> SUBSET Permit] /\ permits'[o] = permits[o] \ {x}
        /\ \A q \in Process : q # o => permits'[q] = permits[q]
    BY <1>1, <1>2
  <1>4. /\ \A q \in Process : Holders(q)' = Holders(q) \ {h}
        /\ \A q \in Process : h \in Holders(q) <=> q = o
        /\ \A q \in Process : \A g \in Holders(q) \ {h} : HeldBy(g)' = HeldBy(g)
    BY <1>2, HolderLeaves DEF p
  <1>5. ASSUME NEW q \in Process, q # o PROVE Steady(q)
    <2>1. h \notin Holders(q) /\ Holders(q)' = Holders(q) \ {h}
      BY <1>4, <1>5
    <2>2. Holders(q)' = Holders(q) /\ \A g \in Holders(q) : HeldBy(g)' = HeldBy(g)
      BY <1>4, <2>1
    <2>3. processes'[q] = processes[q] /\ queues'[q] = queues[q] /\ permits'[q] = permits[q]
      BY <1>3, <1>5
    <2> QED
      BY <2>2, <2>3 DEF Steady
  <1>6. Room(o)'
    <2>1. Room(o)
      BY CapacityIsRoom
    <2>2. h \in Holders(o) /\ Holders(o)' = Holders(o) \ {h}
      BY <1>4
    <2>3. /\ IsFiniteSet(permits[o] \ {x})
          /\ Cardinality(permits[o] \ {x}) =
               IF x \in permits[o] THEN Cardinality(permits[o]) - 1 ELSE Cardinality(permits[o])
          /\ Cardinality(permits[o]) \in Nat
      BY <2>1, FS_RemoveElement, FS_CardinalityType DEF Room
    <2>4. /\ IsFiniteSet(Holders(o) \ {h})
          /\ Cardinality(Holders(o) \ {h}) = Cardinality(Holders(o)) - 1
          /\ Cardinality(Holders(o)) \in Nat
      BY <2>1, <2>2, FS_RemoveElement, FS_CardinalityType DEF Room
    <2>5. CASE processes[o] # "up"
      BY <1>3, <2>1, <2>2, <2>3, <2>4, <2>5 DEF Room
    <2>6. CASE processes[o] = "up"
      <3> DEFINE held == {HeldBy(g) : g \in Holders(o)}
                 kept == {HeldBy(g) : g \in Holders(o)}'
      <3>1. permits[o] = QueuedPermits(o) \cup held /\ x \in held
        BY <2>1, <2>2, <2>6 DEF Room, x
      <3>2. x \notin QueuedPermits(o)
        <4>1. x = PermitOf(handlers[h].run, handlers[h].attempt)
              /\ ~Given(handlers[h].run, handlers[h].attempt)
          BY <2>2, PermitFacts DEF x, HeldBy
        <4>2. ASSUME NEW i \in DOMAIN queues[o],
                     x = PermitOf(queues[o][i].run, queues[o][i].attempt)
              PROVE  FALSE
          <5>1. queues[o][i].run = handlers[h].run /\ queues[o][i].attempt = handlers[h].attempt
            BY <4>1, <4>2 DEF PermitOf
          <5> QED
            BY <4>1, <5>1, PermitFacts
        <4> QED
          BY <4>2, PermitFacts
      <3>3. kept = held \ {x}
        <4>1. kept = {HeldBy(g) : g \in Holders(o) \ {h}}
          BY <1>4, <2>2
        <4>2. \A g \in Holders(o) : HeldBy(g) = x => g = h
          BY <2>2, PermitFacts DEF x
        <4> QED
          BY <4>1, <4>2 DEF x
      <3>4. QueuedPermits(o)' = QueuedPermits(o)
        BY DEF QueuedPermits
      <3> HIDE DEF held, kept
      <3>5. permits'[o] = QueuedPermits(o)' \cup kept
        BY <1>3, <3>1, <3>2, <3>3, <3>4
      <3>6. Cardinality(permits'[o]) = Cardinality(permits[o]) - 1
        BY <1>3, <2>3, <3>1
      <3>7. /\ Cardinality(permits[o]) = Len(queues[o]) + Cardinality(Holders(o))
            /\ Cardinality(permits[o]) <= QueueCapacity
        BY <2>1, <2>6 DEF Room
      <3>8. Len(queues[o]) \in Nat
        BY SlotFacts
      <3>9. /\ Cardinality(permits'[o]) = Len(queues'[o]) + Cardinality(Holders(o)')
            /\ Cardinality(permits'[o]) <= QueueCapacity
        BY <2>2, <2>3, <2>4, <3>6, <3>7, <3>8, ServiceAssumption
      <3>10. IsFiniteSet(permits'[o]) /\ IsFiniteSet(Holders(o)')
        BY <1>3, <2>2, <2>3, <2>4
      <3> QED
        BY <2>6, <3>5, <3>9, <3>10 DEF Room, kept
    <2> QED
      BY <2>5, <2>6
  <1> QED
    BY <1>3, <1>5, <1>6, CapacityStep

LEMMA ReserveCapacity ==
    ASSUME StoreInv, Requests, Deliveries, Jobs, Capacity, NEW h \in Handler, NEW p \in Process,
           NEW r \in Run, ChatReserve(h, p, r)
    PROVE  Capacity'
  <1> DEFINE x == PermitOf(r, 1)
             v == [IdleHandler EXCEPT !.pc = "creating", !.process = p, !.run = r, !.attempt = 1]
  <1>1. v.pc = "creating" /\ v.process = p /\ v.run = r /\ v.attempt = 1
    BY DEF IdleHandler
  <1>2. /\ handlers[h].pc = "idle" /\ processes[p] = "up"
        /\ Cardinality(permits[p]) < QueueCapacity
        /\ runs[r] = NoRow /\ \A g \in Handler : handlers[g].run # r
        /\ permits' = [permits EXCEPT ![p] = @ \cup {x}]
        /\ handlers' = [handlers EXCEPT ![h] = v] /\ UNCHANGED <<processes, queues>>
    BY DEF ChatReserve, HasCapacity
  <1>3. x \in Permit
    BY DEF Permit, PermitOf
  <1> HIDE DEF v
  <1>4. /\ handlers'[h] = v /\ \A g \in Handler : g # h => handlers'[g] = handlers[g]
    BY <1>2 DEF Requests
  <1>5. /\ permits' \in [Process -> SUBSET Permit] /\ permits'[p] = permits[p] \cup {x}
        /\ \A q \in Process : q # p => permits'[q] = permits[q]
    BY <1>2, <1>3 DEF Capacity
  <1>6. ASSUME NEW q \in Process
        PROVE  /\ \A g : g \in Holders(q) <=>
                      g \in Handler /\ handlers[g].process = q /\ handlers[g].pc \in ChatPc
               /\ \A g : g \in Holders(q)' <=>
                      g \in Handler /\ handlers'[g].process = q /\ handlers'[g].pc \in ChatPc
    BY DEF Holders, ChatPc
  <1>7. h \notin Holders(p) /\ Holders(p)' = Holders(p) \cup {h}
    <2>1. handlers[h].pc \notin ChatPc /\ handlers'[h].pc \in ChatPc /\ handlers'[h].process = p
      BY <1>1, <1>2, <1>4 DEF ChatPc
    <2> QED
      BY <1>4, <1>6, <2>1
  <1>8. ASSUME NEW q \in Process, q # p PROVE Steady(q)
    <2>1. handlers[h].pc \notin ChatPc /\ handlers'[h].process # q
      BY <1>1, <1>2, <1>4, <1>8 DEF ChatPc
    <2>2. Holders(q)' = Holders(q) /\ h \notin Holders(q)
      <3>1. h \notin Holders(q) /\ h \notin Holders(q)'
        BY <1>6, <2>1
      <3>2. \A g : g # h => (g \in Holders(q)' <=> g \in Holders(q))
        BY <1>4, <1>6
      <3> QED
        BY <3>1, <3>2
    <2>3. \A g \in Holders(q) : HeldBy(g)' = HeldBy(g)
      BY <1>4, <1>6, <2>2 DEF HeldBy
    <2>4. processes'[q] = processes[q] /\ queues'[q] = queues[q] /\ permits'[q] = permits[q]
      BY <1>2, <1>5, <1>8
    <2> QED
      BY <2>2, <2>3, <2>4 DEF Steady
  <1>9. Room(p)'
    <2>1. Room(p)
      BY CapacityIsRoom
    <2> DEFINE held == {HeldBy(g) : g \in Holders(p)}
               more == {HeldBy(g) : g \in Holders(p)}'
    <2>2. permits[p] = QueuedPermits(p) \cup held
      BY <1>2, <2>1 DEF Room
    <2>3. x \notin QueuedPermits(p)
      <3>1. ASSUME NEW i \in DOMAIN queues[p], x = PermitOf(queues[p][i].run, queues[p][i].attempt)
            PROVE  FALSE
        <4>1. queues[p][i].run = r
          BY <3>1 DEF PermitOf
        <4> QED
          BY <1>2, <4>1, PermitFacts
      <3> QED
        BY <3>1, PermitFacts
    <2>4. x \notin held
      <3>1. \A g \in Holders(p) : HeldBy(g).run # r
        BY <1>2, <1>6 DEF HeldBy, PermitOf
      <3> QED
        BY <3>1 DEF PermitOf
    <2>5. more = held \cup {x}
      <3>1. HeldBy(h)' = x
        BY <1>1, <1>4 DEF HeldBy, PermitOf
      <3>2. \A g \in Holders(p) : HeldBy(g)' = HeldBy(g)
        BY <1>4, <1>6, <1>7 DEF HeldBy
      <3> QED
        BY <1>7, <3>1, <3>2
    <2>6. QueuedPermits(p)' = QueuedPermits(p) /\ queues' = queues /\ processes'[p] = "up"
      BY <1>2 DEF QueuedPermits
    <2> HIDE DEF held, more, x
    <2>7. permits'[p] = QueuedPermits(p)' \cup more /\ x \notin permits[p]
      BY <1>5, <2>2, <2>3, <2>4, <2>5, <2>6
    <2>8. IsFiniteSet(permits'[p]) /\ Cardinality(permits'[p]) = Cardinality(permits[p]) + 1
      BY <1>5, <2>1, <2>7, FS_AddElement DEF Room
    <2>9. IsFiniteSet(Holders(p)') /\ Cardinality(Holders(p)') = Cardinality(Holders(p)) + 1
      BY <1>7, <2>1, FS_AddElement DEF Room
    <2>10. /\ Cardinality(permits[p]) \in Nat /\ Cardinality(Holders(p)) \in Nat
           /\ Len(queues[p]) \in Nat
           /\ Cardinality(permits[p]) = Len(queues[p]) + Cardinality(Holders(p))
      BY <1>2, <2>1, SlotFacts, FS_CardinalityType DEF Room
    <2>11. /\ Cardinality(permits'[p]) = Len(queues'[p]) + Cardinality(Holders(p)')
           /\ Cardinality(permits'[p]) <= QueueCapacity
      <3>1. \A a, b, c, n \in Nat : a = b + c /\ a < n => a + 1 = b + (c + 1) /\ a + 1 <= n
        OBVIOUS
      <3>2. QueueCapacity \in Nat /\ Len(queues'[p]) = Len(queues[p])
        BY <2>6, ServiceAssumption
      <3> QED
        BY <1>2, <2>8, <2>9, <2>10, <3>1, <3>2
    <2> QED
      BY <2>6, <2>7, <2>8, <2>9, <2>11 DEF Room, more
  <1> QED
    BY <1>5, <1>8, <1>9, CapacityStep

\* The permits of a queue with one more job.
LEMMA QueuedMore ==
    ASSUME Jobs, NEW p \in Process, NEW job \in Job, queues' = [queues EXCEPT ![p] = Append(@, job)]
    PROVE  /\ QueuedPermits(p)' = QueuedPermits(p) \cup {PermitOf(job.run, job.attempt)}
           /\ Len(queues'[p]) = Len(queues[p]) + 1
           /\ \A q \in Process : q # p => queues'[q] = queues[q]
  <1> DEFINE s == queues[p]
             new == Append(s, job)
  <1>1. s \in Seq(Job) /\ queues'[p] = new /\ \A q \in Process : q # p => queues'[q] = queues[q]
    BY DEF Jobs, WorkerStates
  <1>2. /\ Len(new) = Len(s) + 1 /\ DOMAIN new = 1..Len(s) + 1 /\ DOMAIN s = 1..Len(s)
        /\ \A i \in 1..Len(s) : new[i] = s[i]
        /\ new[Len(s) + 1] = job /\ Len(s) \in Nat
    BY <1>1
  <1> HIDE DEF new, s
  <1>3. \A i : i \in DOMAIN new <=> i \in DOMAIN s \/ i = Len(s) + 1
    BY <1>2
  <1>4. /\ QueuedPermits(p)' = {PermitOf(new[i].run, new[i].attempt) : i \in DOMAIN new}
        /\ QueuedPermits(p) = {PermitOf(s[i].run, s[i].attempt) : i \in DOMAIN s}
    BY <1>1 DEF QueuedPermits, s
  <1>5. \A i \in DOMAIN s : new[i] = s[i]
    BY <1>2
  <1>6. QueuedPermits(p)' = QueuedPermits(p) \cup {PermitOf(job.run, job.attempt)}
    BY <1>2, <1>3, <1>4, <1>5
  <1> QED
    BY <1>1, <1>2, <1>6 DEF s

\* The permit of a handler becomes its job's.
LEMMA ChatDeliverCapacity ==
    ASSUME StoreInv, Requests, Deliveries, Jobs, Capacity, UNCHANGED <<processes, permits>>,
           NEW h \in Handler, handlers[h].pc \in ChatPc, Return(h),
           NEW p \in Process, p = handlers[h].process, NEW job \in Job,
           queues' = [queues EXCEPT ![p] = Append(@, job)],
           PermitOf(job.run, job.attempt) = HeldBy(h), processes[p] = "up"
    PROVE  Capacity'
  <1> DEFINE x == HeldBy(h)
  <1>1. /\ QueuedPermits(p)' = QueuedPermits(p) \cup {x}
        /\ Len(queues'[p]) = Len(queues[p]) + 1
        /\ \A q \in Process : q # p => queues'[q] = queues[q]
    BY QueuedMore
  <1>2. /\ \A q \in Process : Holders(q)' = Holders(q) \ {h}
        /\ \A q \in Process : h \in Holders(q) <=> q = p
        /\ \A q \in Process : \A g \in Holders(q) \ {h} : HeldBy(g)' = HeldBy(g)
    BY HolderLeaves
  <1> HIDE DEF x
  <1>3. permits' \in [Process -> SUBSET Permit]
    BY DEF Capacity
  <1>4. ASSUME NEW q \in Process, q # p PROVE Steady(q)
    <2>1. h \notin Holders(q) /\ Holders(q)' = Holders(q) \ {h}
      BY <1>2, <1>4
    <2>2. Holders(q)' = Holders(q) /\ \A g \in Holders(q) : HeldBy(g)' = HeldBy(g)
      BY <1>2, <2>1
    <2>3. processes'[q] = processes[q] /\ queues'[q] = queues[q] /\ permits'[q] = permits[q]
      BY <1>1, <1>4
    <2> QED
      BY <2>2, <2>3 DEF Steady
  <1>5. Room(p)'
    <2>1. Room(p)
      BY CapacityIsRoom
    <2>2. h \in Holders(p) /\ Holders(p)' = Holders(p) \ {h}
      BY <1>2
    <2> DEFINE held == {HeldBy(g) : g \in Holders(p)}
               kept == {HeldBy(g) : g \in Holders(p)}'
    <2>3. permits[p] = QueuedPermits(p) \cup held /\ x \in held
      BY <2>1, <2>2 DEF Room, x
    <2>4. kept \cup {x} = held
      <3>1. kept = {HeldBy(g) : g \in Holders(p) \ {h}}
        BY <1>2, <2>2
      <3> QED
        BY <2>2, <3>1 DEF x
    <2> HIDE DEF held, kept
    <2>5. permits'[p] = QueuedPermits(p)' \cup kept
      BY <1>1, <2>3, <2>4
    <2>6. /\ IsFiniteSet(Holders(p)') /\ Cardinality(Holders(p)') = Cardinality(Holders(p)) - 1
      BY <2>1, <2>2, FS_RemoveElement DEF Room
    <2>7. /\ Cardinality(Holders(p)) \in Nat /\ Len(queues[p]) \in Nat
          /\ Cardinality(permits[p]) = Len(queues[p]) + Cardinality(Holders(p))
          /\ Cardinality(permits[p]) <= QueueCapacity
      BY <2>1, SlotFacts, FS_CardinalityType DEF Room
    <2>8. Cardinality(permits'[p]) = Len(queues'[p]) + Cardinality(Holders(p)')
      <3>1. \A b, c \in Nat : b + c = (b + 1) + (c - 1)
        OBVIOUS
      <3> QED
        BY <1>1, <2>6, <2>7, <3>1
    <2>9. IsFiniteSet(permits'[p])
      BY <2>1 DEF Room
    <2> QED
      BY <2>5, <2>6, <2>7, <2>8, <2>9 DEF Room, kept
  <1> QED
    BY <1>3, <1>4, <1>5, CapacityStep

\* A resumed attempt takes a permit as it is queued.
LEMMA ResumeDeliverCapacity ==
    ASSUME StoreInv, Requests, Deliveries, Jobs, Capacity, processes' = processes,
           NEW h \in Handler, handlers[h].pc = "admitting", Return(h),
           NEW p \in Process, HasCapacity(p), NEW job \in Job,
           queues' = [queues EXCEPT ![p] = Append(@, job)],
           permits' = [permits EXCEPT ![p] = @ \cup {PermitOf(job.run, job.attempt)}],
           ~Given(job.run, job.attempt), job.attempt # 1
    PROVE  Capacity'
  <1> DEFINE x == PermitOf(job.run, job.attempt)
  <1>1. /\ QueuedPermits(p)' = QueuedPermits(p) \cup {x}
        /\ Len(queues'[p]) = Len(queues[p]) + 1
        /\ \A q \in Process : q # p => queues'[q] = queues[q]
    BY QueuedMore
  <1>2. handlers'[h] = IdleHandler /\ \A g \in Handler : g # h => handlers'[g] = handlers[g]
    BY DEF Return, Requests
  <1>3. handlers[h].pc \notin ChatPc /\ handlers'[h].pc \notin ChatPc
    BY <1>2, IdleTypes DEF ChatPc
  <1>4. ASSUME NEW q \in Process
        PROVE  Holders(q)' = Holders(q) /\ \A g \in Holders(q) : HeldBy(g)' = HeldBy(g)
    <2>1. /\ \A g : g \in Holders(q) <=>
                g \in Handler /\ handlers[g].process = q /\ handlers[g].pc \in ChatPc
          /\ \A g : g \in Holders(q)' <=>
                g \in Handler /\ handlers'[g].process = q /\ handlers'[g].pc \in ChatPc
      BY DEF Holders, ChatPc
    <2>2. h \notin Holders(q) /\ h \notin Holders(q)'
      BY <1>3, <2>1
    <2>3. \A g : g # h => (g \in Holders(q)' <=> g \in Holders(q))
      BY <1>2, <2>1
    <2>4. Holders(q)' = Holders(q)
      <3>1. \A g : g \in Holders(q)' <=> g \in Holders(q)
        BY <2>2, <2>3
      <3> QED
        BY <3>1
    <2> QED
      BY <1>2, <2>1, <2>2, <2>4 DEF HeldBy
  <1>5. x \in Permit
    BY DEF Permit, PermitOf, Job
  <1>6. /\ permits' \in [Process -> SUBSET Permit] /\ permits'[p] = permits[p] \cup {x}
        /\ \A q \in Process : q # p => permits'[q] = permits[q]
    BY <1>5 DEF Capacity
  <1>7. ASSUME NEW q \in Process, q # p PROVE Steady(q)
    BY <1>1, <1>4, <1>6, <1>7 DEF Steady
  <1>8. Room(p)'
    <2>1. Room(p) /\ processes[p] = "up" /\ Cardinality(permits[p]) < QueueCapacity
      BY CapacityIsRoom DEF HasCapacity
    <2>2. Holders(p)' = Holders(p)
      BY <1>4
    <2> DEFINE held == {HeldBy(g) : g \in Holders(p)}
    <2>3. permits[p] = QueuedPermits(p) \cup held
      BY <2>1 DEF Room
    <2>4. {HeldBy(g) : g \in Holders(p)}' = held
      BY <1>4
    <2>5. x \notin QueuedPermits(p)
      <3>1. ASSUME NEW i \in DOMAIN queues[p], x = PermitOf(queues[p][i].run, queues[p][i].attempt)
            PROVE  FALSE
        <4>1. queues[p][i].run = job.run /\ queues[p][i].attempt = job.attempt
          BY <3>1 DEF PermitOf
        <4> QED
          BY <4>1, PermitFacts
      <3> QED
        BY <3>1, PermitFacts
    <2>6. x \notin held
      <3>1. \A g \in Holders(p) : HeldBy(g).attempt = 1
        BY PermitFacts DEF HeldBy, PermitOf
      <3> QED
        BY <3>1 DEF PermitOf
    <2> HIDE DEF held, x
    <2>7. permits'[p] = QueuedPermits(p)' \cup held /\ x \notin permits[p]
      BY <1>1, <1>6, <2>3, <2>5, <2>6
    <2>8. IsFiniteSet(permits'[p]) /\ Cardinality(permits'[p]) = Cardinality(permits[p]) + 1
      BY <1>6, <2>1, <2>7, FS_AddElement DEF Room
    <2>9. /\ Cardinality(permits[p]) \in Nat /\ Cardinality(Holders(p)) \in Nat
          /\ Len(queues[p]) \in Nat /\ IsFiniteSet(Holders(p))
          /\ Cardinality(permits[p]) = Len(queues[p]) + Cardinality(Holders(p))
      BY <2>1, SlotFacts, FS_CardinalityType DEF Room
    <2>10. /\ Cardinality(permits'[p]) = Len(queues'[p]) + Cardinality(Holders(p)')
           /\ Cardinality(permits'[p]) <= QueueCapacity
      <3>1. \A a, b, c, n \in Nat : a = b + c /\ a < n => a + 1 = (b + 1) + c /\ a + 1 <= n
        OBVIOUS
      <3>2. QueueCapacity \in Nat
        BY ServiceAssumption
      <3> QED
        BY <1>1, <2>1, <2>2, <2>8, <2>9, <3>1, <3>2
    <2> QED
      BY <2>1, <2>2, <2>4, <2>7, <2>8, <2>9, <2>10 DEF Room
  <1> QED
    BY <1>6, <1>7, <1>8, CapacityStep

LEMMA DequeueCapacity ==
    ASSUME StoreInv, Requests, Deliveries, Jobs, Capacity, NEW p \in Process, Dequeue(p)
    PROVE  Capacity'
  <1> DEFINE s == queues[p]
             x == PermitOf(s[1].run, s[1].attempt)
  <1>1. s \in Seq(Job) /\ s # <<>> /\ Len(s) \in Nat /\ DOMAIN s = 1..Len(s)
    BY SlotFacts DEF Dequeue
  <1>2. Head(s) = s[1] /\ Len(s) >= 1
    BY <1>1
  <1>3. /\ queues' = [queues EXCEPT ![p] = Tail(s)] /\ UNCHANGED <<processes, handlers>>
        /\ processes[p] = "up" /\ permits' = [permits EXCEPT ![p] = @ \ {x}]
    BY <1>2 DEF Dequeue, CancelPermit
  <1>4. /\ queues'[p] = Tail(s) /\ \A q \in Process : q # p => queues'[q] = queues[q]
        /\ permits' \in [Process -> SUBSET Permit] /\ permits'[p] = permits[p] \ {x}
        /\ \A q \in Process : q # p => permits'[q] = permits[q]
    BY <1>3 DEF Capacity, Jobs, WorkerStates
  <1>5. /\ Len(Tail(s)) = Len(s) - 1 /\ DOMAIN Tail(s) = 1..Len(s) - 1
        /\ \A i \in 1..Len(s) - 1 : Tail(s)[i] = s[i + 1]
    BY <1>1
  <1>6. \A q \in Process : Holders(q)' = Holders(q) /\ \A g \in Holders(q) : HeldBy(g)' = HeldBy(g)
    BY <1>3 DEF Holders, HeldBy
  <1>7. ASSUME NEW q \in Process, q # p PROVE Steady(q)
    BY <1>3, <1>4, <1>6, <1>7 DEF Steady
  <1>8. QueuedPermits(p)' = QueuedPermits(p) \ {x} /\ x \in QueuedPermits(p)
    <2> DEFINE of(i) == PermitOf(s[i].run, s[i].attempt)
    <2>1. QueuedPermits(p) = {of(i) : i \in 1..Len(s)}
      BY <1>1 DEF QueuedPermits
    <2>2. QueuedPermits(p)' = {PermitOf(Tail(s)[i].run, Tail(s)[i].attempt) : i \in 1..Len(s) - 1}
      BY <1>4, <1>5 DEF QueuedPermits
    <2>3. QueuedPermits(p)' = {of(i + 1) : i \in 1..Len(s) - 1}
      BY <1>5, <2>2
    <2>4. \A i \in 2..Len(s) : of(i) # x
      <3>1. SUFFICES ASSUME NEW i \in 2..Len(s), of(i) = x PROVE FALSE
        OBVIOUS
      <3>2. i \in DOMAIN s /\ 1 \in DOMAIN s /\ i # 1
        BY <1>1, <1>2
      <3>3. s[i].run = s[1].run /\ s[i].attempt = s[1].attempt
        BY <3>1 DEF PermitOf
      <3>4. /\ i \in Slots(p) /\ 1 \in Slots(p) /\ SlotJob(p, i) = s[i] /\ SlotJob(p, 1) = s[1]
        BY <3>2, SlotFacts
      <3> QED
        BY <3>2, <3>3, <3>4 DEF Jobs, OneSlot
    <2>5. x = of(1)
      OBVIOUS
    <2> HIDE DEF x, of, s
    <2>6. ASSUME NEW y PROVE y \in QueuedPermits(p)' <=> y \in QueuedPermits(p) /\ y # x
      <3>1. ASSUME y \in QueuedPermits(p)' PROVE y \in QueuedPermits(p) /\ y # x
        <4>1. PICK i \in 1..Len(s) - 1 : y = of(i + 1)
          BY <2>3, <3>1
        <4>2. i + 1 \in 1..Len(s) /\ i + 1 \in 2..Len(s)
          BY <1>1
        <4> QED
          BY <2>1, <2>4, <4>1, <4>2
      <3>2. ASSUME y \in QueuedPermits(p), y # x PROVE y \in QueuedPermits(p)'
        <4>1. PICK i \in 1..Len(s) : y = of(i)
          BY <2>1, <3>2
        <4>2. i # 1
          BY <2>5, <3>2, <4>1
        <4>3. i - 1 \in 1..Len(s) - 1 /\ (i - 1) + 1 = i
          BY <1>1, <4>2
        <4>4. y = of((i - 1) + 1)
          BY <4>1, <4>3
        <4> QED
          BY <2>3, <4>3, <4>4
      <3> QED
        BY <3>1, <3>2
    <2>7. x \in QueuedPermits(p)
      BY <1>1, <1>2, <2>1, <2>5
    <2> QED
      BY <2>6, <2>7
  <1>9. Room(p)'
    <2>1. Room(p)
      BY CapacityIsRoom
    <2> DEFINE held == {HeldBy(g) : g \in Holders(p)}
    <2>2. permits[p] = QueuedPermits(p) \cup held
      BY <1>3, <2>1 DEF Room
    <2>3. {HeldBy(g) : g \in Holders(p)}' = held
      BY <1>6
    <2>4. x \notin held
      <3>1. SUFFICES ASSUME NEW g \in Holders(p), HeldBy(g) = x PROVE FALSE
        OBVIOUS
      <3>2. s[1].run = handlers[g].run /\ s[1].attempt = handlers[g].attempt
        BY <3>1 DEF HeldBy, PermitOf
      <3>3. Given(s[1].run, s[1].attempt)
        BY <1>1, <1>2, PermitFacts
      <3> QED
        BY <3>2, <3>3, PermitFacts
    <2> HIDE DEF held, x, s
    <2>5. permits'[p] = QueuedPermits(p)' \cup held /\ x \in permits[p]
      BY <1>4, <1>8, <2>2, <2>4
    <2>6. IsFiniteSet(permits'[p]) /\ Cardinality(permits'[p]) = Cardinality(permits[p]) - 1
      <3>1. IsFiniteSet(permits[p])
        BY <2>1 DEF Room
      <3>2. /\ IsFiniteSet(permits[p] \ {x})
            /\ Cardinality(permits[p] \ {x}) =
                 IF x \in permits[p] THEN Cardinality(permits[p]) - 1 ELSE Cardinality(permits[p])
        BY <3>1, FS_RemoveElement
      <3> QED
        BY <1>4, <2>5, <3>2
    <2>7. /\ Cardinality(permits[p]) \in Nat /\ Cardinality(Holders(p)) \in Nat
          /\ IsFiniteSet(Holders(p))
          /\ Cardinality(permits[p]) = Len(s) + Cardinality(Holders(p))
          /\ Cardinality(permits[p]) <= QueueCapacity
      BY <1>3, <2>1, FS_CardinalityType DEF Room, s
    <2>8. /\ Cardinality(permits'[p]) = Len(queues'[p]) + Cardinality(Holders(p)')
          /\ Cardinality(permits'[p]) <= QueueCapacity
      <3>1. \A a, b, c, n \in Nat : a = b + c /\ a <= n => a - 1 = (b - 1) + c /\ a - 1 <= n
        OBVIOUS
      <3>2. QueueCapacity \in Nat /\ Holders(p)' = Holders(p) /\ Len(queues'[p]) = Len(s) - 1
        BY <1>4, <1>5, <1>6, ServiceAssumption
      <3>3. Len(s) \in Nat
        BY <1>1
      <3>4. /\ Cardinality(permits[p]) - 1 = (Len(s) - 1) + Cardinality(Holders(p))
            /\ Cardinality(permits[p]) - 1 <= QueueCapacity
        BY <2>7, <3>1, <3>2, <3>3
      <3> QED
        BY <2>6, <3>2, <3>4
    <2> QED
      BY <1>3, <1>6, <2>3, <2>5, <2>6, <2>7, <2>8 DEF Room
  <1> QED
    BY <1>4, <1>7, <1>9, CapacityStep

\* A process starts, and nobody held a permit of it.
LEMMA StartCapacity ==
    ASSUME Requests, Jobs, Capacity, NEW p \in Process, Start(p)
    PROVE  Capacity'
  <1>1. /\ processes[p] = "down" /\ processes' = [processes EXCEPT ![p] = "up"]
        /\ UNCHANGED <<queues, permits, handlers>>
    BY DEF Start
  <1>2. \A q \in Process : Holders(q)' = Holders(q) /\ \A g \in Holders(q) : HeldBy(g)' = HeldBy(g)
    BY <1>1 DEF Holders, HeldBy
  <1>3. processes'[p] = "up" /\ \A q \in Process : q # p => processes'[q] = processes[q]
    BY <1>1 DEF Requests
  <1>4. ASSUME NEW q \in Process, q # p PROVE Steady(q)
    BY <1>1, <1>2, <1>3, <1>4 DEF Steady
  <1>5. Room(p)'
    <2>1. queues[p] = <<>> /\ permits[p] = {}
      BY <1>1, CapacityIsRoom DEF Jobs, WorkerStates, Room
    <2>2. Holders(p) = {}
      BY <1>1 DEF Holders, Requests, Serving
    <2>3. QueuedPermits(p)' = {} /\ {HeldBy(g) : g \in Holders(p)}' = {}
      BY <1>1, <1>2, <2>1, <2>2 DEF QueuedPermits
    <2>4. IsFiniteSet({}) /\ Cardinality({}) = 0 /\ Len(queues'[p]) = 0
      BY <1>1, <2>1, FS_EmptySet
    <2>5. QueueCapacity \in Nat
      BY ServiceAssumption
    <2>6. permits'[p] = {} /\ Holders(p)' = {} /\ 0 <= QueueCapacity
      BY <1>1, <1>2, <2>1, <2>2, <2>5
    <2> QED
      BY <1>3, <2>3, <2>4, <2>6 DEF Room
  <1>6. permits' \in [Process -> SUBSET Permit]
    BY <1>1 DEF Capacity
  <1> QED
    BY <1>4, <1>5, <1>6, CapacityStep

\* A process stops serving, and every permit of it is gone.
LEMMA StopCapacity ==
    ASSUME Requests, Jobs, Capacity, NEW p \in Process, NEW state, state # "up",
           processes' = [processes EXCEPT ![p] = state],
           queues' = [queues EXCEPT ![p] = <<>>], permits' = [permits EXCEPT ![p] = {}],
           \A h \in Handler : \/ handlers'[h] = handlers[h]
                              \/ handlers[h].process = p /\ handlers'[h] = IdleHandler
    PROVE  Capacity'
  <1>1. /\ processes'[p] # "up" /\ permits'[p] = {}
        /\ permits' \in [Process -> SUBSET Permit]
        /\ \A q \in Process : q # p => /\ processes'[q] = processes[q] /\ queues'[q] = queues[q]
                                       /\ permits'[q] = permits[q]
    BY DEF Requests, Jobs, WorkerStates, Capacity
  <1>2. ASSUME NEW q \in Process
        PROVE  /\ \A g : g \in Holders(q) <=>
                      g \in Handler /\ handlers[g].process = q /\ handlers[g].pc \in ChatPc
               /\ \A g : g \in Holders(q)' <=>
                      g \in Handler /\ handlers'[g].process = q /\ handlers'[g].pc \in ChatPc
    BY DEF Holders, ChatPc
  <1>3. IdleHandler.pc \notin ChatPc
    BY IdleTypes DEF ChatPc
  <1>4. ASSUME NEW q \in Process, q # p PROVE Steady(q)
    <2>1. \A g : g \in Holders(q)' <=> g \in Holders(q)
      BY <1>2, <1>3, <1>4
    <2>2. Holders(q)' = Holders(q)
      BY <2>1
    <2>3. \A g \in Holders(q) : HeldBy(g)' = HeldBy(g)
      BY <1>2, <1>4 DEF HeldBy
    <2> QED
      BY <1>1, <1>4, <2>2, <2>3 DEF Steady
  <1>5. Room(p)'
    <2>1. \A g \in Holders(p)' : g \in Holders(p)
      BY <1>2, <1>3
    <2>2. IsFiniteSet(Holders(p))
      BY CapacityIsRoom DEF Room
    <2>3. IsFiniteSet(Holders(p)') /\ IsFiniteSet({})
      BY <2>1, <2>2, FS_Subset, FS_EmptySet
    <2> QED
      BY <1>1, <2>3 DEF Room
  <1> QED
    BY <1>1, <1>4, <1>5, CapacityStep

-----------------------------------------------------------------------------
(* The steps *)

\* A step that only the stores and one handler see.
LEMMA QuietStep ==
    ASSUME RunInv, StoreInv', Onward, Untried, Requests', Capacity',
           UNCHANGED <<processes, queues, workers, delivered>>
    PROVE  RunInv'
  <1>1. Jobs'
    BY JobsStay DEF RunInv
  <1>2. Deliveries'
    BY DeliveriesStay DEF RunInv, Untried
  <1> QED
    BY <1>1, <1>2 DEF RunInv

LEMMA HandlerStepInv ==
    ASSUME RunInv, NEW h \in Handler, HandlerStep(h)
    PROVE  RunInv'
  <1> USE DEF RunInv
  <1> DEFINE v == handlers[h]
  <1>1. v \in HandlerState /\ v.attempt \in Nat /\ Serving(v) /\ handlers \in [Handler -> HandlerState]
    BY DEF Requests, HandlerState
  <1>2. v.pc # "idle" => v.run \in Run /\ v.process \in Process
    BY <1>1 DEF Serving
  <1>3. ASSUME UNCHANGED storeVars PROVE StoreInv' /\ Onward /\ Untried
    BY <1>3, StoreStays
  <1>4. ASSUME NEW p \in Process, NEW r \in Run, ChatReserve(h, p, r) PROVE RunInv'
    <2>1. StoreInv' /\ Onward /\ Untried
      BY <1>3, <1>4 DEF ChatReserve
    <2>2. Requests'
      BY <1>4, <2>1, HandlerRequests
    <2>3. Capacity'
      BY <1>4, ReserveCapacity
    <2>4. UNCHANGED <<processes, queues, workers, delivered>>
      BY <1>4 DEF ChatReserve
    <2> QED
      BY <2>1, <2>2, <2>3, <2>4, QuietStep
  <1>5. ASSUME NEW level \in {"L1", "L2"}, ChatCreate(h, level) PROVE RunInv'
    <2>1. v.pc = "creating" /\ Create(v.run, level) /\ Await(h, "building")
      BY <1>5 DEF ChatCreate
    <2>2. StoreInv' /\ Onward /\ Untried /\ runs'[v.run] # NoRow
      BY <1>2, <2>1, CreateStores
    <2>3. Requests'
      BY <1>5, <2>2, HandlerRequests
    <2>4. UNCHANGED <<processes, queues, workers, delivered, permits>>
      BY <1>5 DEF ChatCreate
    <2> DEFINE new == [v EXCEPT !.pc = "building"]
    <2>5. /\ new.pc = "building" /\ new.run = v.run /\ new.attempt = v.attempt
          /\ new.process = v.process /\ handlers' = [handlers EXCEPT ![h] = new]
      BY <1>1, <2>1 DEF HandlerState, Await
    <2> HIDE DEF new
    <2>6. Capacity'
      BY <2>1, <2>4, <2>5, CapacityHandler DEF ChatPc
    <2> QED
      BY <2>2, <2>3, <2>4, <2>6, QuietStep
  <1>6. ASSUME ChatCreateFails(h) PROVE RunInv'
    <2>1. /\ v.pc = "creating" /\ Return(h) /\ CancelPermit(v.process, HeldBy(h))
          /\ UNCHANGED <<processes, queues, workers, delivered>>
      BY <1>6 DEF ChatCreateFails
    <2>2. StoreInv' /\ Onward /\ Untried
      <3>1. CASE UNCHANGED storeVars
        BY <1>3, <3>1
      <3>2. CASE \E level \in {"L1", "L2"} : Create(v.run, level)
        BY <1>2, <2>1, <3>2, CreateStores
      <3> QED
        BY <1>6, <3>1, <3>2 DEF ChatCreateFails
    <2>3. Requests'
      BY <2>1, <2>2, Returns
    <2>4. v.pc \in ChatPc
      BY <2>1 DEF ChatPc
    <2>5. Capacity'
      BY <2>1, <2>4, CancelCapacity
    <2> QED
      BY <2>1, <2>2, <2>3, <2>5, QuietStep
  <1>7. ASSUME ChatDeliver(h) PROVE RunInv'
    <2> DEFINE job == [run |-> v.run, attempt |-> 1, leased |-> FALSE, version |-> 0]
               p == v.process
    <2>1. /\ v.pc = "building" /\ Return(h) /\ processes[p] = "up"
          /\ Enqueue(p, job) /\ UNCHANGED <<storeVars, processes, permits, workers>>
      BY <1>7 DEF ChatDeliver
    <2>2. v.run \in Run /\ p \in Process /\ v.attempt = 1 /\ delivered[v.run] = <<>> /\ v.pc \in ChatPc
      BY <1>1, <1>2, <2>1 DEF Serving, ChatPc
    <2>3. job \in Job /\ job.run = v.run /\ job.attempt = 1 /\ job.leased = FALSE /\ job.version = 0
      BY <2>2 DEF Job
    <2>4. PICK o \in Process : o = p
      BY <2>2
    <2>5. PICK n \in Job : n = job
      BY <2>3
    <2> HIDE DEF job, p
    <2>6. /\ queues' = [queues EXCEPT ![o] = Append(@, n)]
          /\ delivered' = [delivered EXCEPT ![n.run] = Append(@, n.attempt)]
          /\ Enqueue(o, n)
      BY <2>1, <2>4, <2>5 DEF Enqueue
    <2>7. /\ n.run \in Run /\ n.attempt \in Nat /\ n.attempt = 1 /\ n.run = v.run
          /\ n.leased = FALSE /\ n.version = 0
      BY <2>2, <2>3, <2>5
    <2>8. v.run = n.run /\ v.attempt = n.attempt /\ v.pc \in {"building", "admitting"}
      BY <2>1, <2>2, <2>7
    <2>9. /\ Requests' /\ Deliveries' /\ ~Given(n.run, n.attempt) /\ Given(n.run, n.attempt)'
          /\ runs[n.run] # NoRow
          /\ \A s \in Run, m \in Nat : Given(s, m) => Given(s, m)'
      BY <2>1, <2>6, <2>7, <2>8, DeliveryStep
    <2>10. Holds(n, n.version, runs[n.run], tries[n.run], delivered'[n.run])
      <3>1. tries[n.run] = <<>>
        BY <2>2, <2>7 DEF Deliveries
      <3> QED
        BY <2>7, <2>9, <3>1 DEF Holds, Given
    <2>11. Jobs'
      BY <2>1, <2>4, <2>6, <2>9, <2>10, EnqueueJobs
    <2>12. PermitOf(n.run, n.attempt) = HeldBy(h)
      BY <2>8 DEF HeldBy
    <2>13. Capacity'
      BY <2>1, <2>2, <2>4, <2>6, <2>12, ChatDeliverCapacity DEF p
    <2>14. StoreInv'
      BY <1>3, <2>1
    <2> QED
      BY <2>9, <2>11, <2>13, <2>14
  <1>8. ASSUME ChatDeliveryFails(h) PROVE RunInv'
    <2>1. /\ v.pc = "building" /\ Await(h, "failing")
          /\ UNCHANGED <<storeVars, processes, queues, workers, delivered, permits>>
      BY <1>8 DEF ChatDeliveryFails
    <2>2. StoreInv' /\ Onward /\ Untried
      BY <1>3, <2>1
    <2>3. Requests'
      BY <1>8, <2>2, HandlerRequests
    <2> DEFINE new == [v EXCEPT !.pc = "failing"]
    <2>4. /\ new.pc = "failing" /\ new.run = v.run /\ new.attempt = v.attempt
          /\ new.process = v.process /\ handlers' = [handlers EXCEPT ![h] = new]
      BY <1>1, <2>1 DEF HandlerState, Await
    <2> HIDE DEF new
    <2>5. Capacity'
      BY <2>1, <2>4, CapacityHandler DEF ChatPc
    <2> QED
      BY <2>1, <2>2, <2>3, <2>5, QuietStep
  <1>9. ASSUME ChatFailDelivery(h) PROVE RunInv'
    <2>1. /\ v.pc = "failing" /\ Return(h) /\ CancelPermit(v.process, HeldBy(h))
          /\ UNCHANGED <<processes, queues, workers, delivered>>
      BY <1>9 DEF ChatFailDelivery
    <2>2. StoreInv' /\ Onward /\ Untried
      <3>1. CASE UNCHANGED storeVars
        BY <1>3, <3>1
      <3>2. CASE FailDelivery(v.run)
        BY <1>2, <2>1, <3>2, FailDeliveryStores
      <3> QED
        BY <1>9, <3>1, <3>2 DEF ChatFailDelivery
    <2>3. Requests'
      BY <2>1, <2>2, Returns
    <2>4. v.pc \in ChatPc
      BY <2>1 DEF ChatPc
    <2>5. Capacity'
      BY <2>1, <2>4, CancelCapacity
    <2> QED
      BY <2>1, <2>2, <2>3, <2>5, QuietStep
  <1>10. ASSUME NEW p \in Process, NEW r \in Run, NEW k \in Key, ResumeBegin(h, p, r, k) PROVE RunInv'
    <2>1. /\ v.pc = "idle" /\ BeginResume(r, k, WorkerOwner, TRUE)
          /\ UNCHANGED <<processes, queues, workers, delivered, permits>>
      BY <1>10 DEF ResumeBegin
    <2>2. /\ StoreInv' /\ Onward /\ Untried
          /\ Len(tries[r]) >= 1 /\ Len(tries'[r]) = Len(tries[r]) + 1
      BY <2>1, ResumeStores
    <2>3. Requests'
      BY <1>10, <2>2, HandlerRequests
    <2> DEFINE new == [IdleHandler EXCEPT !.pc = "reading", !.process = p, !.run = r,
                                          !.attempt = Len(tries[r]) + 1]
    <2>4. new.pc = "reading" /\ handlers' = [handlers EXCEPT ![h] = new]
      BY <1>10 DEF ResumeBegin, IdleHandler
    <2> HIDE DEF new
    <2>5. Capacity'
      BY <2>1, <2>4, CapacityHandler DEF ChatPc
    <2> QED
      BY <2>1, <2>2, <2>3, <2>5, QuietStep
  <1>11. ASSUME ResumeRead(h) PROVE RunInv'
    <2>1. /\ v.pc = "reading"
          /\ UNCHANGED <<storeVars, processes, queues, workers, delivered, permits>>
      BY <1>11 DEF ResumeRead
    <2>2. StoreInv' /\ Onward /\ Untried
      BY <1>3, <2>1
    <2>3. Requests'
      BY <1>11, <2>2, HandlerRequests
    <2> DEFINE new == [v EXCEPT !.pc = "admitting", !.version = checkpoints[v.run].version]
    <2>4. new.pc = "admitting" /\ handlers' = [handlers EXCEPT ![h] = new]
      BY <1>1, <1>11 DEF ResumeRead, HandlerState
    <2> HIDE DEF new
    <2>5. Capacity'
      BY <2>1, <2>4, CapacityHandler DEF ChatPc
    <2> QED
      BY <2>1, <2>2, <2>3, <2>5, QuietStep
  <1>12. ASSUME ResumeDeliver(h) PROVE RunInv'
    <2> DEFINE job == [run |-> v.run, attempt |-> v.attempt, leased |-> TRUE, version |-> v.version]
               p == v.process
    <2>1. /\ v.pc = "admitting" /\ Return(h) /\ HasCapacity(p)
          /\ permits' = [permits EXCEPT ![p] = @ \cup {HeldBy(h)}]
          /\ Enqueue(p, job) /\ UNCHANGED <<storeVars, processes, workers>>
      BY <1>12 DEF ResumeDeliver
    <2>2. /\ v.run \in Run /\ p \in Process /\ v.attempt >= 2 /\ v.attempt <= Len(tries[v.run])
          /\ v.version > 0 /\ v.version \in Nat
      BY <1>1, <1>2, <2>1 DEF Serving, ResumePc, HandlerState
    <2>3. /\ job \in Job /\ job.run = v.run /\ job.attempt = v.attempt /\ job.version = v.version
      BY <1>1, <2>2 DEF Job
    <2>4. PICK o \in Process : o = p
      BY <2>2
    <2>5. PICK n \in Job : n = job
      BY <2>3
    <2> HIDE DEF job, p
    <2>6. /\ queues' = [queues EXCEPT ![o] = Append(@, n)]
          /\ delivered' = [delivered EXCEPT ![n.run] = Append(@, n.attempt)]
          /\ Enqueue(o, n) /\ HasCapacity(o) /\ processes[o] = "up"
      BY <2>1, <2>4, <2>5 DEF Enqueue, HasCapacity
    <2>7. /\ n.run \in Run /\ n.attempt \in Nat /\ n.attempt >= 2 /\ n.attempt <= Len(tries[n.run])
          /\ n.version > 0 /\ n.version \in Nat /\ n.run = v.run /\ n.attempt = v.attempt
      BY <1>1, <2>2, <2>3, <2>5
    <2>8. v.pc \in {"building", "admitting"}
      BY <2>1
    <2>9. /\ Requests' /\ Deliveries' /\ ~Given(n.run, n.attempt) /\ Given(n.run, n.attempt)'
          /\ runs[n.run] # NoRow
          /\ \A s \in Run, m \in Nat : Given(s, m) => Given(s, m)'
      BY <2>1, <2>6, <2>7, <2>8, DeliveryStep
    <2>10. Holds(n, n.version, runs[n.run], tries[n.run], delivered'[n.run])
      BY <2>7, <2>9 DEF Holds, Given
    <2>11. Jobs'
      BY <2>1, <2>6, <2>9, <2>10, EnqueueJobs
    <2>12. permits' = [permits EXCEPT ![o] = @ \cup {PermitOf(n.run, n.attempt)}]
      BY <2>1, <2>4, <2>7 DEF HeldBy
    <2>13. n.attempt # 1
      BY <2>7
    <2>14. Capacity'
      BY <2>1, <2>6, <2>9, <2>12, <2>13, ResumeDeliverCapacity
    <2>15. StoreInv'
      BY <1>3, <2>1
    <2> QED
      BY <2>9, <2>11, <2>14, <2>15
  <1>13. ASSUME ResumeDeliveryFails(h) PROVE RunInv'
    <2>1. /\ v.pc \in {"reading", "admitting"} /\ Await(h, "sealing")
          /\ UNCHANGED <<storeVars, processes, queues, workers, delivered, permits>>
      BY <1>13 DEF ResumeDeliveryFails
    <2>2. StoreInv' /\ Onward /\ Untried
      BY <1>3, <2>1
    <2>3. Requests'
      BY <1>13, <2>2, HandlerRequests
    <2> DEFINE new == [v EXCEPT !.pc = "sealing"]
    <2>4. new.pc = "sealing" /\ handlers' = [handlers EXCEPT ![h] = new]
      BY <1>1, <2>1 DEF HandlerState, Await
    <2> HIDE DEF new
    <2>5. Capacity'
      BY <2>1, <2>4, CapacityHandler DEF ChatPc
    <2> QED
      BY <2>1, <2>2, <2>3, <2>5, QuietStep
  <1>14. ASSUME ResumeSeal(h) PROVE RunInv'
    <2>1. /\ v.pc = "sealing" /\ Return(h)
          /\ UNCHANGED <<processes, queues, workers, delivered, permits>>
      BY <1>14 DEF ResumeSeal
    <2>2. StoreInv' /\ Onward /\ Untried
      <3>1. CASE UNCHANGED storeVars
        BY <1>3, <3>1
      <3>2. CASE FailResumeDelivery(v.run, v.attempt, WorkerOwner)
        BY <1>1, <1>2, <2>1, <3>2, SealStores
      <3> QED
        BY <1>14, <3>1, <3>2 DEF ResumeSeal
    <2>3. Requests'
      BY <2>1, <2>2, Returns
    <2>4. handlers' = [handlers EXCEPT ![h] = IdleHandler]
      BY <2>1 DEF Return
    <2>5. Capacity'
      BY <2>1, <2>4, IdleTypes, CapacityHandler DEF ChatPc
    <2> QED
      BY <2>1, <2>2, <2>3, <2>5, QuietStep
  <1> QED
    BY <1>4, <1>5, <1>6, <1>7, <1>8, <1>9, <1>10, <1>11, <1>12, <1>13, <1>14 DEF HandlerStep

\* A worker's step that delivers nothing and leaves the queue.
LEMMA WorkerOnly ==
    ASSUME RunInv, StoreInv', Onward, Untried, NEW p \in Process, NEW w \in WorkerState,
           workers' = [workers EXCEPT ![p] = w],
           UNCHANGED <<processes, queues, permits, handlers, delivered>>,
           processes[p] # "up" => w = IdleWorker,
           \/ w = IdleWorker
           \/ /\ w.pc # "idle" /\ workers[p].pc # "idle"
              /\ w.job = workers[p].job /\ w.version = workers[p].version,
           w.pc = "starting" => w.job.leased,
           w.pc = "running" => runs'[w.job.run].status # "queued"
    PROVE  RunInv'
  <1>1. queues' = [queues EXCEPT ![p] = queues[p]] /\ queues[p] \in Seq(Job)
    BY DEF RunInv, Jobs, WorkerStates
  <1>2. processes'[p] # "up" => w = IdleWorker /\ queues[p] = <<>>
    BY DEF RunInv, Jobs, WorkerStates
  <1>3. Jobs'
    BY <1>1, <1>2, WorkerMoves DEF RunInv
  <1>4. Requests'
    <2>1. processes' \in [Process -> {"down", "up", "closing"}]
      BY DEF RunInv, Requests
    <2> QED
      BY <2>1, RequestsStay DEF RunInv
  <1>5. Capacity'
    BY CapacityStays DEF RunInv
  <1>6. Deliveries'
    BY DeliveriesStay DEF RunInv, Untried
  <1> QED
    BY <1>3, <1>4, <1>5, <1>6 DEF RunInv

\* What a worker that is not idle works on.
LEMMA WorkerFacts ==
    ASSUME RunInv, NEW p \in Process, workers[p].pc # "idle"
    PROVE  /\ workers[p] \in WorkerState /\ workers[p].job \in Job /\ workers[p].version \in Nat
           /\ JobRun(p) \in Run /\ JobRun(p) = workers[p].job.run
           /\ workers[p].job.attempt \in Nat \ {0}
           /\ runs[JobRun(p)] # NoRow /\ Given(JobRun(p), workers[p].job.attempt)
           /\ workers[p].version = 0 => tries[JobRun(p)] = <<>>
           /\ processes[p] = "up"
           /\ workers[p].pc = "running" => runs[JobRun(p)].status # "queued"
           /\ workers[p].pc = "starting" => workers[p].job.leased /\ workers[p].version > 0
  <1>1. /\ workers[p] \in WorkerState /\ SlotJob(p, 0) = workers[p].job /\ SlotJob(p, 0) \in Job
        /\ SlotVersion(p, 0) = workers[p].version /\ SlotVersion(p, 0) \in Nat
        /\ Carries(SlotJob(p, 0), SlotVersion(p, 0))
    BY SlotFacts DEF RunInv
  <1>2. /\ workers[p].job \in Job /\ workers[p].version \in Nat
        /\ Carries(workers[p].job, workers[p].version)
    BY <1>1
  <1>3. /\ JobRun(p) \in Run /\ JobRun(p) = workers[p].job.run
        /\ workers[p].job.attempt \in Nat \ {0} /\ workers[p].job.version \in Nat
    BY <1>2 DEF Job, JobRun
  <1>4. /\ runs[JobRun(p)] # NoRow /\ Given(JobRun(p), workers[p].job.attempt)
        /\ workers[p].version = 0 => tries[JobRun(p)] = <<>>
        /\ workers[p].job.leased => workers[p].job.version > 0
        /\ workers[p].job.version <= workers[p].version
    BY <1>2, <1>3 DEF Carries, Holds, Given
  <1>5. /\ processes[p] = "up"
        /\ workers[p].pc = "running" => runs[JobRun(p)].status # "queued"
        /\ workers[p].pc = "starting" => workers[p].job.leased
    BY <1>3, IdleTypes DEF RunInv, Jobs, WorkerStates
  <1>6. workers[p].pc = "starting" => workers[p].version > 0
    BY <1>2, <1>3, <1>4, <1>5
  <1> QED
    BY <1>1, <1>2, <1>3, <1>4, <1>5, <1>6

LEMMA WorkerStepInv ==
    ASSUME RunInv, NEW p \in Process, WorkerStep(p)
    PROVE  RunInv'
  <1> DEFINE v == workers[p]
             r == JobRun(p)
  <1>1. StoreInv /\ workers \in [Process -> WorkerState] /\ v \in WorkerState
    BY DEF RunInv, Jobs, WorkerStates
  <1>2. ASSUME UNCHANGED storeVars PROVE StoreInv' /\ Onward /\ Untried
    BY <1>1, <1>2, StoreStays
  <1>3. ASSUME Dequeue(p) PROVE RunInv'
    <2>1. UNCHANGED <<storeVars, processes, handlers, delivered>>
      BY <1>3 DEF Dequeue
    <2>2. StoreInv' /\ Onward /\ Untried
      BY <1>2, <2>1
    <2>3. Jobs' /\ Capacity'
      BY <1>3, DequeueJobs, DequeueCapacity DEF RunInv
    <2>4. Requests'
      <3>1. processes' \in [Process -> {"down", "up", "closing"}]
        BY <2>1 DEF RunInv, Requests
      <3> QED
        BY <2>1, <2>2, <3>1, RequestsStay DEF RunInv
    <2>5. Deliveries'
      BY <2>1, <2>2, DeliveriesStay DEF RunInv, Untried
    <2> QED
      BY <2>2, <2>3, <2>4, <2>5 DEF RunInv
  <1>4. ASSUME ClaimJob(p) PROVE RunInv'
    <2> DEFINE w == [v EXCEPT !.pc = "running"]
    <2>1. /\ v.pc = "claiming" /\ Claim(r, WorkerOwner)
          /\ workers' = [workers EXCEPT ![p].pc = "running"]
          /\ UNCHANGED <<processes, queues, permits, handlers, delivered>>
      BY <1>4 DEF ClaimJob
    <2>2. r \in Run /\ r = v.job.run /\ processes[p] = "up"
      BY <2>1, WorkerFacts
    <2>3. StoreInv' /\ Onward /\ Untried /\ runs'[r].status # "queued"
      BY <1>1, <2>1, <2>2, ClaimStores
    <2>4. w \in WorkerState /\ w.pc = "running" /\ w.job = v.job /\ w.version = v.version
      BY <1>1 DEF WorkerState
    <2>5. workers' = [workers EXCEPT ![p] = w]
      BY <1>1, <2>1
    <2> HIDE DEF w
    <2>6. runs'[w.job.run].status # "queued"
      BY <2>2, <2>3, <2>4
    <2> QED
      BY <2>1, <2>2, <2>3, <2>4, <2>5, <2>6, WorkerOnly
  <1>5. ASSUME NEW receipts \in 0..1, ReconcileEgress(p, receipts) PROVE RunInv'
    <2> DEFINE w == [v EXCEPT !.pc = "running"]
               n == v.job.attempt
               events == [i \in 1..receipts |-> Audit(n)]
    <2>1. /\ v.pc = "starting" /\ AppendEvents(r, WorkerOwner, events)
          /\ workers' = [workers EXCEPT ![p].pc = "running"]
          /\ UNCHANGED <<processes, queues, permits, handlers, delivered>>
      BY <1>5 DEF ReconcileEgress
    <2>2. r \in Run /\ r = v.job.run /\ processes[p] = "up" /\ n \in Nat
      BY <2>1, WorkerFacts
    <2>3. events = <<>> \/ events = <<Audit(n)>>
      <3>1. receipts = 0 => events = <<>>
        OBVIOUS
      <3>2. receipts = 1 => events = <<Audit(n)>>
        OBVIOUS
      <3> QED
        BY <3>1, <3>2
    <2> HIDE DEF events, n
    <2>4. StoreInv' /\ Onward /\ Untried
      BY <1>1, <2>1, <2>2, <2>3, AppendStores
    <2>5. runs' = runs /\ runs[r].status = "running"
      BY <2>1 DEF AppendEvents, Leased
    <2>6. w \in WorkerState /\ w.pc = "running" /\ w.job = v.job /\ w.version = v.version
      BY <1>1 DEF WorkerState
    <2>7. workers' = [workers EXCEPT ![p] = w]
      BY <1>1, <2>1
    <2> HIDE DEF w
    <2>8. runs'[w.job.run].status # "queued"
      BY <2>2, <2>5, <2>6
    <2> QED
      BY <2>1, <2>2, <2>4, <2>6, <2>7, <2>8, WorkerOnly
  <1>6. ASSUME RecordAudit(p) PROVE RunInv'
    <2> DEFINE w == [v EXCEPT !.audits = @ + 1]
               n == v.job.attempt
               events == <<Audit(n)>>
    <2>1. /\ v.pc = "running" /\ AppendEvents(r, WorkerOwner, events) /\ v.audits < MaxAudits
          /\ workers' = [workers EXCEPT ![p].audits = @ + 1]
          /\ UNCHANGED <<processes, queues, permits, handlers, delivered>>
      BY <1>6 DEF RecordAudit, Running
    <2>2. r \in Run /\ r = v.job.run /\ processes[p] = "up" /\ n \in Nat
      BY <2>1, WorkerFacts
    <2>3. StoreInv' /\ Onward /\ Untried
      BY <1>1, <2>1, <2>2, AppendStores
    <2>4. runs' = runs /\ runs[r].status = "running"
      BY <2>1 DEF AppendEvents, Leased
    <2>5. w \in WorkerState /\ w.pc = "running" /\ w.job = v.job /\ w.version = v.version
      <3>1. v.audits + 1 \in 0..MaxAudits
        BY <1>1, <2>1, ServiceAssumption DEF WorkerState
      <3> QED
        BY <1>1, <2>1, <3>1 DEF WorkerState
    <2>6. workers' = [workers EXCEPT ![p] = w]
      BY <1>1, <2>1
    <2> HIDE DEF w, n, events
    <2>7. runs'[w.job.run].status # "queued"
      BY <2>2, <2>4, <2>5
    <2> QED
      BY <2>1, <2>2, <2>3, <2>5, <2>6, <2>7, WorkerOnly
  <1>7. ASSUME NEW completed \in BOOLEAN, WriteCheckpoint(p, completed) PROVE RunInv'
    <2>1. /\ v.pc = "running" /\ Write(r, v.version, v.job.attempt, completed)
          /\ UNCHANGED <<processes, queues, permits, handlers, delivered>>
      BY <1>7 DEF WriteCheckpoint, Running
    <2>2. /\ r \in Run /\ v.version \in Nat /\ v.job.attempt \in Nat \ {0}
          /\ v.version = 0 => tries[r] = <<>>
          /\ runs[r].status # "queued" /\ Given(r, v.job.attempt)
      BY <2>1, WorkerFacts
    <2>3. /\ StoreInv' /\ Onward /\ runs' = runs
          /\ v.job.attempt <= Len(tries'[r])
          /\ \A s \in Run \ {r} : tries'[s] = tries[s]
          /\ v.version > 0 => Untried
      BY <1>1, <2>1, <2>2, WriteStores
    <2>4. Jobs'
      BY <1>1, <1>7, <2>3, WriteJobs DEF RunInv
    <2>5. Requests'
      <3>1. processes' \in [Process -> {"down", "up", "closing"}]
        BY <2>1 DEF RunInv, Requests
      <3> QED
        BY <2>1, <2>3, <3>1, RequestsStay DEF RunInv
    <2>6. Capacity'
      BY <2>1, CapacityStays DEF RunInv
    <2>7. delivered[r] # <<>>
      BY <2>2 DEF Given
    <2> HIDE DEF r
    <2>8. \A s \in Run : delivered[s] = <<>> /\ tries[s] = <<>> => tries'[s] = <<>>
      BY <2>3, <2>7
    <2>9. Deliveries'
      BY <2>1, <2>3, <2>8, DeliveriesStay DEF RunInv
    <2> QED
      BY <2>3, <2>4, <2>5, <2>6, <2>9 DEF RunInv
  <1>8. ASSUME NEW status \in Outcome, CompleteRun(p, status) PROVE RunInv'
    <2>1. /\ v.pc = "running" /\ Complete(r, WorkerOwner, status, "none")
          /\ workers' = [workers EXCEPT ![p] = IdleWorker]
          /\ UNCHANGED <<processes, queues, permits, handlers, delivered>>
      BY <1>8 DEF CompleteRun, Running, EndAttempt
    <2>2. r \in Run
      BY <2>1, WorkerFacts
    <2>3. StoreInv' /\ Onward /\ Untried
      BY <1>1, <2>1, <2>2, CompleteStores
    <2> QED
      BY <2>1, <2>3, IdleTypes, WorkerOnly
  <1>9. ASSUME AttemptEnds(p) PROVE RunInv'
    <2>1. /\ workers' = [workers EXCEPT ![p] = IdleWorker]
          /\ UNCHANGED <<storeVars, processes, queues, permits, handlers, delivered>>
      BY <1>9 DEF AttemptEnds, EndAttempt
    <2>2. StoreInv' /\ Onward /\ Untried
      BY <1>2, <2>1
    <2> QED
      BY <2>1, <2>2, IdleTypes, WorkerOnly
  <1>10. ASSUME HeartbeatTask(p) PROVE RunInv'
    <2>1. v.pc # "idle" /\ Heartbeat(r, WorkerOwner) /\ UNCHANGED serviceVars
      BY <1>10 DEF HeartbeatTask
    <2>2. UNCHANGED <<processes, queues, permits, workers, handlers, delivered>>
      BY <2>1 DEF serviceVars
    <2>3. r \in Run
      BY <2>1, WorkerFacts
    <2>4. StoreInv' /\ Onward /\ Untried
      BY <1>1, <2>1, <2>3, HeartbeatStores
    <2>5. processes' \in [Process -> {"down", "up", "closing"}]
      BY <2>2 DEF RunInv, Requests
    <2>6. Requests' /\ Capacity'
      BY <2>2, <2>4, <2>5, RequestsStay, CapacityStays DEF RunInv
    <2> QED
      BY <2>2, <2>4, <2>6, QuietStep
  <1>11. ASSUME HeartbeatLost(p) PROVE RunInv'
    <2> DEFINE w == [v EXCEPT !.lost = TRUE]
    <2>1. /\ v.pc \in {"starting", "running"} /\ workers' = [workers EXCEPT ![p].lost = TRUE]
          /\ UNCHANGED <<storeVars, processes, queues, permits, handlers, delivered>>
      BY <1>11 DEF HeartbeatLost
    <2>2. StoreInv' /\ Onward /\ Untried /\ runs' = runs
      BY <1>2, <2>1 DEF storeVars
    <2>3. /\ processes[p] = "up" /\ r = v.job.run
          /\ v.pc = "running" => runs[r].status # "queued"
          /\ v.pc = "starting" => v.job.leased
      BY <2>1, WorkerFacts
    <2>4. w \in WorkerState /\ w.pc = v.pc /\ w.job = v.job /\ w.version = v.version
      BY <1>1 DEF WorkerState
    <2>5. workers' = [workers EXCEPT ![p] = w]
      BY <1>1, <2>1
    <2> HIDE DEF w
    <2>6. /\ w.pc = "starting" => w.job.leased
          /\ w.pc = "running" => runs'[w.job.run].status # "queued"
      BY <2>2, <2>3, <2>4
    <2> QED
      BY <2>1, <2>2, <2>3, <2>4, <2>5, <2>6, WorkerOnly
  <1> QED
    BY <1>3, <1>4, <1>5, <1>6, <1>7, <1>8, <1>9, <1>10, <1>11 DEF WorkerStep

\* A transaction that no actor of the service takes part in.
LEMMA StoreOnly ==
    ASSUME RunInv, StoreInv', Onward, Untried, UNCHANGED serviceVars
    PROVE  RunInv'
  <1>1. UNCHANGED <<processes, queues, permits, workers, handlers, delivered>>
    BY DEF serviceVars
  <1>2. processes' \in [Process -> {"down", "up", "closing"}]
    BY <1>1 DEF RunInv, Requests
  <1>3. Requests' /\ Capacity'
    BY <1>1, <1>2, RequestsStay, CapacityStays DEF RunInv
  <1> QED
    BY <1>1, <1>3, QuietStep

LEMMA ProcessStepInv ==
    ASSUME RunInv, NEW p \in Process, ProcessStep(p)
    PROVE  RunInv'
  <1>1. /\ StoreInv /\ processes \in [Process -> {"down", "up", "closing"}]
        /\ workers \in [Process -> WorkerState] /\ queues \in [Process -> Seq(Job)]
        /\ handlers \in [Handler -> HandlerState]
    BY DEF RunInv, Requests, Jobs, WorkerStates
  <1>2. ASSUME Start(p) PROVE RunInv'
    <2>1. /\ processes[p] = "down" /\ processes' = [processes EXCEPT ![p] = "up"]
          /\ UNCHANGED <<queues, permits, workers, handlers, delivered>>
      BY <1>2 DEF Start
    <2>2. PICK S \in SUBSET {r \in Run : Expired(r)} : ReconcileExpired(S)
      BY <1>2 DEF Start
    <2>3. \A r \in S : r \in Run /\ Expired(r)
      OBVIOUS
    <2>4. StoreInv' /\ Onward /\ Untried
      BY <1>1, <2>2, <2>3, ReconcileStores
    <2>5. /\ processes' \in [Process -> {"down", "up", "closing"}] /\ processes'[p] = "up"
          /\ \A o \in Process : o # p => processes'[o] = processes[o]
      BY <1>1, <2>1
    <2>6. \A o \in Process : processes[o] # "down" => processes'[o] # "down"
      BY <2>5
    <2>7. Requests'
      BY <2>1, <2>4, <2>5, <2>6, RequestsStay DEF RunInv
    <2>8. workers[p] = IdleWorker /\ queues[p] = <<>> /\ queues[p] \in Seq(Job)
      BY <1>1, <2>1 DEF RunInv, Jobs, WorkerStates
    <2>9. workers' = [workers EXCEPT ![p] = IdleWorker] /\ queues' = [queues EXCEPT ![p] = queues[p]]
      BY <1>1, <2>1, <2>8
    <2>10. Jobs'
      BY <2>1, <2>4, <2>5, <2>8, <2>9, IdleTypes, WorkerMoves DEF RunInv
    <2>11. Capacity'
      BY <1>2, StartCapacity DEF RunInv
    <2>12. Deliveries'
      BY <2>1, <2>4, DeliveriesStay DEF RunInv, Untried
    <2> QED
      BY <2>4, <2>7, <2>10, <2>11, <2>12 DEF RunInv
  <1>3. ASSUME NEW state \in {"closing", "down"},
               UNCHANGED <<storeVars, delivered>>,
               processes' = [processes EXCEPT ![p] = state],
               queues' = [queues EXCEPT ![p] = <<>>], permits' = [permits EXCEPT ![p] = {}],
               EndAttempt(p),
               \A h \in Handler : \/ handlers'[h] = handlers[h]
                                  \/ handlers[h].process = p /\ handlers'[h] = IdleHandler
        PROVE  StoreInv' /\ Onward /\ Jobs' /\ Capacity' /\ Deliveries'
    <2>1. StoreInv' /\ Onward /\ Untried
      BY <1>1, <1>3, StoreStays
    <2>2. workers' = [workers EXCEPT ![p] = IdleWorker] /\ <<>> \in Seq(Job)
      BY <1>3 DEF EndAttempt
    <2>3. \A o \in Process : o # p => processes'[o] = processes[o]
      BY <1>1, <1>3
    <2>4. Jobs'
      BY <1>3, <2>1, <2>2, <2>3, IdleTypes, WorkerMoves DEF RunInv
    <2>5. Capacity'
      BY <1>3, StopCapacity DEF RunInv
    <2>6. Deliveries'
      BY <1>3, <2>1, DeliveriesStay DEF RunInv, Untried
    <2> QED
      BY <2>1, <2>4, <2>5, <2>6
  <1>4. ASSUME CloseWorker(p) PROVE RunInv'
    <2>1. /\ UNCHANGED <<storeVars, handlers, delivered>> /\ processes[p] = "up"
          /\ processes' = [processes EXCEPT ![p] = "closing"]
          /\ queues' = [queues EXCEPT ![p] = <<>>] /\ permits' = [permits EXCEPT ![p] = {}]
          /\ EndAttempt(p)
      BY <1>4 DEF CloseWorker
    <2>2. StoreInv' /\ Onward /\ Jobs' /\ Capacity' /\ Deliveries'
      BY <1>3, <2>1
    <2>3. /\ processes' \in [Process -> {"down", "up", "closing"}]
          /\ \A o \in Process : processes[o] # "down" => processes'[o] # "down"
      BY <1>1, <2>1
    <2>4. Requests'
      BY <2>1, <2>2, <2>3, RequestsStay DEF RunInv
    <2> QED
      BY <2>2, <2>4 DEF RunInv
  <1>5. ASSUME Crash(p) PROVE RunInv'
    <2>1. /\ UNCHANGED <<storeVars, delivered>>
          /\ processes' = [processes EXCEPT ![p] = "down"]
          /\ queues' = [queues EXCEPT ![p] = <<>>] /\ permits' = [permits EXCEPT ![p] = {}]
          /\ EndAttempt(p)
          /\ handlers' = [h \in Handler |->
                 IF handlers[h].process = p THEN IdleHandler ELSE handlers[h]]
      BY <1>5 DEF Crash
    <2>2. \A h \in Handler : \/ handlers'[h] = handlers[h]
                             \/ handlers[h].process = p /\ handlers'[h] = IdleHandler
      BY <2>1
    <2>3. StoreInv' /\ Onward /\ Jobs' /\ Capacity' /\ Deliveries'
      BY <1>3, <2>1, <2>2
    <2>4. /\ processes' \in [Process -> {"down", "up", "closing"}]
          /\ \A o \in Process : o # p => processes'[o] = processes[o]
          /\ handlers' \in [Handler -> HandlerState]
      BY <1>1, <2>1, IdleTypes
    <2>5. ASSUME NEW h \in Handler PROVE Serving(handlers[h])'
      <3>1. CASE handlers[h].process = p
        BY <2>1, <3>1, IdleTypes DEF Serving, ChatPc, ResumePc
      <3>2. CASE handlers[h].process # p
        <4>1. handlers'[h] = handlers[h]
          BY <2>1, <3>2
        <4>2. handlers[h].pc # "idle" => processes'[handlers[h].process] # "down"
          BY <2>4, <3>2 DEF RunInv, Requests, Serving
        <4> QED
          BY <2>1, <2>3, <4>1, <4>2, QuietServing DEF RunInv
      <3> QED
        BY <3>1, <3>2
    <2>6. \A g, h \in Handler :
              /\ g # h /\ handlers'[g].pc # "idle" /\ handlers'[h].pc # "idle"
              /\ handlers'[g].run = handlers'[h].run
              => handlers'[g].attempt # handlers'[h].attempt
      <3>1. \A h \in Handler : handlers'[h].pc # "idle" => handlers'[h] = handlers[h]
        BY <2>2, IdleTypes
      <3> QED
        BY <3>1 DEF RunInv, Requests
    <2>7. Requests'
      BY <2>4, <2>5, <2>6 DEF Requests
    <2> QED
      BY <2>3, <2>7 DEF RunInv
  <1>6. ASSUME NEW r \in Run, NEW k \in Key, ResumeBeginAmbiguous(p, r, k) PROVE RunInv'
    <2>1. BeginResume(r, k, WorkerOwner, TRUE) /\ UNCHANGED serviceVars
      BY <1>6 DEF ResumeBeginAmbiguous
    <2>2. StoreInv' /\ Onward /\ Untried
      BY <1>1, <2>1, ResumeStores
    <2> QED
      BY <2>1, <2>2, StoreOnly
  <1> QED
    BY <1>2, <1>4, <1>5, <1>6 DEF ProcessStep

LEMMA InitInv == Init => RunInv
  <1>1. SUFFICES ASSUME Init PROVE RunInv
    OBVIOUS
  <1>2. /\ runs = [r \in Run |-> NoRow] /\ tries = [r \in Run |-> <<>>]
        /\ checkpoints = [r \in Run |-> NoRow] /\ trace = [r \in Run |-> <<>>]
        /\ processes = [p \in Process |-> "down"] /\ queues = [p \in Process |-> <<>>]
        /\ permits = [p \in Process |-> {}] /\ workers = [p \in Process |-> IdleWorker]
        /\ handlers = [h \in Handler |-> IdleHandler] /\ delivered = [r \in Run |-> <<>>]
    BY <1>1 DEF Init, StoreInit
  <1>3. StoreInv
    <2>1. StoreTypeOK
      BY <1>2 DEF StoreTypeOK
    <2>2. Sound(NoRow, <<>>, NoRow, <<>>)
      BY DEF Sound, Lineage, Fenced
    <2> QED
      BY <1>2, <2>1, <2>2 DEF StoreInv
  <1>4. Requests
    BY <1>2, IdleTypes DEF Requests, Serving, ChatPc, ResumePc
  <1>5. Deliveries
    BY <1>2 DEF Deliveries, DeliveredOnce
  <1>6. Jobs
    <2>1. \A p \in Process : Slots(p) = {}
      BY <1>2, IdleTypes DEF Slots
    <2>2. WorkerStates
      BY <1>2, IdleTypes DEF WorkerStates
    <2> QED
      BY <2>1, <2>2 DEF Jobs, Carrying, OneSlot
  <1>7. Capacity
    <2>1. \A p \in Process : Holders(p) = {}
      BY <1>2, IdleTypes DEF Holders
    <2>2. IsFiniteSet({})
      BY FS_EmptySet
    <2> QED
      BY <1>2, <2>1, <2>2 DEF Capacity, PermitsConserved
  <1> QED
    BY <1>3, <1>4, <1>5, <1>6, <1>7 DEF RunInv

LEMMA NextInv == RunInv /\ [Next]_vars => RunInv'
  <1>1. SUFFICES ASSUME RunInv, [Next]_vars PROVE RunInv'
    OBVIOUS
  <1>2. StoreInv
    BY <1>1 DEF RunInv
  <1>3. ASSUME NEW h \in Handler, HandlerStep(h) PROVE RunInv'
    BY <1>1, <1>3, HandlerStepInv
  <1>4. ASSUME NEW p \in Process, WorkerStep(p) PROVE RunInv'
    BY <1>1, <1>4, WorkerStepInv
  <1>5. ASSUME NEW p \in Process, ProcessStep(p) PROVE RunInv'
    BY <1>1, <1>5, ProcessStepInv
  <1>6. ASSUME NEW r \in Run, Retention(r) PROVE RunInv'
    <2>1. StoreInv' /\ Onward /\ Untried
      BY <1>2, <1>6, DeleteStores DEF Retention
    <2> QED
      BY <1>1, <1>6, <2>1, StoreOnly DEF Retention
  <1>7. ASSUME Tick PROVE RunInv'
    <2>1. StoreInv' /\ Onward /\ Untried
      BY <1>2, <1>7, ElapseStores DEF Tick
    <2> QED
      BY <1>1, <1>7, <2>1, StoreOnly DEF Tick
  <1>8. ASSUME UNCHANGED vars PROVE RunInv'
    <2>1. StoreInv' /\ Onward /\ Untried
      BY <1>2, <1>8, StoreStays DEF vars
    <2> QED
      BY <1>1, <1>8, <2>1, StoreOnly DEF vars
  <1> QED
    BY <1>1, <1>3, <1>4, <1>5, <1>6, <1>7, <1>8 DEF Next

-----------------------------------------------------------------------------
(* Safety *)

\* RunInv is an invariant of the service: of the stores, the requests, the
\* deliveries, the jobs and the queue's capacity together.
THEOREM RunInvariance == Spec => []RunInv
  <1>1. Init => RunInv
    BY InitInv
  <1>2. RunInv /\ [Next]_vars => RunInv'
    BY NextInv
  <1> QED
    BY <1>1, <1>2, PTL DEF Spec

\* Every variable keeps its type.
THEOREM RunTypes == Spec => []TypeOK
  <1>1. RunInv => TypeOK
    BY DEF RunInv, StoreInv, Requests, Deliveries, Jobs, WorkerStates, Capacity, TypeOK
  <1> QED
    BY <1>1, RunInvariance, PTL

\* The trace of a run ends with the status its row has, whichever of the eight
\* transactions changed it last.
THEOREM TraceNeverLags == Spec => []TraceAgrees
  <1>1. RunInv => TraceAgrees
    BY DEF RunInv, StoreInv, Sound, Shows, TraceAgrees
  <1> QED
    BY <1>1, RunInvariance, PTL

\* The attempt rows of a run are what begin_resume relies on: the checkpoint is
\* of the latest, only the latest may be open, and no key bought two.
THEOREM AttemptsAreALineage == Spec => []AttemptLineage
  <1>1. ASSUME RunInv PROVE AttemptLineage
    <2>1. ASSUME NEW r \in Run PROVE Lineage(runs[r], tries[r], checkpoints[r])
      BY <1>1, RowTypes DEF RunInv, Sound
    <2>2. ASSUME NEW r \in Run
          PROVE  LET last == Len(tries[r])
                 IN  /\ checkpoints[r] # NoRow => checkpoints[r].attempt = last
                     /\ \A n \in 1..last - 1 : tries[r][n].end = "lease_expired"
                     /\ last > 0 => tries[r][last].end =
                            IF runs[r].status = "interrupted" THEN runs[r].reason ELSE "open"
                     /\ \A m, n \in 1..last : tries[r][m].key = tries[r][n].key => m = n
      BY <2>1 DEF Lineage
    <2> QED
      BY <2>2, Zenon DEF AttemptLineage
  <1> QED
    BY <1>1, RunInvariance, PTL

\* No attempt is put into a queue twice.
THEOREM NothingIsDeliveredTwice == Spec => []DeliveredOnce
  <1>1. RunInv => DeliveredOnce
    BY DEF RunInv, Deliveries
  <1> QED
    BY <1>1, RunInvariance, PTL

\* Once an attempt is resumed, no worker of an earlier one writes a checkpoint.
THEOREM StaleAttemptsWriteNothing == Spec => []CheckpointsFenced
  <1>1. RunInv => CheckpointsFenced
    <2>1. SUFFICES ASSUME RunInv, NEW r \in Run, NEW i \in DOMAIN trace[r], NEW j \in DOMAIN trace[r],
                          i < j, trace[r][i].kind = "resume", trace[r][j].kind = "checkpoint",
                          trace[r][j].attempt < trace[r][i].attempt
                   PROVE  FALSE
      BY DEF CheckpointsFenced, Overtaken
    <2>2. trace[r][j].attempt >= trace[r][i].attempt
      BY <2>1 DEF RunInv, StoreInv, Sound, Fenced
    <2>3. trace[r][i].attempt \in Nat /\ trace[r][j].attempt \in Nat
      <3>1. trace[r] \in Seq(Event)
        BY <2>1, RowTypes DEF RunInv
      <3>2. trace[r][i] \in Event /\ trace[r][j] \in Event
        BY <2>1, <3>1
      <3> QED
        BY <3>2 DEF Event
    <2> QED
      BY <2>1, <2>2, <2>3
  <1> QED
    BY <1>1, RunInvariance, PTL

\* The permits of a live worker are those of its queue and of the handlers that
\* have not delivered yet, never more than the queue has room for.
THEOREM CapacityIsConserved == Spec => []PermitsConserved
  <1>1. RunInv => PermitsConserved
    BY DEF RunInv, Capacity
  <1> QED
    BY <1>1, RunInvariance, PTL

-----------------------------------------------------------------------------
(* The service implements RunLifecycle *)

\* What is shown of a row, and the keys of attempt rows.
ShownAs(row) ==
    IF row = NoRow THEN "absent"
    ELSE IF row.status \in Active /\ row.lease = 0 THEN "interrupted"
    ELSE IF row.status = "interrupted" /\ row.reason = "queue_delivery_failed" THEN "abandoned"
    ELSE row.status
KeysOf(rows) == {rows[n].key : n \in DOMAIN rows} \ {NoKey}

Shown == [r \in Run |-> ViewOf(r)]
Used == [r \in Run |-> UsedKeys(r)]

\* A step of RunLifecycle, or none.
Lives == Lifecycle!Next \/ (Shown' = Shown /\ Used' = Used)

LEMMA ShownRows ==
    /\ Shown = [r \in Run |-> Shown[r]] /\ Used = [r \in Run |-> Used[r]]
    /\ Shown' = [r \in Run |-> Shown'[r]] /\ Used' = [r \in Run |-> Used'[r]]
    /\ \A r \in Run : /\ Shown[r] = ShownAs(runs[r]) /\ Used[r] = KeysOf(tries[r])
                       /\ Shown'[r] = ShownAs(runs'[r]) /\ Used'[r] = KeysOf(tries'[r])
  <1>1. ASSUME NEW r \in Run
        PROVE  ViewOf(r) = ShownAs(runs[r]) /\ ViewOf(r)' = ShownAs(runs'[r])
    BY DEF ViewOf, View, Expired, ShownAs, Active
  <1>2. \A r \in Run : UsedKeys(r) = KeysOf(tries[r]) /\ UsedKeys(r)' = KeysOf(tries'[r])
    BY DEF UsedKeys, KeysOf
  <1> QED
    BY <1>1, <1>2 DEF Shown, Used

LEMMA AcceptLives ==
    ASSUME NEW r \in Run, Shown[r] = "absent", Shown' = [Shown EXCEPT ![r] = "queued"], Used' = Used
    PROVE  Lives
  <1>1. Lifecycle!Accept(r)
    BY DEF Lifecycle!Accept, Shown, Used
  <1> QED
    BY <1>1 DEF Lives, Lifecycle!Next

LEMMA BeginLives ==
    ASSUME NEW r \in Run, Shown[r] = "queued", Shown' = [Shown EXCEPT ![r] = "running"], Used' = Used
    PROVE  Lives
  <1>1. Lifecycle!Begin(r)
    BY DEF Lifecycle!Begin, Shown, Used
  <1> QED
    BY <1>1 DEF Lives, Lifecycle!Next

LEMMA FinishLives ==
    ASSUME NEW r \in Run, NEW s \in Outcome, Shown[r] = "running",
           Shown' = [Shown EXCEPT ![r] = s], Used' = Used
    PROVE  Lives
  <1>1. Lifecycle!Finish(r, s)
    BY DEF Lifecycle!Finish, Shown, Used
  <1> QED
    BY <1>1 DEF Lives, Lifecycle!Next

LEMMA AbandonLives ==
    ASSUME NEW r \in Run, Shown[r] \in {"queued", "running", "interrupted"},
           Shown' = [Shown EXCEPT ![r] = "abandoned"], Used' = Used
    PROVE  Lives
  <1>1. Lifecycle!Abandon(r)
    BY DEF Lifecycle!Abandon, Shown, Used
  <1> QED
    BY <1>1 DEF Lives, Lifecycle!Next

LEMMA LapseLives ==
    ASSUME NEW S \in SUBSET Run, \A r \in S : Shown[r] \in {"queued", "running"},
           Shown' = [r \in Run |-> IF r \in S THEN "interrupted" ELSE Shown[r]], Used' = Used
    PROVE  Lives
  <1>1. Lifecycle!Lapse(S)
    BY DEF Lifecycle!Lapse, Shown, Used
  <1> QED
    BY <1>1 DEF Lives, Lifecycle!Next

LEMMA ResumeLives ==
    ASSUME NEW r \in Run, NEW k \in Key, Shown[r] = "interrupted", k \notin Used[r],
           Shown' = [Shown EXCEPT ![r] = "running"], Used' = [Used EXCEPT ![r] = @ \cup {k}]
    PROVE  Lives
  <1>1. Lifecycle!Resume(r, k)
    BY DEF Lifecycle!Resume, Shown, Used
  <1> QED
    BY <1>1 DEF Lives, Lifecycle!Next

\* The row and the attempts of one run become these.
Rewrites(r, row, rows) ==
    runs' = [runs EXCEPT ![r] = row] /\ tries' = [tries EXCEPT ![r] = rows]

LEMMA OneChange ==
    ASSUME NEW S, NEW f, NEW g, NEW s \in S, NEW v,
           f = [x \in S |-> f[x]], g = [x \in S |-> g[x]], g[s] = v,
           \A x \in S : x # s => g[x] = f[x]
    PROVE  g = [f EXCEPT ![s] = v]
  OBVIOUS

\* A transaction on one run changes what is shown of that run.
LEMMA OneShown ==
    ASSUME StoreInv, NEW r \in Run, NEW row, NEW rows, Rewrites(r, row, rows)
    PROVE  /\ Shown' = [Shown EXCEPT ![r] = ShownAs(row)]
           /\ Used' = [Used EXCEPT ![r] = KeysOf(rows)]
           /\ Shown[r] = ShownAs(runs[r]) /\ Used[r] = KeysOf(tries[r])
  <1>1. /\ runs'[r] = row /\ tries'[r] = rows
        /\ \A s \in Run : s # r => runs'[s] = runs[s] /\ tries'[s] = tries[s]
    BY RowTypes DEF Rewrites
  <1> DEFINE shown == Shown
             used == Used
             next == Shown'
             taken == Used'
  <1>2. /\ shown = [s \in Run |-> shown[s]] /\ used = [s \in Run |-> used[s]]
        /\ next = [s \in Run |-> next[s]] /\ taken = [s \in Run |-> taken[s]]
        /\ shown[r] = ShownAs(runs[r]) /\ used[r] = KeysOf(tries[r])
        /\ next[r] = ShownAs(row) /\ taken[r] = KeysOf(rows)
        /\ \A s \in Run : s # r => next[s] = shown[s] /\ taken[s] = used[s]
    BY <1>1, ShownRows
  <1> HIDE DEF shown, used, next, taken
  <1> DEFINE a == ShownAs(row)
             b == KeysOf(rows)
  <1> HIDE DEF a, b
  <1>3. next = [shown EXCEPT ![r] = a]
    <2>1. next[r] = a
      BY <1>2 DEF a
    <2> QED
      BY <1>2, <2>1, OneChange, Zenon
  <1>4. taken = [used EXCEPT ![r] = b]
    <2>1. taken[r] = b
      BY <1>2 DEF b
    <2> QED
      BY <1>2, <2>1, OneChange, Zenon
  <1> QED
    BY <1>2, <1>3, <1>4 DEF shown, used, next, taken, a, b

\* It buys no key.
LEMMA SameKeys ==
    ASSUME StoreInv, NEW r \in Run, NEW row, NEW rows, Rewrites(r, row, rows),
           KeysOf(rows) = KeysOf(tries[r])
    PROVE  Shown' = [Shown EXCEPT ![r] = ShownAs(row)] /\ Shown[r] = ShownAs(runs[r]) /\ Used' = Used
  <1>1. /\ Shown' = [Shown EXCEPT ![r] = ShownAs(row)]
        /\ Used' = [Used EXCEPT ![r] = KeysOf(rows)]
        /\ Shown[r] = ShownAs(runs[r]) /\ Used[r] = KeysOf(tries[r])
    BY OneShown
  <1>2. Used' = Used
    BY <1>1 DEF Used
  <1> QED
    BY <1>1, <1>2

\* Nothing that is shown changes.
LEMMA NothingShown ==
    ASSUME \A r \in Run : ShownAs(runs'[r]) = ShownAs(runs[r]),
           \A r \in Run : KeysOf(tries'[r]) = KeysOf(tries[r])
    PROVE  Lives
  <1>1. Shown' = Shown /\ Used' = Used
    BY ShownRows
  <1> QED
    BY <1>1 DEF Lives

LEMMA CreateShown ==
    ASSUME StoreInv, NEW r \in Run, NEW level \in {"L1", "L2"}, Create(r, level)
    PROVE  Lives
  <1> DEFINE row == [level |-> level, status |-> "queued", reason |-> "none",
                     owner |-> QueueOwner, lease |-> LeaseTicks]
  <1>1. /\ row \in RunRow /\ row.status = "queued" /\ row.lease = LeaseTicks
    BY StoreAssumption DEF RunRow, Status, Active, Reason
  <1>2. runs[r] = NoRow /\ runs' = [runs EXCEPT ![r] = row] /\ tries' = tries
    BY DEF Create
  <1> HIDE DEF row
  <1>3. Rewrites(r, row, tries[r])
    BY <1>2, RowTypes DEF Rewrites
  <1>4. ShownAs(row) = "queued" /\ ShownAs(runs[r]) = "absent"
    BY <1>1, <1>2, StoreAssumption, NoRowAssumption DEF ShownAs, Active
  <1>5. Shown' = [Shown EXCEPT ![r] = "queued"] /\ Used' = Used /\ Shown[r] = "absent"
    BY <1>2, <1>3, <1>4, SameKeys
  <1> QED
    BY <1>5, AcceptLives

LEMMA ClaimShown ==
    ASSUME StoreInv, NEW r \in Run, Claim(r, WorkerOwner)
    PROVE  Lives
  <1> DEFINE row == [runs[r] EXCEPT !.status = "running", !.owner = WorkerOwner,
                                    !.lease = LeaseTicks]
  <1>1. /\ runs[r] \in RunRow /\ runs[r] # NoRow /\ runs[r].status = "queued" /\ runs[r].lease > 0
        /\ runs' = [runs EXCEPT ![r] = row] /\ tries' = tries
    BY RowTypes DEF Claim, Claimable
  <1>2. "running" \in Status /\ LeaseTicks \in 0..LeaseTicks
    BY StoreAssumption DEF Status, Active
  <1>3. row \in RunRow /\ row.status = "running" /\ row.lease = LeaseTicks
    BY <1>1, <1>2 DEF RunRow
  <1> HIDE DEF row
  <1>4. Rewrites(r, row, tries[r])
    BY <1>1, RowTypes DEF Rewrites
  <1>5. ShownAs(row) = "running" /\ ShownAs(runs[r]) = "queued"
    BY <1>1, <1>3, StoreAssumption, NoRowAssumption DEF ShownAs, Active
  <1>6. Shown' = [Shown EXCEPT ![r] = "running"] /\ Used' = Used /\ Shown[r] = "queued"
    BY <1>1, <1>4, <1>5, SameKeys
  <1> QED
    BY <1>6, BeginLives

LEMMA CompleteShown ==
    ASSUME StoreInv, NEW r \in Run, NEW s \in Outcome, Complete(r, WorkerOwner, s, "none")
    PROVE  Lives
  <1> DEFINE row == Closed(runs[r], s, "none")
  <1>1. /\ runs[r] \in RunRow /\ runs[r] # NoRow /\ runs[r].status \in Active
        /\ runs[r].owner = WorkerOwner /\ runs[r].lease > 0
        /\ runs' = [runs EXCEPT ![r] = row] /\ tries' = tries
    BY RowTypes DEF Complete, Completable
  <1>2. s \in Status /\ "none" \in Reason /\ s \notin {"queued", "running", "interrupted"}
    BY StoreAssumption DEF Status, Reason, Active
  <1>3. row \in RunRow /\ row.status = s
    BY <1>1, <1>2, ClosedRow
  <1> HIDE DEF row
  <1>4. runs[r].status = "running"
    BY <1>1, RowTypes DEF Sound, Active, WorkerOwner, QueueOwner
  <1>5. Rewrites(r, row, tries[r])
    BY <1>1, RowTypes DEF Rewrites
  <1>6. ShownAs(row) = s /\ ShownAs(runs[r]) = "running"
    BY <1>1, <1>2, <1>3, <1>4, NoRowAssumption DEF ShownAs, Active
  <1>7. Shown' = [Shown EXCEPT ![r] = s] /\ Used' = Used /\ Shown[r] = "running"
    BY <1>1, <1>5, <1>6, SameKeys
  <1> QED
    BY <1>7, FinishLives

LEMMA FailDeliveryShown ==
    ASSUME StoreInv, NEW r \in Run, FailDelivery(r)
    PROVE  Lives
  <1> DEFINE row == Closed(runs[r], "interrupted", "queue_delivery_failed")
  <1>1. /\ runs[r] \in RunRow /\ runs[r] # NoRow /\ runs[r].status \in Active /\ runs[r].lease > 0
        /\ runs' = [runs EXCEPT ![r] = row] /\ tries' = tries
    BY RowTypes DEF FailDelivery, Complete, Completable
  <1>2. "interrupted" \in Status /\ "queue_delivery_failed" \in Reason
    BY DEF Status, Reason
  <1>3. row \in RunRow /\ row.status = "interrupted" /\ row.reason = "queue_delivery_failed"
    BY <1>1, <1>2, ClosedRow
  <1> HIDE DEF row
  <1>4. Rewrites(r, row, tries[r])
    BY <1>1, RowTypes DEF Rewrites
  <1>5. ShownAs(row) = "abandoned" /\ ShownAs(runs[r]) \in {"queued", "running"}
    BY <1>1, <1>3, NoRowAssumption DEF ShownAs, Active
  <1>6. Shown' = [Shown EXCEPT ![r] = "abandoned"] /\ Used' = Used /\ Shown[r] \in {"queued", "running"}
    BY <1>1, <1>4, <1>5, SameKeys
  <1> QED
    BY <1>6, AbandonLives

\* Attempts with the same keys.
LEMMA KeysAgree ==
    ASSUME NEW rows, NEW more, DOMAIN more = DOMAIN rows,
           \A n \in DOMAIN rows : more[n].key = rows[n].key
    PROVE  KeysOf(more) = KeysOf(rows)
  BY DEF KeysOf

LEMMA SameRowsShown ==
    ASSUME UNCHANGED <<runs, tries>>
    PROVE  Lives
  BY NothingShown

LEMMA HeartbeatShown ==
    ASSUME StoreInv, NEW r \in Run, Heartbeat(r, WorkerOwner)
    PROVE  Lives
  <1> DEFINE row == [runs[r] EXCEPT !.lease = LeaseTicks]
  <1>1. /\ runs[r] # NoRow /\ runs[r] \in RunRow /\ runs[r].status = "running" /\ runs[r].lease > 0
        /\ runs' = [runs EXCEPT ![r] = row] /\ tries' = tries
    BY RowTypes DEF Heartbeat, Leased
  <1>2. LeaseTicks \in 0..LeaseTicks
    BY StoreAssumption
  <1>3. row \in RunRow /\ row.status = "running" /\ row.lease = LeaseTicks
    BY <1>1, <1>2 DEF RunRow
  <1> HIDE DEF row
  <1>4. ShownAs(row) = "running" /\ ShownAs(runs[r]) = "running"
    BY <1>1, <1>3, StoreAssumption, NoRowAssumption DEF ShownAs, Active
  <1>5. \A s \in Run : ShownAs(runs'[s]) = ShownAs(runs[s]) /\ KeysOf(tries'[s]) = KeysOf(tries[s])
    BY <1>1, <1>4, RowTypes
  <1> QED
    BY <1>5, NothingShown

LEMMA ReconcileShown ==
    ASSUME StoreInv, NEW S, \A r \in S : r \in Run /\ Expired(r), ReconcileExpired(S)
    PROVE  Lives
  <1>1. "interrupted" \in Status /\ "lease_expired" \in Reason
    BY DEF Status, Reason
  <1>2. ASSUME NEW r \in Run, r \in S
        PROVE  ShownAs(runs'[r]) = ShownAs(runs[r]) /\ KeysOf(tries'[r]) = KeysOf(tries[r])
    <2> DEFINE row == Closed(runs[r], "interrupted", "lease_expired")
               rows == CloseOpen(tries[r], "lease_expired")
    <2>1. runs'[r] = row /\ tries'[r] = rows
      BY <1>2 DEF ReconcileExpired
    <2>2. Expired(r) /\ runs[r] \in RunRow /\ tries[r] \in Seq(Attempt)
      BY <1>2, RowTypes DEF Expired
    <2>3. row \in RunRow /\ row.status = "interrupted" /\ row.reason = "lease_expired"
      BY <1>1, <2>2, ClosedRow
    <2>4. \A n \in DOMAIN tries[r] : tries[r][n] \in Attempt
      BY <2>2
    <2>5. DOMAIN rows = DOMAIN tries[r] /\ \A n \in DOMAIN tries[r] : rows[n].key = tries[r][n].key
      BY <2>4 DEF CloseOpen, Attempt
    <2>6. KeysOf(rows) = KeysOf(tries[r])
      BY <2>5, KeysAgree
    <2> HIDE DEF row, rows
    <2>7. ShownAs(row) = "interrupted" /\ ShownAs(runs[r]) = "interrupted"
      BY <2>2, <2>3, NoRowAssumption DEF ShownAs, Active, Expired
    <2> QED
      BY <2>1, <2>6, <2>7
  <1>3. ASSUME NEW r \in Run, r \notin S PROVE runs'[r] = runs[r] /\ tries'[r] = tries[r]
    BY <1>3 DEF ReconcileExpired
  <1>4. \A r \in Run : ShownAs(runs'[r]) = ShownAs(runs[r]) /\ KeysOf(tries'[r]) = KeysOf(tries[r])
    BY <1>2, <1>3
  <1> QED
    BY <1>4, NothingShown

\* The first attempt is bought without a key.
LEMMA WriteShown ==
    ASSUME StoreInv, NEW r \in Run, NEW previous \in Nat, NEW attempt \in Nat \ {0},
           NEW completed \in BOOLEAN, Write(r, previous, attempt, completed)
    PROVE  Lives
  <1> DEFINE one == FirstAttempt(runs[r])
  <1>1. one.key = NoKey
    BY DEF FirstAttempt
  <1>2. runs' = runs /\ tries' = IF previous = 0 /\ tries[r] = <<>>
                                 THEN [tries EXCEPT ![r] = <<one>>] ELSE tries
    BY DEF Write
  <1> HIDE DEF one
  <1>3. DOMAIN <<one>> = {1} /\ <<one>>[1] = one
    OBVIOUS
  <1>4. KeysOf(<<one>>) = {}
    BY <1>1, <1>3 DEF KeysOf
  <1>5. KeysOf(<<>>) = {}
    BY DEF KeysOf
  <1>6. \A s \in Run : KeysOf(tries'[s]) = KeysOf(tries[s])
    <2>1. CASE previous = 0 /\ tries[r] = <<>>
      BY <1>2, <1>4, <1>5, <2>1, RowTypes
    <2>2. CASE ~(previous = 0 /\ tries[r] = <<>>)
      BY <1>2, <2>2
    <2> QED
      BY <2>1, <2>2
  <1> QED
    BY <1>2, <1>6, NothingShown

LEMMA ResumeShown ==
    ASSUME StoreInv, NEW r \in Run, NEW k \in Key, BeginResume(r, k, WorkerOwner, TRUE)
    PROVE  Lives
  <1> DEFINE row == [runs[r] EXCEPT !.status = "running", !.reason = "none",
                                    !.owner = WorkerOwner, !.lease = LeaseTicks]
             try == [key |-> k, end |-> "open"]
             rows == Append(tries[r], try)
             keys == KeysOf(tries[r])
  <1>1. Disposition(r, k, TRUE) = "acquired" /\ Rewrites(r, row, rows)
    BY RowTypes DEF BeginResume, Rewrites
  <1>2. /\ runs[r] # NoRow /\ runs[r] \in RunRow /\ runs[r].status = "interrupted"
        /\ runs[r].reason = "lease_expired" /\ Replays(r, k) = {} /\ tries[r] \in Seq(Attempt)
    BY <1>1, Acquired, RowTypes
  <1>3. "running" \in Status /\ "none" \in Reason /\ LeaseTicks \in 0..LeaseTicks
    BY StoreAssumption DEF Status, Active, Reason
  <1>4. row \in RunRow /\ row.status = "running" /\ row.lease = LeaseTicks
    BY <1>2, <1>3 DEF RunRow
  <1>5. try \in Attempt /\ try.key = k
    BY DEF Attempt, Reason
  <1> HIDE DEF row, try
  <1>6. /\ DOMAIN rows = 1..Len(tries[r]) + 1 /\ rows[Len(tries[r]) + 1] = try
        /\ \A n \in DOMAIN tries[r] : n \in DOMAIN rows /\ rows[n] = tries[r][n]
        /\ \A n \in DOMAIN rows : n \in DOMAIN tries[r] \/ n = Len(tries[r]) + 1
        /\ Len(tries[r]) + 1 \in DOMAIN rows
    BY <1>2, <1>5
  <1> HIDE DEF rows
  <1>7. \A x : x \in KeysOf(rows) <=> x \in keys \cup {k}
    <2>1. k # NoKey
      BY StoreAssumption
    <2> QED
      BY <1>5, <1>6, <2>1 DEF KeysOf
  <1>8. k \notin keys
    BY <1>2 DEF KeysOf, Replays
  <1>9. KeysOf(rows) = keys \cup {k}
    BY <1>7
  <1>10. ShownAs(row) = "running" /\ ShownAs(runs[r]) = "interrupted"
    BY <1>2, <1>4, StoreAssumption, NoRowAssumption DEF ShownAs, Active
  <1>11. /\ Shown' = [Shown EXCEPT ![r] = ShownAs(row)]
         /\ Used' = [Used EXCEPT ![r] = KeysOf(rows)]
         /\ Shown[r] = ShownAs(runs[r]) /\ Used[r] = keys
    BY <1>1, OneShown
  <1> HIDE DEF keys
  <1>12. Used' = [Used EXCEPT ![r] = Used[r] \cup {k}] /\ k \notin Used[r]
    BY <1>8, <1>9, <1>11
  <1>13. Used' = [Used EXCEPT ![r] = @ \cup {k}]
    BY <1>12
  <1>14. Shown' = [Shown EXCEPT ![r] = "running"] /\ Shown[r] = "interrupted"
    BY <1>10, <1>11
  <1> QED
    BY <1>12, <1>13, <1>14, ResumeLives

LEMMA SealShown ==
    ASSUME StoreInv, NEW r \in Run, NEW attempt \in Nat, FailResumeDelivery(r, attempt, WorkerOwner)
    PROVE  Lives
  <1> DEFINE row == Closed(runs[r], "interrupted", "queue_delivery_failed")
             rows == [tries[r] EXCEPT ![attempt].end = "queue_delivery_failed"]
  <1>1. /\ runs[r].status = "running" /\ checkpoints[r] # NoRow /\ attempt \in DOMAIN tries[r]
        /\ Rewrites(r, row, rows)
    BY RowTypes DEF FailResumeDelivery, Rewrites
  <1>2. runs[r] # NoRow /\ runs[r] \in RunRow /\ tries[r] \in Seq(Attempt)
    BY <1>1, RowTypes
  <1>3. "interrupted" \in Status /\ "queue_delivery_failed" \in Reason
    BY DEF Status, Reason
  <1>4. row \in RunRow /\ row.status = "interrupted" /\ row.reason = "queue_delivery_failed"
    BY <1>2, <1>3, ClosedRow
  <1>5. \A n \in DOMAIN tries[r] : tries[r][n] \in Attempt
    BY <1>2
  <1>6. DOMAIN rows = DOMAIN tries[r] /\ \A n \in DOMAIN tries[r] : rows[n].key = tries[r][n].key
    BY <1>1, <1>5 DEF Attempt
  <1> HIDE DEF row, rows
  <1>7. KeysOf(rows) = KeysOf(tries[r])
    BY <1>6, KeysAgree
  <1>8. ShownAs(row) = "abandoned" /\ ShownAs(runs[r]) \in {"running", "interrupted"}
    BY <1>1, <1>2, <1>4, NoRowAssumption DEF ShownAs, Active
  <1>9. /\ Shown' = [Shown EXCEPT ![r] = "abandoned"] /\ Used' = Used
        /\ Shown[r] \in {"running", "interrupted"}
    BY <1>1, <1>7, <1>8, SameKeys
  <1> QED
    BY <1>9, AbandonLives

\* The leases that run out at this instant lapse together.
LEMMA ElapseShown ==
    ASSUME StoreInv, Elapse
    PROVE  Lives
  <1> DEFINE S == {r \in Run : /\ runs[r] # NoRow /\ runs[r].status \in Active
                               /\ runs[r].lease = 1}
             n(r) == runs[r].lease - 1
             row(r) == [runs[r] EXCEPT !.lease = n(r)]
             ticks(r) == runs[r] # NoRow /\ runs[r].lease > 0
  <1>1. runs' = [r \in Run |-> IF ticks(r) THEN row(r) ELSE runs[r]] /\ tries' = tries
    BY DEF Elapse
  <1>2. ASSUME NEW r \in Run, ticks(r)
        PROVE  /\ runs[r] \in RunRow /\ runs[r] # NoRow /\ row(r) \in RunRow /\ row(r) # NoRow
               /\ row(r).status = runs[r].status
               /\ row(r).reason = runs[r].reason /\ row(r).lease = runs[r].lease - 1
    <2>1. runs[r] # NoRow /\ runs[r] \in RunRow
      BY <1>2, RowTypes
    <2>2. n(r) \in 0..LeaseTicks
      BY <1>2, <2>1, StoreAssumption DEF RunRow
    <2>3. n(r) = runs[r].lease - 1
      OBVIOUS
    <2> HIDE DEF n
    <2> QED
      BY <2>1, <2>2, <2>3, NoRowAssumption DEF RunRow
  <1>3. \A r \in Run : ticks(r) => runs'[r] = row(r)
    BY <1>1
  <1>4. \A r \in Run : ~ticks(r) => runs'[r] = runs[r]
    BY <1>1
  <1> HIDE DEF row
  <1>5. ASSUME NEW r \in Run, r \in S
        PROVE  ShownAs(runs[r]) \in {"queued", "running"} /\ ShownAs(runs'[r]) = "interrupted"
    BY <1>2, <1>3, <1>5 DEF ShownAs, Active
  <1>6. ASSUME NEW r \in Run, r \notin S PROVE ShownAs(runs'[r]) = ShownAs(runs[r])
    <2>1. CASE ticks(r)
      <3>1. runs[r].lease \in Nat
        BY <1>2, <2>1 DEF RunRow
      <3> QED
        BY <1>2, <1>3, <1>6, <2>1, <3>1 DEF ShownAs
    <2>2. CASE ~ticks(r)
      BY <1>4, <2>2
    <2> QED
      BY <2>1, <2>2
  <1> HIDE DEF S, ticks
  <1>7. /\ \A r \in S : Shown[r] \in {"queued", "running"}
        /\ \A r \in Run : Shown'[r] = IF r \in S THEN "interrupted" ELSE Shown[r]
        /\ Shown' = [r \in Run |-> Shown'[r]]
        /\ Used' = Used
    <2>1. S \subseteq Run
      BY DEF S
    <2>2. Used' = Used
      BY <1>1, ShownRows
    <2> QED
      BY <1>5, <1>6, <2>1, <2>2, ShownRows
  <1>8. Shown' = [r \in Run |-> IF r \in S THEN "interrupted" ELSE Shown[r]]
    BY <1>7
  <1>9. S \in SUBSET Run
    BY DEF S
  <1> QED
    BY <1>7, <1>8, <1>9, LapseLives

LEMMA HandlerLives ==
    ASSUME RunInv, NEW h \in Handler, HandlerStep(h)
    PROVE  Lives
  <1> DEFINE v == handlers[h]
             r == v.run
  <1>1. StoreInv /\ v.attempt \in Nat /\ (v.pc # "idle" => r \in Run)
    BY DEF RunInv, Requests, HandlerState, Serving
  <1>2. ASSUME UNCHANGED storeVars PROVE Lives
    BY <1>2, SameRowsShown DEF storeVars
  <1>3. CASE \E p \in Process, s \in Run : ChatReserve(h, p, s)
    BY <1>2, <1>3 DEF ChatReserve
  <1>4. CASE \E level \in {"L1", "L2"} : ChatCreate(h, level)
    BY <1>1, <1>4, CreateShown DEF ChatCreate
  <1>5. CASE ChatCreateFails(h)
    BY <1>1, <1>2, <1>5, CreateShown DEF ChatCreateFails
  <1>6. CASE ChatDeliver(h) \/ ChatDeliveryFails(h)
    BY <1>2, <1>6 DEF ChatDeliver, ChatDeliveryFails
  <1>7. CASE ChatFailDelivery(h)
    BY <1>1, <1>2, <1>7, FailDeliveryShown DEF ChatFailDelivery
  <1>8. CASE \E p \in Process, s \in Run, k \in Key : ResumeBegin(h, p, s, k)
    BY <1>1, <1>8, ResumeShown DEF ResumeBegin
  <1>9. CASE ResumeRead(h) \/ ResumeDeliver(h) \/ ResumeDeliveryFails(h)
    BY <1>2, <1>9 DEF ResumeRead, ResumeDeliver, ResumeDeliveryFails
  <1>10. CASE ResumeSeal(h)
    BY <1>1, <1>2, <1>10, SealShown DEF ResumeSeal
  <1> QED
    BY <1>3, <1>4, <1>5, <1>6, <1>7, <1>8, <1>9, <1>10 DEF HandlerStep

LEMMA WorkerLives ==
    ASSUME RunInv, NEW p \in Process, WorkerStep(p)
    PROVE  Lives
  <1> DEFINE v == workers[p]
             r == JobRun(p)
  <1>1. /\ StoreInv
        /\ v.pc # "idle" => /\ r \in Run /\ v.version \in Nat /\ v.job.attempt \in Nat \ {0}
    BY WorkerFacts DEF RunInv
  <1>2. ASSUME UNCHANGED storeVars PROVE Lives
    BY <1>2, SameRowsShown DEF storeVars
  <1>3. ASSUME NEW events, AppendEvents(r, WorkerOwner, events) PROVE Lives
    BY <1>3, SameRowsShown DEF AppendEvents
  <1>4. CASE Dequeue(p) \/ AttemptEnds(p) \/ HeartbeatLost(p)
    BY <1>2, <1>4 DEF Dequeue, AttemptEnds, HeartbeatLost
  <1>5. CASE ClaimJob(p)
    BY <1>1, <1>5, ClaimShown DEF ClaimJob
  <1>6. CASE \E receipts \in 0..1 : ReconcileEgress(p, receipts)
    BY <1>3, <1>6, SameRowsShown DEF ReconcileEgress, AppendEvents
  <1>7. CASE RecordAudit(p)
    BY <1>3, <1>7 DEF RecordAudit
  <1>8. CASE \E completed \in BOOLEAN : WriteCheckpoint(p, completed)
    BY <1>1, <1>8, WriteShown DEF WriteCheckpoint, Running
  <1>9. CASE \E status \in Outcome : CompleteRun(p, status)
    BY <1>1, <1>9, CompleteShown DEF CompleteRun, Running
  <1>10. CASE HeartbeatTask(p)
    BY <1>1, <1>10, HeartbeatShown DEF HeartbeatTask
  <1> QED
    BY <1>4, <1>5, <1>6, <1>7, <1>8, <1>9, <1>10 DEF WorkerStep

LEMMA NextLives == RunInv /\ [Next]_vars => Lives
  <1>1. SUFFICES ASSUME RunInv, [Next]_vars PROVE Lives
    OBVIOUS
  <1>2. StoreInv
    BY <1>1 DEF RunInv
  <1>3. ASSUME UNCHANGED storeVars PROVE Lives
    BY <1>3, SameRowsShown DEF storeVars
  <1>4. ASSUME NEW p \in Process, Start(p) PROVE Lives
    <2>1. PICK S \in SUBSET {r \in Run : Expired(r)} : ReconcileExpired(S)
      BY <1>4 DEF Start
    <2> QED
      BY <1>2, <2>1, ReconcileShown
  <1>5. ASSUME NEW p \in Process, NEW r \in Run, NEW k \in Key, ResumeBeginAmbiguous(p, r, k)
        PROVE  Lives
    BY <1>2, <1>5, ResumeShown DEF ResumeBeginAmbiguous
  <1>6. ASSUME NEW p \in Process, ProcessStep(p) PROVE Lives
    BY <1>3, <1>4, <1>5, <1>6 DEF ProcessStep, CloseWorker, Crash
  <1>7. ASSUME NEW r \in Run, Retention(r) PROVE Lives
    BY <1>7, SameRowsShown DEF Retention, DeleteExpired
  <1>8. ASSUME Tick PROVE Lives
    BY <1>2, <1>8, ElapseShown DEF Tick
  <1>9. ASSUME UNCHANGED vars PROVE Lives
    BY <1>3, <1>9 DEF vars
  <1> QED
    BY <1>1, <1>6, <1>7, <1>8, <1>9, HandlerLives, WorkerLives DEF Next

\* The service implements RunLifecycle.  What GET /runs/{run_id} shows moves
\* only along its steps, whatever handlers, workers, restarts and expiring
\* leases do: an expired run comes back only by a resume with a fresh key, and
\* a settled or abandoned one never does.
THEOREM ServiceImplementsLifecycle == Spec => LifecycleSpec
  <1>1. Init => Lifecycle!Init
    <2>1. ASSUME Init, NEW r \in Run PROVE ViewOf(r) = "absent" /\ UsedKeys(r) = {}
      BY <2>1 DEF Init, StoreInit, ViewOf, View, UsedKeys
    <2> QED
      BY <2>1 DEF Lifecycle!Init
  <1>2. RunInv /\ [Next]_vars =>
            [Lifecycle!Next]_<<[r \in Run |-> ViewOf(r)], [r \in Run |-> UsedKeys(r)]>>
    BY NextLives DEF Lives, Shown, Used
  <1> QED
    BY <1>1, <1>2, RunInvariance, PTL DEF Spec, LifecycleSpec, Lifecycle!Spec
=============================================================================
