----------------------------- MODULE RunService -----------------------------
(***************************************************************************)
(* api/app.py and runtime/worker.py over the run store: API processes,     *)
(* each with one bounded queue and one worker, the handlers of POST /chat  *)
(* and POST /runs/{id}/resume, and the clock.                              *)
(*                                                                         *)
(* Handler pc (the await it is suspended in):                              *)
(*   idle                                                                  *)
(*   creating    chat holds a permit, inside store.create                  *)
(*   building    the run is created, inside build_job                      *)
(*   failing     delivery failed, inside fail_delivery                     *)
(*   reading     resume acquired an attempt, inside checkpoint_store.read  *)
(*   admitting   inside build_job with the checkpoint that was read        *)
(*   sealing     delivery failed, inside fail_resume_delivery              *)
(* Worker pc: idle, claiming, starting (a resumed job's reconcile of its   *)
(* egress receipts), running (the attempt, with its heartbeat task).       *)
(***************************************************************************)
EXTENDS RunStore, FiniteSets

CONSTANTS
    Process,
    Handler,        \* concurrent request handlers
    QueueCapacity,
    MaxVersion,     \* bound: checkpoint versions written by attempts
    MaxAudits,      \* bound: events an attempt appends
    NoJob,
    NoProcess,
    NoRun

VARIABLES
    processes,      \* down, up or closing
    queues,         \* the worker's memory stream: jobs in order
    permits,        \* the worker's outstanding delivery permits
    workers,        \* [pc, job, version, lost, audits]
    handlers,       \* [pc, process, run, attempt, version]
    delivered       \* history: the attempts put into a queue, by run

serviceVars == <<processes, queues, permits, workers, handlers, delivered>>
vars == <<storeVars, serviceVars>>

ASSUME ServiceAssumption ==
    /\ QueueCapacity \in Nat \ {0}
    /\ MaxVersion \in Nat /\ MaxAudits \in Nat

Job == [run : Run, attempt : Nat \ {0}, leased : BOOLEAN, version : Nat]
Permit == [run : Run, attempt : Nat \ {0}]

IdleWorker ==
    [pc |-> "idle", job |-> NoJob, version |-> 0, lost |-> FALSE, audits |-> 0]
WorkerState ==
    [pc : {"idle", "claiming", "starting", "running"}, job : Job \cup {NoJob},
     version : Nat, lost : BOOLEAN, audits : 0..MaxAudits]

IdleHandler ==
    [pc |-> "idle", process |-> NoProcess, run |-> NoRun, attempt |-> 0, version |-> 0]
HandlerState ==
    [pc : {"idle", "creating", "building", "failing", "reading", "admitting", "sealing"},
     process : Process \cup {NoProcess}, run : Run \cup {NoRun},
     attempt : Nat, version : Nat]

TypeOK ==
    /\ StoreTypeOK
    /\ processes \in [Process -> {"down", "up", "closing"}]
    /\ queues \in [Process -> Seq(Job)]
    /\ permits \in [Process -> SUBSET Permit]
    /\ workers \in [Process -> WorkerState]
    /\ handlers \in [Handler -> HandlerState]
    /\ delivered \in [Run -> Seq(Nat)]

Init ==
    /\ StoreInit
    /\ processes = [p \in Process |-> "down"]
    /\ queues = [p \in Process |-> <<>>]
    /\ permits = [p \in Process |-> {}]
    /\ workers = [p \in Process |-> IdleWorker]
    /\ handlers = [h \in Handler |-> IdleHandler]
    /\ delivered = [r \in Run |-> <<>>]

-----------------------------------------------------------------------------
(* DeliveryPermit and RunWorker's queue *)

PermitOf(r, attempt) == [run |-> r, attempt |-> attempt]
HeldBy(h) == PermitOf(handlers[h].run, handlers[h].attempt)

HasCapacity(p) == processes[p] = "up" /\ Cardinality(permits[p]) < QueueCapacity

Return(h) == handlers' = [handlers EXCEPT ![h] = IdleHandler]
Await(h, pc) == handlers' = [handlers EXCEPT ![h].pc = pc]

\* Mutant: a failed delivery keeps its permit.
CancelPermitKept(p, permit) == UNCHANGED permits

\* cancel: nothing is released twice.
CancelPermit(p, permit) == permits' = [permits EXCEPT ![p] = @ \ {permit}]

Enqueue(p, job) ==
    /\ queues' = [queues EXCEPT ![p] = Append(@, job)]
    /\ delivered' = [delivered EXCEPT ![job.run] = Append(@, job.attempt)]

-----------------------------------------------------------------------------
(* POST /chat *)

\* reserve comes first; a full or closed queue refuses the request.
ChatReserve(h, p, r) ==
    /\ handlers[h].pc = "idle"
    /\ HasCapacity(p)
    /\ runs[r] = NoRow /\ \A g \in Handler : handlers[g].run # r
    /\ permits' = [permits EXCEPT ![p] = @ \cup {PermitOf(r, 1)}]
    /\ handlers' = [handlers EXCEPT ![h] =
           [IdleHandler EXCEPT !.pc = "creating", !.process = p, !.run = r, !.attempt = 1]]
    /\ UNCHANGED <<storeVars, processes, queues, workers, delivered>>

ChatCreate(h, level) ==
    /\ handlers[h].pc = "creating"
    /\ Create(handlers[h].run, level)
    /\ Await(h, "building")
    /\ UNCHANGED <<processes, queues, permits, workers, delivered>>

\* create raises, whether or not it committed: only the permit is given back.
ChatCreateFails(h) ==
    /\ handlers[h].pc = "creating"
    /\ \/ UNCHANGED storeVars
       \/ \E level \in {"L1", "L2"} : Create(handlers[h].run, level)
    /\ CancelPermit(handlers[h].process, HeldBy(h))
    /\ Return(h)
    /\ UNCHANGED <<processes, queues, workers, delivered>>

\* The permit becomes the queue entry's.
ChatDeliver(h) ==
    /\ handlers[h].pc = "building"
    /\ processes[handlers[h].process] = "up"
    /\ HeldBy(h) \in permits[handlers[h].process]
    /\ Enqueue(handlers[h].process,
               [run |-> handlers[h].run, attempt |-> 1, leased |-> FALSE, version |-> 0])
    /\ Return(h)
    /\ UNCHANGED <<storeVars, processes, permits, workers>>

\* build_job raises, the worker is closed or the request is cancelled.
ChatDeliveryFails(h) ==
    /\ handlers[h].pc = "building"
    /\ Await(h, "failing")
    /\ UNCHANGED <<storeVars, processes, queues, permits, workers, delivered>>

\* fail_delivery closes the queued run, is refused or fails; then permit.cancel.
ChatFailDelivery(h) ==
    /\ handlers[h].pc = "failing"
    /\ \/ FailDelivery(handlers[h].run)
       \/ UNCHANGED storeVars
    /\ CancelPermit(handlers[h].process, HeldBy(h))
    /\ Return(h)
    /\ UNCHANGED <<processes, queues, workers, delivered>>

-----------------------------------------------------------------------------
(* POST /runs/{run_id}/resume *)

\* Mutant: a replayed key is delivered again.
ResumeBeginReplayed(h, p, r, k) ==
    /\ handlers[h].pc = "idle"
    /\ processes[p] = "up"
    /\ \/ BeginResume(r, k, WorkerOwner, TRUE)
       \/ Disposition(r, k, TRUE) = "replay" /\ UNCHANGED storeVars
    /\ handlers' = [handlers EXCEPT ![h] =
           [IdleHandler EXCEPT !.pc = "reading", !.process = p, !.run = r,
                               !.attempt = Len(tries'[r])]]
    /\ UNCHANGED <<processes, queues, permits, workers, delivered>>

\* Every disposition but acquired returns here and writes nothing.
ResumeBegin(h, p, r, k) ==
    /\ handlers[h].pc = "idle"
    /\ processes[p] = "up"
    /\ BeginResume(r, k, WorkerOwner, TRUE)
    /\ handlers' = [handlers EXCEPT ![h] =
           [IdleHandler EXCEPT !.pc = "reading", !.process = p, !.run = r,
                               !.attempt = Len(tries[r]) + 1]]
    /\ UNCHANGED <<processes, queues, permits, workers, delivered>>

\* begin_resume commits, and the handler only sees RunStoreUnavailable.
ResumeBeginAmbiguous(p, r, k) ==
    /\ processes[p] = "up"
    /\ BeginResume(r, k, WorkerOwner, TRUE)
    /\ UNCHANGED serviceVars

ResumeRead(h) ==
    /\ handlers[h].pc = "reading"
    /\ LET found == checkpoints[handlers[h].run]
       IN  /\ found # NoRow /\ found.attempt = handlers[h].attempt
           /\ handlers' = [handlers EXCEPT ![h].pc = "admitting",
                                           ![h].version = found.version]
    /\ UNCHANGED <<storeVars, processes, queues, permits, workers, delivered>>

\* reserve and deliver run without suspending in between.
ResumeDeliver(h) ==
    /\ handlers[h].pc = "admitting"
    /\ HasCapacity(handlers[h].process)
    /\ permits' = [permits EXCEPT ![handlers[h].process] = @ \cup {HeldBy(h)}]
    /\ Enqueue(handlers[h].process,
               [run |-> handlers[h].run, attempt |-> handlers[h].attempt,
                leased |-> TRUE, version |-> handlers[h].version])
    /\ Return(h)
    /\ UNCHANGED <<storeVars, processes, workers>>

\* The read fails or finds another attempt, build_job raises, the queue is full
\* or closed, or the request is cancelled.
ResumeDeliveryFails(h) ==
    /\ handlers[h].pc \in {"reading", "admitting"}
    /\ Await(h, "sealing")
    /\ UNCHANGED <<storeVars, processes, queues, permits, workers, delivered>>

ResumeSeal(h) ==
    /\ handlers[h].pc = "sealing"
    /\ \/ FailResumeDelivery(handlers[h].run, handlers[h].attempt, WorkerOwner)
       \/ UNCHANGED storeVars
    /\ Return(h)
    /\ UNCHANGED <<processes, queues, permits, workers, delivered>>

-----------------------------------------------------------------------------
(* RunWorker *)

Running(p) == workers[p].pc = "running"
JobRun(p) == workers[p].job.run
EndAttempt(p) == workers' = [workers EXCEPT ![p] = IdleWorker]

\* The permit is released as the job leaves the queue.
Dequeue(p) ==
    /\ processes[p] = "up"
    /\ workers[p].pc = "idle"
    /\ queues[p] # <<>>
    /\ LET job == Head(queues[p])
       IN  /\ workers' = [workers EXCEPT ![p] =
                  [IdleWorker EXCEPT !.pc = IF job.leased THEN "starting" ELSE "claiming",
                                     !.job = job, !.version = job.version]]
           /\ CancelPermit(p, PermitOf(job.run, job.attempt))
    /\ queues' = [queues EXCEPT ![p] = Tail(@)]
    /\ UNCHANGED <<storeVars, processes, handlers, delivered>>

ClaimJob(p) ==
    /\ workers[p].pc = "claiming"
    /\ Claim(JobRun(p), WorkerOwner)
    /\ workers' = [workers EXCEPT ![p].pc = "running"]
    /\ UNCHANGED <<processes, queues, permits, handlers, delivered>>

\* reconcile_l2_egress: the receipts that are missing from the trace, if any.
ReconcileEgress(p, receipts) ==
    /\ workers[p].pc = "starting"
    /\ AppendEvents(JobRun(p), WorkerOwner,
                    [i \in 1..receipts |-> Audit(workers[p].job.attempt)])
    /\ workers' = [workers EXCEPT ![p].pc = "running"]
    /\ UNCHANGED <<processes, queues, permits, handlers, delivered>>

\* L1 looks at lease_lost before each event, L2 only before a send.
RecordAudit(p) ==
    /\ Running(p)
    /\ workers[p].lost => runs[JobRun(p)].level = "L2"
    /\ workers[p].audits < MaxAudits
    /\ AppendEvents(JobRun(p), WorkerOwner, <<Audit(workers[p].job.attempt)>>)
    /\ workers' = [workers EXCEPT ![p].audits = @ + 1]
    /\ UNCHANGED <<processes, queues, permits, handlers, delivered>>

WriteCheckpoint(p, completed) ==
    /\ Running(p)
    /\ workers[p].version < MaxVersion
    /\ Write(JobRun(p), workers[p].version, workers[p].job.attempt, completed)
    /\ workers' = [workers EXCEPT ![p].version = @ + 1]
    /\ UNCHANGED <<processes, queues, permits, handlers, delivered>>

CompleteRun(p, status) ==
    /\ Running(p) /\ ~workers[p].lost
    /\ Complete(JobRun(p), WorkerOwner, status, "none")
    /\ EndAttempt(p)
    /\ UNCHANGED <<processes, queues, permits, handlers, delivered>>

\* The claim or completion is refused, the lease is seen lost, a store call or
\* the attempt raises: _run_safely writes nothing.
AttemptEnds(p) ==
    /\ workers[p].pc # "idle"
    /\ EndAttempt(p)
    /\ UNCHANGED <<storeVars, processes, queues, permits, handlers, delivered>>

HeartbeatTask(p) ==
    /\ workers[p].pc \in {"starting", "running"} /\ ~workers[p].lost
    /\ Heartbeat(JobRun(p), WorkerOwner)
    /\ UNCHANGED serviceVars

\* The heartbeat is refused, or raises.
HeartbeatLost(p) ==
    /\ workers[p].pc \in {"starting", "running"} /\ ~workers[p].lost
    /\ workers' = [workers EXCEPT ![p].lost = TRUE]
    /\ UNCHANGED <<storeVars, processes, queues, permits, handlers, delivered>>

-----------------------------------------------------------------------------
(* Process lifecycle, retention and time *)

\* start_runtime: reconcile_expired, then worker.start.
Start(p) ==
    /\ processes[p] = "down"
    /\ \E S \in SUBSET {r \in Run : Expired(r)} : ReconcileExpired(S)
    /\ processes' = [processes EXCEPT ![p] = "up"]
    /\ UNCHANGED <<queues, permits, workers, handlers, delivered>>

\* worker.aclose: the attempt is cancelled and the queue dropped.
CloseWorker(p) ==
    /\ processes[p] = "up"
    /\ processes' = [processes EXCEPT ![p] = "closing"]
    /\ queues' = [queues EXCEPT ![p] = <<>>]
    /\ permits' = [permits EXCEPT ![p] = {}]
    /\ EndAttempt(p)
    /\ UNCHANGED <<storeVars, handlers, delivered>>

\* The process exits or is killed; everything it held in memory is gone.
Crash(p) ==
    /\ processes[p] # "down"
    /\ processes' = [processes EXCEPT ![p] = "down"]
    /\ queues' = [queues EXCEPT ![p] = <<>>]
    /\ permits' = [permits EXCEPT ![p] = {}]
    /\ EndAttempt(p)
    /\ handlers' = [h \in Handler |->
           IF handlers[h].process = p THEN IdleHandler ELSE handlers[h]]
    /\ UNCHANGED <<storeVars, delivered>>

Retention(r) == DeleteExpired(r) /\ UNCHANGED serviceVars

Tick == Elapse /\ UNCHANGED serviceVars

-----------------------------------------------------------------------------
HandlerStep(h) ==
    \/ \E p \in Process, r \in Run : ChatReserve(h, p, r)
    \/ \E level \in {"L1", "L2"} : ChatCreate(h, level)
    \/ ChatCreateFails(h)
    \/ ChatDeliver(h)
    \/ ChatDeliveryFails(h)
    \/ ChatFailDelivery(h)
    \/ \E p \in Process, r \in Run, k \in Key : ResumeBegin(h, p, r, k)
    \/ ResumeRead(h)
    \/ ResumeDeliver(h)
    \/ ResumeDeliveryFails(h)
    \/ ResumeSeal(h)

WorkerStep(p) ==
    \/ Dequeue(p)
    \/ ClaimJob(p)
    \/ \E receipts \in 0..1 : ReconcileEgress(p, receipts)
    \/ RecordAudit(p)
    \/ \E completed \in BOOLEAN : WriteCheckpoint(p, completed)
    \/ \E status \in Outcome : CompleteRun(p, status)
    \/ AttemptEnds(p)
    \/ HeartbeatTask(p)
    \/ HeartbeatLost(p)

ProcessStep(p) ==
    \/ Start(p)
    \/ CloseWorker(p)
    \/ Crash(p)
    \/ \E r \in Run, k \in Key : ResumeBeginAmbiguous(p, r, k)

Next ==
    \/ \E h \in Handler : HandlerStep(h)
    \/ \E p \in Process : WorkerStep(p) \/ ProcessStep(p)
    \/ \E r \in Run : Retention(r)
    \/ Tick

Spec == Init /\ [][Next]_vars

\* Time passes, and an attempt's provider calls, tool calls and store calls
\* have timeouts and budgets, so it ends.  Nothing else is assumed: no process
\* need ever start, stay up or serve a request.
FairSpec ==
    /\ Spec
    /\ WF_vars(Tick)
    /\ \A p \in Process :
           WF_vars(AttemptEnds(p) \/ \E status \in Outcome : CompleteRun(p, status))

-----------------------------------------------------------------------------
(* Properties *)

ShowsStatus(event) == event.kind \in {"state", "terminal"}

\* The last status in the trace is the status of the row: the eight
\* transactions that change one never leave the other behind.
TraceAgrees ==
    \A r \in Run : runs[r] # NoRow =>
        \E i \in DOMAIN trace[r] :
            /\ ShowsStatus(trace[r][i])
            /\ trace[r][i].status = runs[r].status
            /\ \A j \in DOMAIN trace[r] : j > i => ~ShowsStatus(trace[r][j])

\* What begin_resume's integrity checks rely on (README: "the checkpoint
\* attempt must equal the locked maximum attempt-ledger row"): only the latest
\* attempt may be open, it is closed for the reason the run was interrupted,
\* and no key bought two attempts.  No crash or race breaks it.
AttemptLineage ==
    \A r \in Run :
        LET last == Len(tries[r])
        IN  /\ checkpoints[r] # NoRow => checkpoints[r].attempt = last
            /\ \A n \in 1..last - 1 : tries[r][n].end = "lease_expired"
            /\ last > 0 => tries[r][last].end =
                   IF runs[r].status = "interrupted" THEN runs[r].reason ELSE "open"
            /\ \A m, n \in 1..last : tries[r][m].key = tries[r][n].key => m = n

\* No attempt is put into a queue twice, by racing handlers, retried resumes,
\* ambiguous commits or restarts (design: "never enqueues twice").
DeliveredOnce ==
    \A r \in Run : \A m, n \in DOMAIN delivered[r] :
        delivered[r][m] = delivered[r][n] => m = n

QueuedPermits(p) ==
    {PermitOf(queues[p][i].run, queues[p][i].attempt) : i \in DOMAIN queues[p]}
Holders(p) ==
    {h \in Handler : handlers[h].process = p
                     /\ handlers[h].pc \in {"creating", "building", "failing"}}

\* Queue capacity is neither leaked nor granted twice: the permits of a live
\* worker are exactly those of waiting jobs and of handlers before delivery.
PermitsConserved ==
    \A p \in Process :
        IF processes[p] = "up"
        THEN /\ permits[p] = QueuedPermits(p) \cup {HeldBy(h) : h \in Holders(p)}
             /\ Cardinality(permits[p]) = Len(queues[p]) + Cardinality(Holders(p))
             /\ Cardinality(permits[p]) <= QueueCapacity
        ELSE permits[p] = {}

\* An event of kind follows the resumption of a later attempt.
Overtaken(kind) ==
    \E r \in Run : \E i, j \in DOMAIN trace[r] :
        /\ i < j
        /\ trace[r][i].kind = "resume" /\ trace[r][j].kind = kind
        /\ trace[r][j].attempt < trace[r][i].attempt

\* The compare-and-set fences checkpoints: once an attempt is resumed, no
\* worker that still runs an earlier one writes a checkpoint, although write
\* looks at no lease.
CheckpointsFenced == ~Overtaken("checkpoint")

\* The same of trace events: "Fence every outward operation and audit write on
\* the worker lease" (worker.py replace_l2_runtime).
AuditsFenced == ~Overtaken("audit")

ViewOf(r) ==
    IF View(r) = <<"interrupted", "queue_delivery_failed">> THEN "abandoned"
    ELSE View(r)[1]
UsedKeys(r) == {tries[r][n].key : n \in DOMAIN tries[r]} \ {NoKey}

Lifecycle ==
    INSTANCE RunLifecycle WITH
        view <- [r \in Run |-> ViewOf(r)],
        used <- [r \in Run |-> UsedKeys(r)]

\* The service implements RunLifecycle: an expired run never comes back by
\* itself, a settled one never changes, and only a fresh key resumes.
LifecycleSpec == Lifecycle!Spec

\* Whatever crashes, every accepted run eventually stops being shown as queued
\* or running.
Settles ==
    \A r \in Run : runs[r] # NoRow ~> View(r)[1] \notin Active
=============================================================================
