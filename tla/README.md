# SpecPilot: TLA+ specifications

SpecPilot answers questions about technical specifications (L1) and checks
designs against them (L2). Excerpts of the specifications may leave the machine
only towards configured model providers, within the caps of a policy. The parts
that carry most of the risk are specified here: the **egress path**, which
decides what may be sent and accounts for it; the **run service**, which accepts,
queues, executes, interrupts and resumes runs; the **L1 and L2 attempts**, the
work of one run and what a crash leaves of it; the **freezing of a corpus** and
the record store below it; the **audit of the gold annotations**; the **intake
of archives**; and the **polling** of the page that shows a run.

Paths below are relative to the repository; the implementation is `src/specpilot`.

## 1. Inventory

| component | state it keeps | operations | interacts with |
|---|---|---|---|
| egress enforcer (`egress/enforcer.py`, `policy.py`) | none: pure functions on usage snapshots | `prepare`, `apply_reservation` | called by transport and, under locks, by the ledger |
| egress ledger (`egress/postgres.py`) | corpus head, epochs, roots, reservations, attempts, seals | `check_and_reserve`, `record_attempt`, `seal_run`, `rebind_policy` | shared by all processes through Postgres |
| transport (`providers/transport.py`) | one call frame per send | `send` | ledger, provider adapter |
| run store (`runs/postgres.py`) | run row with lease, event log | `create`, `read_owned`, `claim`, `heartbeat`, `append*`, `complete`, `fail_delivery`, `reconcile_expired` | API handlers, worker |
| checkpoint store (`checkpoints/postgres.py`) | checkpoint row, attempt rows | `write`, `begin_resume`, `fail_resume_delivery`, `delete_expired` | same rows and locks as the run store |
| API and worker (`api/app.py`, `runtime/worker.py`) | permits, queue, current job, heartbeat task | `POST /chat`, `POST /runs/{id}/resume`, start, shutdown | run store, checkpoint store, L2 attempt |
| L2 attempt (`runtime/l2.py`) | stage, claims, generations, recovery flag in the checkpoint | `run_l2_attempt` and its stages | transport, checkpoint store, agents, verifier |
| verifier and recovery (`verifier/`) | recovery reservation | `select_recovery`, `execute_recovery` | L2 attempt |
| L1 attempt (`runtime/worker.py`, `answer/`) | active stage, terminal, lease flag of one attempt | `_run_l1`, `run_answer`, `verify_answer` | run store, agents, transport |
| agents (`agents/`) | tool budget of a call | `plan`, `collect`, `evaluate` | transport, MCP tools |
| sessions (`sessions/tokens.py`) | none: signed tokens | issue, verify | API |
| MCP server (`mcp_server/`) | none that changes | tools over the corpus | retrieval |
| record stores, leases (`manifests/`) | record files, flocks, operations inside a lease | `publish`, `read`, `acquire_*_lease`, `close`, `create` | freezing, egress |
| freezing (`corpus/freezing.py`, `retrieval/dense.py`) | Qdrant collection, snapshots, manifests | write, `freeze_corpus`, `verify_corpus` | record stores, Qdrant |
| annotation, review, pooling (`annotation/`, `retrieval/pooling.py`, `cli.py`) | annotations, retirements, runs, decisions, applications, seals | add, review, deep-review, retire, pool-register, pool-review | each other, through files |
| retrieval (`retrieval/`) | read-only indexes | search, fuse | MCP tools |
| ingestion (`ingestion/`) | destination, quarantine | `archive inspect` | file system |
| corpus building (`corpus/`) | none | extraction of clauses and tables | freezing |
| trace UI (`web/trace`) | polling state | poll, refresh | API |

What is hard in them:

* **Egress.** Tasks of several processes spend one budget; a commit may be lost
  after it happened; cancellation and crashes fall between the reservation, the
  send and its record; operators change the policy of a corpus while processes
  loaded with the old one still send. Correct means: no cap is exceeded, one key
  sends once, whatever was sent stays charged, and a change of policy is not a
  fresh budget.
* **Run service.** A lease may expire under a worker that does not notice; two
  processes may work on one run; `begin_resume` may commit while its caller sees
  a failure; a handler holds a queue permit over several awaits; a worker crash
  writes nothing. Correct means: row, trace, attempts and checkpoint agree, an
  attempt is delivered at most once, an overtaken attempt changes nothing, queue
  capacity is conserved, and every run the owner sees eventually settles.
* **L2 attempt.** A checkpoint stores no prose, so a resume repeats model calls
  under new generations, and may get another batch of claims than before. Correct
  means: no key is sent twice, repeated crashes buy no sends, tool calls or
  recoveries, every path writes checkpoints the store accepts, and an answered
  run has a result for each claim.
* **L1 attempt.** The lease may be lost at any await while the attempt goes on;
  every one of its exception handlers has to report what was sent and close what
  was begun. Correct means: the trace of a completed run accounts for each
  request and tool call, an answer cites only what was disclosed, and a settled
  run is not touched again.
* **Freezing.** Writers with several threads, freezers and readers share a
  collection that a database server changes even after a client has stopped
  waiting; records are published by link and unlink. Correct means: no write lease
  on what is frozen, one lineage of manifests, no vanishing record, and a served
  collection that is the one attested.
* **Audit.** Commands read the stores, wait for a human, check and then write
  several records, with nothing locked. Correct means: evidence before effect, and
  seals that certify only what was judged, applied and added to the gold. That an
  item is judged once is intended as well, but the code does not ensure it (section
  3).
* **Intake.** Processes share a destination and a quarantine, and any system call
  may be the last. Correct means: an accepted document and a printed rejection
  stay, and nothing partial is ever visible.
* **Polling.** Responses, timers, refreshes, deadlines and re-renders meet in any
  order. Correct means: the page shows its own run, never goes back, and polls as
  long as it should and no longer.

`PROJECT.json` lists every component and, under `hazards`, the places in the
code where these behaviours bite.

## 2. Modules

    EgressEnforcer   caps and totals (pure operators)
      EgressLedger   the Postgres ledger: one action per transaction
        EgressTransport   tasks in send, operators in rebind-policy; Spec
          EgressProofs    theorems
          MCEgress        instances for TLC
    RunStore         run store and checkpoint store: one action per transaction
      RunService     API handlers, queue, worker, heartbeat, processes, time; Spec
        RunProofs    theorems, with the refinement of RunLifecycle
        MCRun        instances for TLC
    RunLifecycle     what a run's owner may rely on; implemented by RunService
    L2Attempt        run_l2_attempt, its checkpoints and sends over crashes; Spec
      L2Proofs       theorems
      MCL2           instances for TLC
    EvidenceAgent    tool plans and their execution under a budget
      AnswerCheck    replies, citations, projected outcomes (pure operators)
        L1Attempt    _run_l1, its heartbeat, its lease; Spec
          L1Proofs   theorems
          MCL1       instance for TLC
    SecureRecords    publication of one record, step by step
    CollectionLease  shared and exclusive leases, operations, close
      CorpusFreeze   (extends both) writers, freezers, verifier, Qdrant; Spec
        CorpusProofs theorems
        MCCorpus     instance for TLC
    AnnotationStore  annotations and their chains
      PoolingStore   audit runs, decisions, applications, seals
        GoldAudit    the author's and the reviewers' commands; Spec
          AuditProofs  theorems
          MCAudit    instances for TLC
    ArchiveIntake    archive inspect: extraction and quarantine; Spec
      IntakeProofs   theorems
      MCIntake       instance for TLC
    RunPolling       the useRunPolling hook; Spec
      PollingProofs  theorems
      MCPolling      instance for TLC

### EgressEnforcer, EgressLedger, EgressTransport

A request is a record of what the caps distinguish: root, run, key, level,
stage, payload kind, document, claim, the disclosures it contains (`facts`), the
sizes of its free text and outline, the calls of its plan, and whether its bindings
hold. `Size` gives
every set of disclosures one number, which stands for tokens and for bytes: the
code checks and sums both in the same way. `Derive` is what `prepare` accepts,
`UsageAdmits` and `CorpusAdmits` are the checks of `apply_reservation`, and
`ApplyUsage` and `ApplyCorpusUsage` the totals it returns. The API admits exactly
one source per run, so the excerpts of a request belong to its document. A second
disclosure of one id with other facts (`disclosure_fact_mismatch`) is left out: an id
stands for its facts.

The ledger's variables are its tables. Each transaction takes the head lock and
then the root lock, so each is one step: `Reserve` (with the creation of head,
epoch and root rows), `Replay`, `RecordAttempt`, `SealRun`, `RebindPolicy`. Rows
named by uuids come from the sets `Epoch` and `Reservation`; these, like the
finite sets of requests, are the bounds of a run.

A task of `EgressTransport` is one call of `send`; its `pc` names the await it
is suspended in. `ReserveAmbiguous` is a reservation that commits, or does not,
while the caller sees a dropped connection; `Transmit` is the moment the request
leaves inside `adapter.send`; `CancelSend` and `CancelRecord` are cancellation
before and during accounting; `ProcessDies` may happen at any await. `wire` and
`lost` are history variables. Each task has the policy its process loaded, and
operators move the corpus to another one in two steps (read the head, rebind).

### RunStore, RunService, RunLifecycle

A lease is the number of clock ticks left of it; `Tick` takes one from every
lease, so any sequence of steps may happen before or after an expiry. The
body of a checkpoint is abstracted to its version, its attempt and whether it is
`completed`: this is all that the stores' own fences read. The attempt row keeps
its key and its end reason. A reconciliation takes any subset of the expired runs
(`SKIP LOCKED`). `fail_resume_delivery` reads the clock before it takes the row
lock, so its action does not require a live lease. Refusals (wrong owner, wrong
question, other bindings) write nothing and are left out; the other dispositions
of `begin_resume` are computed by `Disposition`.

Handlers and workers have a `pc` that names the await they are in; between two
awaits a coroutine runs without interruption, hence `ResumeDeliver` is one step.
An attempt appends trace events and writes checkpoints in any order, a superset
of what `_run_l1` and `run_l2_attempt` do; `RecordAudit` and `WriteCheckpoint`
keep the fences of the code. `Crash` loses a process's memory, `CloseWorker` is
the orderly shutdown. `delivered` is a history variable, and the `attempt` field
of an audit event is a ghost.

`RunLifecycle` is the abstract machine of a run as its owner sees it: absent,
queued, running, then an outcome, `abandoned` or `interrupted`; an interrupted
run returns only through a resume with a key not used before. `LifecycleSpec`
states that `RunService` implements it, with the status `read_owned` shows and
the keys in the attempt rows as the mapping.

### L2Attempt

One L2 run and its attempts, one after the other. `checkpoint` is the stored row
with the fields the control flow reads: version, attempt, stage, whether there is
evidence, tool calls, the reservations (`listed`) and generations as sets of send
keys, recovery flag and claim, number of candidates, completed claims. `frame`
holds the locals of `run_l2_attempt` and `_one_claim`: its `pc` names the await,
`cp` is the checkpoint variable of the innermost function and `outer` the version
in the one that the exception handlers use, which differ inside `_one_claim`.
`WriteThen` is the store's compare-and-set with the stage table
(`LegalTransitions`) and `validate_transition` (`Monotonic`); a write that fails
ends the attempt, since `run_l2_attempt` catches none of the store's errors.
`Valid` are the validators of `RunCheckpoint`, which run when a row is read but
not in `model_copy`.

A model call is `PrepareGeneration`, `Transmit` and one of `Receive`,
`ReceiveError`, `SendAborts`; the ledger is reduced to the state of each key and
the seal. What the models and verifiers decide (the batch, a proposed verdict, a
fault, a judgement) is a choice; a fault is known by `cost`, the most tool calls
its recovery may make. `AttemptEnds` is a crash, an exception or an abandonment
at any point; `Interrupt` and `Resume` are the steps of `RunService` that matter
here. That an attempt which was overtaken writes no checkpoint after a resume is
`CheckpointsFenced` of `RunService`, so attempts do not overlap in this module.
`recoveries` and `raised` are history variables. A send that is cancelled or
cannot be recorded seals the run (`SendAborts`); the seal outlives the attempt.

### EvidenceAgent, AnswerCheck, L1Attempt

`EvidenceAgent` executes a plan call by call. Its five tools are three kinds of
step; what a tool finds is a choice. The text of a clause is checked against the
local corpus, so a clause determines its content hash, and two clauses may share
one. `AnswerCheck` has what happens to a reply: `parse_reply` by its results, the
citation check, and the projection to a terminal state. All evidence of a request
is of one corpus, so the fault `cross_manifest` cannot occur.

Between two awaits `_run_l1` only computes, so its body is a *script*: the events
still to be appended, one await each, and the operation that follows. It looks at
`lease_lost` before each, except between two tool summaries. `trace` has what the
attempt appended and the terminal event; the transitions of create and claim are
in `RunStore`. `Constructible` are the bounds whose validators raise while an
event is built. The `finally` clause of a failing attempt is one step with the
exception.

### SecureRecords, CollectionLease, CorpusFreeze

`SecureRecords` splits `publish` into its system calls: create, write and flush,
link, unlink, read back, and the removal of a record whose publication failed. A
record stands for its own hash. Between link and unlink it has two links, and a
scan by another process refuses it. `CollectionLease` has the flock, the phases
of a lease and the operations inside it; a second check after the lock decides
whether a writer gets it.

`CorpusFreeze` composes them. All complete contents of a collection are members of
`Vector`, all incomplete ones are `"empty"`. A writer's request may time out; it is
then an orphan that Qdrant applies at any later time or never. `late` counts the
orphans that changed a collection that was frozen or being frozen: no lease can
prevent this, as `dense.py` says itself, so `ServedIsFrozen` and `SnapshotBacked`
state how many such changes the code tolerates (none, and one). The repeated scans
of a freezer under its exclusive lock are one step. A manifest carries its
predecessor instead of the predecessor's id.

### AnnotationStore, PoolingStore, GoldAudit

The stores are sets of records, as the directories are. No store operation holds a
lock: each reads the directories it needs, one after the other, checks what it read,
and writes. Of a pool-review every read, every check and every write is a step of its
own, so that other processes come between any two of them: `PoolingStore` has the
checks as functions of what was read (`CreateAccepts`, `SupersedeAccepts`,
`SealAccepts`) and the writes, and a session of `GoldAudit` keeps in `known`,
`applied`, `seen` and `gone` what it has read and may be stale. The last read of an
operation and the check that follows it are one step, since nothing happens in
between that another process could see; an enumeration of one directory is one step.
There is one author, whose `pool-register` reads the heads and the audited items in
one step. A command may be interrupted before any step. `_write` creates a file and
then fills it; a crash in between leaves a record that no later read accepts, which
is not modelled.

A decision carries its `Stamp`, which stands for reviewer and elapsed time: equal
answers may or may not be one record. A seal carries the decisions it names. Items
without clauses are the expected refusals. A dictionary of heads keeps the last record
in the order of the enumeration, which is a hash order: the model keeps sequences
(`Insertions`) where the code depends on it.

### ArchiveIntake

One destination, one quarantine directory for each archive, and processes with
their own policies. A member is known by the faults its header shows before and
after the size checks, the size it declares, the size it has, and how reading it
ends. The copy is compared with the limits after each chunk (`ByteCounts`). The archive is copied to a private file first, so its path may change at any
time without effect. Steps are system calls, or runs of them that no other process
can tell apart; any call but a removal may fail, and a process may be killed
anywhere. The creation of parent directories is left out.

### RunPolling

One page, its renders and effects, and the activations of the hook, each with its
timers, its request and its queued refresh. The promise reactions of one response
are one step. The state of a run at the server is a number that only grows, with a
status that is terminal at some of them: an interrupted run may be resumed.

## 3. Runs

| run | instance | checks |
|---|---|---|
| `EgressBudget` | 2 tasks, 4 requests, 3 reservations, 1 policy | `TypeOK`, `RootsWithinCaps`, `AtMostOneTransmission`, `TotalsExact`, `UnrecordedIsSealed` |
| `EgressRebind` | 2 tasks of 2 policies, 2 roots, 2 operators, 3 epochs | `CorpusWithinCaps`, `DisclosuresAccounted`, `LinearLineage` |
| `RunService` | 1 run, 1 key, 2 processes, 2 handlers, queue of 1, leases of 2 ticks, fair | `TraceAgrees`, `AttemptLineage`, `DeliveredOnce`, `CheckpointsFenced`, `PermitsConserved`, `LifecycleSpec`, `Settles` |
| `L2Resume` | 2 claims, 2 attempts, 2 tool calls, 5 generations | `SendsAnnounced`, `RecoveryOnce`, `CheckpointValid`, `AnsweredIsComplete` |
| `L1Attempt` | 4 clauses, 4 plans, 4 tool calls | `EgressReported`, `CallsReported`, `AnsweredIsCited`, `SettledIsFinal` |
| `CorpusFreeze` | 1 collection, 1 writer of 2 threads, 2 freezers, 2 requests, 1 crash | `FrozenIsClosed`, `ServedIsFrozen`, `OneLineage`, `SnapshotBacked`, `ReportedStays`, `CloseReturns` |
| `Audit` | 1 item, 2 sittings, 2 decisions | `EvidenceBeforeEffect`, `SealIsEarned` |
| `ArchiveIntake` | 2 processes, 5 archives, 3 invocations, 1 kill | `VisibleIsWhole`, `AcceptedStays`, `RejectedIsKept` |
| `RunPolling` | 2 runs, 2 activations | `PollsWhileLive`, `ShownForward`, `RequestsEnd` |
| `L2Paths` | 2 claims, 2 attempts | violates `LegalPaths` |
| `AuditRetired` | 2 items, 1 reviewer | violates `CompleteRunSeals` |
| `RunFenced` | as `RunService`, fewer writes | violates `AuditsFenced` |

Two of these have named parts: `VisibleIsWhole` is `DestinationSafe` and
`RecordHasArchive`, `PollsWhileLive` is `QuietAfterEnd` and `PollingContinues`.
Every specification states a `TypeOK`; the inductive invariants of section 4 contain it.

Bounds. The caps of `EgressBudget` are chosen so that each kind of cap is met
within three reservations, and its requests share disclosures, so that unique
and transmitted totals differ. Two tasks are enough for a race, three
reservations for one more after it. The second policy of `EgressRebind` has a
tighter document cap, so that inherited totals exceed it; three epochs allow two
rebinds, by two operators. In `RunService` one key gives two attempts, which may be
alive in different processes, or one queued behind the other in a queue with one
slot; `MaxVersion` 3 lets both of them write. A lease of two ticks can be renewed
before it expires. `MaxVersion` and `MaxAudits` bound what an attempt writes. More
runs or keys are beyond TLC without symmetry, which liveness excludes; the safety
properties are proved for any number. Uuids, processes and handlers are symmetric
where no liveness is checked.

`L2Resume` has two claims, so that a batch can differ from an earlier one in size
and in members, and one claim can be done while another is not. Two attempts let
every stage be left and resumed. Five generations allow planning, compliance and
two verifications with one repetition, so the budget of eight in the code is met
and refused as well. Two tool calls let collection leave none, or one, for
recovery.

`L1Attempt` scales the limits of the code together: 6 tool calls to 4, 5 disclosed
items to 2, 32 citations to 3 and 20 checks to 2, so that each can be met and
exceeded. Its plans search and read, follow references, read more than one request
carries, and cost too much; two clauses share a text. `CorpusFreeze` starts with an
absent or a complete collection; two threads are needed for a close that waits, two
freezers for a lineage, two requests for an orphan and a live one, one crash for
each point at which a process may die. In `Audit` two sittings, one after the other
or at once, work on one item of one run, and a second decision may be a concurrent
or a superseding one. In
`ArchiveIntake` a third invocation comes after a race of two, and the policies
disagree about one archive's acceptance and about another's rejection code. Two
activations of `RunPolling` are a page before and after a change of its run; the run
of one key comes to its end, that of the other is interrupted and resumed.

Deadlock is checked for the run service and for freezing, where a process can always
start, die or be refused. It is not for the egress runs, where all reservations
used, the authorization lapsed and every task idle is a legitimate end, nor for
runs that end with a terminal status, a sealed audit, the last invocation or an
unmounted page.

Fairness. `FairSpec` of `RunService` assumes that time passes and that an attempt
which has started ends: provider, tool and store calls have timeouts and budgets.
Nothing is assumed of processes, handlers or queues: they may stop or die at any
point for ever. The heartbeat needs no assumption either, since `Settles` must hold
when it renews and when it does not. `CloseReturns` assumes that a thread inside a
lease goes on, that the Qdrant client's time-out fires, and that a closer that is
woken continues. `RequestsEnd` assumes that the browser runs due timers and pending
effects and that an aborted fetch settles; that a server answers is not assumed.

### Disagreements with the documentation

Three have a run:

* `L2Paths`. A claim that needs no semantic gate (proposed as insufficient), or
  fails without recovery, or still fails after it, is closed by a
  `semantic_verified` write that the stage table does not allow from
  `candidate_built` or `recovery_completed`; a second claim cannot reserve
  recovery from `semantic_verified`. The write raises, and the run ends by lease
  expiry. The design document says such a claim remains insufficient.
* `AuditRetired`. `seal_run` leaves a retired item out of the decisions it expects,
  but not out of the applications it compares them with. An item retired after its
  decision was applied makes the run unsealable, while the comment above says that
  it "cannot hold an audit of the gold set open".
* `RunFenced`. All processes share the lease owner `api-worker`. The worker of a
  first attempt does not notice that its lease expires; a second process starts,
  reconciles the run and resumes it; the first worker then appends an audit event,
  and the fence of `append` (`runs/postgres.py:267`), which compares the owner and
  the lease of the row, lets it through under the lease of the second attempt.
  `worker.py:746` says: "Fence every outward operation and audit write on the worker
  lease." Checkpoints are safe, because their fence is the version.

These follow from the models in the same way; TLC finds each when the quoted
sentence is stated as an invariant:

* An expired lease is shown as `interrupted`, computed on read; resume looks at
  the stored status and refuses with `run_already_leased` until a process start
  reconciles it (`checkpoints/postgres.py:286`). The README says the owner may
  resume after lease expiry.
* The handlers in `run_l2_attempt` use its own checkpoint variable, which is behind
  the stored version after `_one_claim` has written (`l2.py:600`). A provider error
  of the verifier raises again in its handler and does not become `failed`.
* L2 tool calls are charged by the evidence checkpoint (`l2.py:419`). An attempt that
  dies before it leaves no charge; the design document counts at most eight calls
  for the run.
* `parse_reply` accepts 32 citations and a `VerifierSummaryEvent` 20 checks
  (`runs/contracts.py:275`). A reply with more undisclosed citations raises while
  its event is built, and the run is left to its lease; `contracts/answer.py` says
  that a refusal is "a first-class verdict, not an error".
* `create_decision`, `supersede_decision` and `create_seal` check and then write
  without a lock (`pooling.py:384`, `:430`, `:548`). With the invariants of
  `Audit.cfg` replaced and `MaxAuthored = 0` TLC finds:
  - `AuditedOnce` violated in 30 states: both sessions of one run find no head for an
    item (`Compare`), both record a decision, and both amend and apply, so that one
    annotation has two successors. The check that both passed says "that item
    already owns a different decision" (`pooling.py:396`). The same race lets a
    decision land after the run is sealed (35 states), and two seals name different
    decisions when an item is retired between the openings of the sessions (38
    states).
  - `SupersededOnce` violated with `MaxOpens = 3`, `MaxDecisions = 3` and items that
    have clauses, in 41 states: two sessions find the same blocked head in `Swap` and
    both replace it. The docstring says "Compare-and-swap, not last-writer-wins ...
    a caller working from a stale view is refused" (`pooling.py:420`).

  What the audit promises in spite of it is `EvidenceBeforeEffect` and `SealIsEarned`:
  a seal speaks of the decisions it names, which were applied, not of all decisions
  that exist when it is read.
* Two deep reviews of one annotation leave two heads (`cli.py:1217`; `amend` does
  not look for a successor), after which `_annotation_heads` refuses every command.
* A process killed between the link and the unlink of a quarantined file leaves two
  links, and every later quarantine of that archive ends as `io_error`, as does one
  that meets another process between the two, or a code other than the recorded
  one. The plan calls the quarantine "idempotent for the same archive hash".
* `complete` leaves the attempt row open, so a key repeated after its attempt has
  completed is answered with `resume_checkpoint_invalid`, while the design document
  has a duplicate return the existing attempt.
* A reservation is listed only once its outcome is known (`Receive`), so the
  check of `begin_resume` for uncertain reservations never refuses; `SendsAnnounced`
  shows that the key of an open send is not reused.

What else the models made visible, without a sentence that it contradicts:

* An interrupt between the rename of an extracted directory and the next statement
  empties the destination, which then blocks every later extraction to it; a
  document that the OOXML inspection refuses stays at the destination as well; a
  member that cannot be decompressed raises an exception that reaches neither the
  quarantine nor an exit code.
* A crash between the link and the unlink of a corpus record makes every later scan
  of the directory fail, and so does, for a moment, another publication.
  `ManifestStore` takes no lock: a publication that fails may remove a record that
  another process has just confirmed.
* A pooling command that dies between the two writes of `supersede_decision` leaves
  two heads. An "extended" decision on an expected refusal is stored and can never
  be applied, and a head that changes after registration wedges its run.
* `collect` does not look at the lease between tool calls. `project_gate_error`
  raises for codes outside `_ADMISSION_CODES`, and the run is left to its lease.
  At shutdown the MCP client closes before the worker.
* The trace page does not poll a run that is resumed after it was shown as
  interrupted.

## 4. Proofs

The theorems hold for every value of the constants: any sets of runs, processes,
handlers, tasks, requests, claims, archives and collections, any caps and bounds.
What they assume of the constants are the named assumptions of the modules
(`EnforcerAssumption`, `StoreAssumption`, `L2Assumption` and so on): that budgets are
numbers, that tables have the keys they are read with, that a value which stands
for "none" is not one of the values, that two roles have different members. No
theorem rests on a bound of a run. TLC evaluates the assumptions in every run, and
checked every inductive invariant below on the run of its component before it was
proved.

Each component has a main inductive invariant and one lemma per action, or per group
of actions that differ in one choice; the theorems follow from it, some with a second
invariant on top.

**EgressProofs** (`IndInv`). None of the properties is inductive alone. That a key
sends once (`SentAtMostOnce`) rests on the uniqueness of keys among the
reservations of a root under one policy (`KeysUnique`); since a root is bound to
one epoch and an epoch to one policy (`BoundToEpochs`), the policy in that key
is the same for all reservations of a root. It also rests on the tasks: a task
past its reservation holds it alone (`OneHolder`), was granted it for its own
request, and has not sent while `granted` (`TasksHold`). That what was sent is
charged (`TransmittedIsCharged`) rests on `WireCommitted` (only committed
reservations reach the wire) and `Charged` (every committed reservation is in its
root, in the active epoch and in the document account), which rebinding preserves
because a successor inherits the accounts. `EpochsNeverFork`,
`RootsStayWithinCaps`, `CorpusStaysWithinCaps` and `CorpusTotalsAreExact` are
proved on top of `IndInv` and of what a transaction leaves alone: a charge checks
every scope it moves, and the totals it adds are the sizes of what was not listed
before. The corpus caps need the chain of epochs, because a successor may begin
above the caps of its policy and only what it inherited excuses that.
`TotalsAreExact` also needs what a root has spent. A sum over reservations would
need induction over them, so `TotalsExact` counts the tokens as pairs of a
reservation and a number, a union of disjoint sets: a new reservation adds one part
of known size, and every other step leaves the union alone (`TokensCounted`).
`UnrecordedSendsAreSealed` needs one more fact: no step reopens a reservation
that has an outcome or a run that has a seal.

**RunProofs** (`RunInv`). `StoreInv` relates the four tables of a run: the trace
ends with the row's status, attempts end in `lease_expired` except the last, whose
end the row determines, the checkpoint is of the last attempt, and a queued run
has no attempts. `Requests`, `Deliveries`, `Jobs` and `Capacity` are about the
processes. `NothingIsDeliveredTwice` needs them together: two handlers of one run
serve different attempts, an attempt that a handler is about to deliver was not
delivered, and no attempt is in two slots of the queues and workers.
`StaleAttemptsWriteNothing` needs that the stored checkpoint is always of the latest
attempt, and that a job which has not written its first one is of a run without
attempt rows; the fence on version and attempt then admits only the latest. It does
not use the lease owner, which all processes share.
`CapacityIsConserved` counts permits: a handler that delivers hands its permit to
the queue in the same step, and a crash forgets both.

`ServiceImplementsLifecycle` is the refinement. What is shown of a run is a function
of its row (`ShownAs`), the used keys one of its attempt rows (`KeysOf`); every
transaction rewrites one run, hence changes what is shown of one run, except
reconciliation and the passing of time, which may lapse several at once and are one
abstract `Lapse`. `StoreInv` is needed where the abstract step asks for more than
the transaction's own guard: that the run which a worker claims is shown as queued,
and that a resume key which the code finds in no attempt row was never used.

**L2Proofs** (`L2Inv`). The centre is that the checkpoint a running attempt holds is
the stored one, whatever attempts were lost before, and that each generation number
in it is below their count, so the next key is fresh. `Announced`, `Budgeted` and
`Placed` say for each await what the attempt may rely on: its key is written, its
tool calls and its recovery flag are not behind the checkpoint except between the
reservation and the use of recovery, and the claims to do and done are together
the batch that was counted. `AnswersAreComplete` follows from the last,
`RecoveryHappensOnce` from the second, `SendsAreAnnounced` from the first and
`Accounted` (all sends of all attempts are generations of the stored checkpoint).

**L1Proofs** (`L1Inv`). The invariant is about the trace as it will be once the
script is appended (`Whole`): while the attempt may still complete the run
(`Hopeful`), this trace reports each reservation but the one under way, once
(`Told`), a refusal of the policy only together with the outcome it causes
(`BlockedLast`), the evidence that was disclosed before the answer is checked, and
for an outcome "answered" a citation of it. An append moves the head of the script
to the trace and leaves `Whole` as it is; an attempt that raises or loses its lease
is no longer `Hopeful`. Nothing is assumed of what plans, tools and replies contain,
so `TypeOK` is not part of this invariant (the deduplication of evidence is a fold).
`CallsAreReported` rests on a second invariant (`Tallied`): while `collect` works,
its summaries account for the calls of the invocations it has finished, and a
retry that is pending was checked against the budget before; afterwards the trace
with the script accounts for all calls as long as the attempt may complete the run.
The calls are counted, like tokens above, as a union of disjoint sets.

**CorpusProofs** (`CorpusInv`). Leases are their flocks and a freeze has its own
alone (`Leases`), a call runs inside an operation of an issued lease
(`Operations`), names, inodes and bytes determine each other (`Directory`), and a
publication has until its link the absence that its freezer checked
(`Publications`). `Attested` counts the late changes that could fall between the
observations and the snapshot of a freeze; `SnapshotBacked` and `ServedIsFrozen`
hold because the second observation must agree with the first.

**IntakeProofs** (`IntakeInv`). An invocation that is about to rename owns its
private directory and has copied all of it; one that has renamed still finds its
own document there; and nobody has accepted a document while some invocation may
still empty the destination (`NotYetAccepted`). A publication reaches the record
only after it saw the whole archive with one link. The existence of a least faulty
member, on which the rejection code depends, is from well-founded induction.

**PollingProofs** (`PollingInv`). Only the last activation is live; a timer or a
queued refresh has a request to wait for; and a response that a live activation
waits for is not older than what the page keeps, since only one request of an
activation is under way. `PageNeverGoesBack` is an action property.

**AuditProofs** (`GoldInv`). Nothing a session has read need still be current when it
writes, so the invariant rests on what cannot become false: records are only added,
and a record determines what it refers to. `Evidence` says that a pooled amendment has
its judgement and a deep one its finding, `Applied` that an application is of a stored
judgement and of its stored amendment, `Certified` what a written seal certifies.
`Known` and `Seen` bound what a session remembers by what the stores hold, and
`SessionOK` says for each step of a session what it has established: a session that
amends has its decision stored, one that signs has found each item that was not
retired judged once and applied. `EvidenceIsKept` and `SealsAreEarned` follow, for any
number of reviewers, sittings and runs and with every check apart from its write. The
lemmas on an enumeration hold whatever its order; that it has a last record is from
well-founded induction (`LastPlace`).

Only model-checked:

* liveness: `Settles`, `CloseReturns` and `RequestsEnd`, out of the prover's reach;
* `TypeOK` of `L1Attempt`: that deduplication returns clauses needs induction over
  the fold;
* the three violations, which are false.

## 5. Not modelled

* The checks of the deterministic verifier and the replies of the compliance agent:
  L2Attempt chooses among their results.
* `compact` of the checkpoint store: no code calls it.
* Tokens, the MCP server's request checks, rank fusion, document parsers, text
  extraction and overlap statistics: pure functions of one input, most of them on
  characters or floating-point numbers, with no state to interleave.
* The assembly of the API process and its lifespan, HTTP wire formats, logging.
* `ManifestStore` as a component of its own: it publishes through the steps of
  `SecureRecords`.
* The annotation commands that only read (`progress` among them), proposals, and the statistics of a review.
* Database failures other than lost connections; two transactions that both
  hold the row locks cannot overlap, so no finer interleaving exists.

## 6. Plan

Every safety property that a passing run checks has a theorem. What remains is `TypeOK` of
`L1Attempt`, for which the deduplication would have to be written without a fold,
and the components of section 5.
