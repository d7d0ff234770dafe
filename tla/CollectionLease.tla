-------------------------- MODULE CollectionLease --------------------------
(***************************************************************************)
(* The collection leases of CorpusManifestStore (manifests/corpus_store.py)*)
(* A lease is an flock on a file per collection: shared for a writer,      *)
(* exclusive for a freezer. A write lease is one object that the threads   *)
(* of its process share; every mutation runs inside an operation of the    *)
(* lease, close waits until no operation is active, and only then is the   *)
(* flock released. The kernel releases the flocks of a process that dies.  *)
(***************************************************************************)
EXTENDS Naturals

CONSTANTS
    Collection, NoCollection,
    Writer,         \* processes that take write leases
    Thread,         \* the threads of each of them
    Freezer         \* processes that take freeze leases

\* A lease belongs to one descriptor, which is a writer's or a freezer's.
ASSUME LeaseAssumption == Writer \cap Freezer = {} /\ NoCollection \notin Collection

VARIABLES
    flock,          \* the processes that hold the flock of each collection
    lease,          \* the write lease of each writer
    depth           \* _LeaseState.holders: operations each thread is inside

leaseVars == <<flock, lease, depth>>

WriteLease == [coll : Collection \cup {NoCollection},
               phase : {"none", "checking", "open", "closing"}]

NoLease == [coll |-> NoCollection, phase |-> "none"]

LeaseInit ==
    /\ flock = [c \in Collection |-> {}]
    /\ lease = [w \in Writer |-> NoLease]
    /\ depth = [w \in Writer |-> [t \in Thread |-> 0]]

LeaseTypeOK ==
    /\ flock \in [Collection -> SUBSET (Writer \cup Freezer)]
    /\ lease \in [Writer -> WriteLease]
    /\ depth \in [Writer -> [Thread -> 0..2]]
-----------------------------------------------------------------------------
\* Mutant: a shared lock is granted beside an exclusive one.
LockSharedAlways(w, c) == flock' = [flock EXCEPT ![c] = @ \cup {w}]

\* fcntl.flock with LOCK_SH and with LOCK_EX; both block until they can be
\* granted.
LockShared(w, c) ==
    /\ flock[c] \cap Freezer = {}
    /\ flock' = [flock EXCEPT ![c] = @ \cup {w}]

\* Mutant: a freeze lease is exclusive of writers only.
LockExclusiveOfWriters(f, c) ==
    /\ flock[c] \cap Writer = {}
    /\ flock' = [flock EXCEPT ![c] = @ \cup {f}]

LockExclusive(f, c) ==
    /\ flock[c] = {}
    /\ flock' = [flock EXCEPT ![c] = {f}]

Unlock(p, c) == flock' = [flock EXCEPT ![c] = @ \ {p}]
-----------------------------------------------------------------------------
\* _acquire for a writer. The lease exists from here on, but it is handed to
\* the caller only after acquire_write_lease has read the manifests.
AcquireWriteLease(w, c) ==
    /\ lease[w].phase = "none"
    /\ LockShared(w, c)
    /\ lease' = [lease EXCEPT ![w] = [coll |-> c, phase |-> "checking"]]
    /\ UNCHANGED depth

IssueWriteLease(w) ==
    /\ lease' = [lease EXCEPT ![w].phase = "open"]
    /\ UNCHANGED <<flock, depth>>

ReleaseWriteLease(w) ==
    /\ Unlock(w, lease[w].coll)
    /\ lease' = [lease EXCEPT ![w] = NoLease]

\* Mutant: a closing lease admits new operations.
MayEnterClosing(w, t) == lease[w].phase \in {"open", "closing"}

\* _validate_active_locked and the entry of _operation_scope: a closing lease
\* admits only a thread that is inside an operation already.
MayEnter(w, t) ==
    \/ lease[w].phase = "open"
    \/ lease[w].phase = "closing" /\ depth[w][t] > 0

EnterOperation(w, t) ==
    /\ MayEnter(w, t)
    /\ depth' = [depth EXCEPT ![w][t] = @ + 1]
    /\ UNCHANGED <<flock, lease>>

\* The finally clauses of all the operations the thread is inside.
LeaveOperation(w, t) ==
    /\ depth' = [depth EXCEPT ![w][t] = 0]
    /\ UNCHANGED <<flock, lease>>

\* close() refuses a thread inside an operation; the first closer publishes
\* closing, and a later one waits for it.
BeginClose(w, t) ==
    /\ lease[w].phase = "open"
    /\ depth[w][t] = 0
    /\ lease' = [lease EXCEPT ![w].phase = "closing"]
    /\ UNCHANGED <<flock, depth>>

\* No operation is active.
Drained(w) == \A t \in Thread : depth[w][t] = 0

\* The wait for active_operations, then the flock is released and every
\* closer returns.
FinishClose(w) ==
    /\ lease[w].phase = "closing"
    /\ Drained(w)
    /\ ReleaseWriteLease(w)
    /\ UNCHANGED depth

\* The death of a process, with the kernel's release of its flocks.
LeaseDies(w) ==
    /\ lease[w].phase # "none"
    /\ ReleaseWriteLease(w)
    /\ depth' = [depth EXCEPT ![w] = [t \in Thread |-> 0]]
=============================================================================
