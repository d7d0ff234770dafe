SPECIFICATION FairSpec
CONSTANTS
    Run = {r1}
    Key = {k1}
    NoKey = NoKey
    NoRow = NoRow
    LeaseTicks = 2
    Outcome = {"answered"}
    Process = {p1, p2}
    Handler = {h1, h2}
    QueueCapacity = 1
    MaxVersion = 3
    MaxAudits = 1
    NoJob = NoJob
    NoProcess = NoProcess
    NoRun = NoRun
INVARIANTS
    TraceAgrees
    AttemptLineage
    DeliveredOnce
    CheckpointsFenced
    PermitsConserved
PROPERTIES
    LifecycleSpec
    Settles
