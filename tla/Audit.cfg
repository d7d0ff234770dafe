SPECIFICATION Spec
CONSTANTS
    Item = {i1}
    Clause = {g, k}
    Candidate = {k}
    Drafted = {{}, {g}}
    NoAnnotation = NoAnnotation
    Stamp = {p1, p2}
    Reviewer = {r1, r2}
    MaxRuns = 1
    MaxDecisions = 2
    MaxAuthored = 1
    MaxChain = 2
    MaxOpens = 2
SYMMETRY Interchangeable
CHECK_DEADLOCK FALSE
INVARIANTS
    EvidenceBeforeEffect
    SealIsEarned
