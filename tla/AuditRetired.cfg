SPECIFICATION Spec
CONSTANTS
    Item = {i1, i2}
    Clause = {g, k}
    Candidate = {k}
    Drafted = {{}, {g}}
    NoAnnotation = NoAnnotation
    Stamp = {p1, p2}
    Reviewer = {r1}
    MaxRuns = 1
    MaxDecisions = 2
    MaxAuthored = 0
    MaxChain = 2
    MaxOpens = 2
INVARIANTS
    CompleteRunSeals
SYMMETRY Interchangeable
CHECK_DEADLOCK FALSE
