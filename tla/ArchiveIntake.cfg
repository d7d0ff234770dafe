SPECIFICATION Spec
CONSTANTS
    p1 = p1
    p2 = p2
    good = good
    path = path
    lying = lying
    large = large
    broken = broken
    Process = {p1, p2}
    Archive = {good, path, lying, large, broken}
    Contents <- MCContents
    PolicyOf <- MCPolicyOf
    CopyChunk = 1
    NoEntry = NoEntry
    MaxRuns = 3
    MaxKills = 1
CHECK_DEADLOCK FALSE
INVARIANTS
    VisibleIsWhole
    AcceptedStays
    RejectedIsKept
