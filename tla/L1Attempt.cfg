SPECIFICATION Spec
CONSTANTS
    Clause = {c1, c2, c3, c4}
    NoClause = NoClause
    Hash = {h1, h2, h3, x}
    c1 = c1
    c2 = c2
    c3 = c3
    c4 = c4
    h1 = h1
    h2 = h2
    h3 = h3
    x = x
    ContentHash <- MCContentHash
    Plan <- MCPlan
    Result <- MCResult
    ToolBudget = 4
    MaxCitations = 3
    MaxChecks = 2
    MaxDisclosed = 2
CHECK_DEADLOCK FALSE
INVARIANTS
    EgressReported
    CallsReported
    AnsweredIsCited
PROPERTIES
    SettledIsFinal
