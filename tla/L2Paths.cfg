SPECIFICATION Spec
CONSTANTS
    Claim = {c1, c2}
    NoClaim = NoClaim
    MaxClaims = 2
    ToolBudget = 2
    GenerationBudget = 6
    MaxAttempts = 2
    NoRow = NoRow
SYMMETRY MCSymmetry
INVARIANT LegalPaths
CHECK_DEADLOCK FALSE
