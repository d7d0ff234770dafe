SPECIFICATION Spec
CONSTANTS
    Claim = {c1, c2}
    NoClaim = NoClaim
    MaxClaims = 2
    ToolBudget = 2
    GenerationBudget = 5
    MaxAttempts = 2
    NoRow = NoRow
SYMMETRY MCSymmetry
CHECK_DEADLOCK FALSE
INVARIANTS
    SendsAnnounced
    RecoveryOnce
    CheckpointValid
    AnsweredIsComplete
