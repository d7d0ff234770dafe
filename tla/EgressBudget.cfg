SPECIFICATION Spec
CHECK_DEADLOCK FALSE
SYMMETRY MCSymmetry
CONSTANTS
    Disclosure = {"d1", "d2"}
    Size <- MCSize
    Document = {"doc"}
    Policy = {"p1"}
    Caps <- MCCaps
    Root = {"r1"}
    Run = {"i1", "i2"}
    Claim = {"c1", "c2"}
    NoClaim = NoClaim
    Key = {"k1", "k2", "k3"}
    Request <- BudgetRequests
    Epoch = {e1}
    NoEpoch = NoEpoch
    Reservation = {v1, v2, v3}
    NoRow = NoRow
    Task = {t1, t2}
    Late = {}
    PolicyOf <- MCPolicyOf
    Operator = {}
    NoReservation = NoReservation
    NoRequest = NoRequest
    NoPolicy = NoPolicy
INVARIANTS
    TypeOK
    RootsWithinCaps
    AtMostOneTransmission
    TotalsExact
    UnrecordedIsSealed
