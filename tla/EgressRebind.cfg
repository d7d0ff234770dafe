SPECIFICATION Spec
CHECK_DEADLOCK FALSE
SYMMETRY MCSymmetry
CONSTANTS
    Disclosure = {"d1", "d2"}
    Size <- MCSize
    Document = {"doc"}
    Policy = {"p1", "p2"}
    Caps <- MCCaps
    Root = {"r1", "r2"}
    Run = {"i1"}
    Claim = {"c1", "c2"}
    NoClaim = NoClaim
    Key = {"k1", "k2"}
    Request <- RebindRequests
    Epoch = {e1, e2, e3}
    NoEpoch = NoEpoch
    Reservation = {v1, v2}
    NoRow = NoRow
    Task = {t1, t2}
    Late = {t2}
    PolicyOf <- MCPolicyOf
    Operator = {o1, o2}
    NoReservation = NoReservation
    NoRequest = NoRequest
    NoPolicy = NoPolicy
INVARIANTS
    CorpusWithinCaps
    DisclosuresAccounted
    LinearLineage
