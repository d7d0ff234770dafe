SPECIFICATION FairSpec
CONSTANTS
    k1 = k1
    k2 = k2
    Key = {k1, k2}
    NoKey = NoKey
    MaxVersion = 1
    Terminal <- MCTerminal
    MaxActivations = 2
CHECK_DEADLOCK FALSE
INVARIANTS
    PollsWhileLive
PROPERTIES
    ShownForward
    RequestsEnd
