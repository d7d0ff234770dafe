------------------------------ MODULE MCIntake ------------------------------
EXTENDS ArchiveIntake

CONSTANTS p1, p2, good, path, lying, large, broken

Member(early, declared, late, actual) ==
    [early |-> early, declared |-> declared, late |-> late, actual |-> actual, ends |-> "eof"]

\* lying declares less than it holds, large is too large for p2's policy only,
\* broken cannot be decompressed.
MCContents ==
    (good :> [zip |-> TRUE, members |-> <<Member("none", 1, "none", 1)>>])
    @@ (path :> [zip |-> TRUE, members |-> <<Member("none", 1, "none", 1),
                                             Member("path_traversal", 0, "none", 0)>>])
    @@ (lying :> [zip |-> TRUE, members |-> <<Member("none", 1, "none", 3)>>])
    @@ (large :> [zip |-> TRUE, members |-> <<Member("none", 2, "none", 2)>>])
    @@ (broken :> [zip |-> TRUE, members |->
                    <<[Member("none", 1, "none", 1) EXCEPT !.ends = "raises"]>>])
MCPolicyOf ==
    (p1 :> [members |-> 2, member |-> 2, total |-> 2])
    @@ (p2 :> [members |-> 1, member |-> 2, total |-> 1])
=============================================================================
