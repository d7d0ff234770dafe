-------------------------------- MODULE MCL1 --------------------------------
EXTENDS L1Attempt

CONSTANTS c1, c2, c3, c4, h1, h2, h3, x

Find == [kind |-> "find", direct |-> <<>>, from |-> 0, take |-> 1]
Expand(from, take) == [kind |-> "expand", direct |-> <<>>, from |-> from, take |-> take]
Get(from, take) == [kind |-> "get", direct |-> <<>>, from |-> from, take |-> take]
GetDirect(ids) == [kind |-> "get", direct |-> ids, from |-> 0, take |-> 1]

MCPlan ==
    {<<Find, Get(1, 2)>>,                 \* search, then read what it found
     <<Find, Expand(1, 2), Get(2, 1)>>,   \* follow references
     <<GetDirect(<<c1, c2, c3>>)>>,       \* more evidence than one request carries
     <<Find, Get(1, 2), Get(1, 2)>>}      \* a plan that costs too much
MCResult == {<<>>, <<c1, c4>>, <<c3>>}
\* c1 and c4 are two clauses with the same text, x is the hash of no clause.
MCContentHash == (c1 :> h1) @@ (c2 :> h2) @@ (c3 :> h3) @@ (c4 :> h1)
=============================================================================
