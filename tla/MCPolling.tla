----------------------------- MODULE MCPolling -----------------------------
(* RunPolling for TLC. Two keys and two activations: a page that changes   *)
(* its run, or runs its effect again for the same one.                     *)
EXTENDS RunPolling, TLC

CONSTANTS k1, k2

\* The run of k1 comes to its end; that of k2 is interrupted and is resumed.
MCTerminal == (k1 :> {1}) @@ (k2 :> {0})
=============================================================================
