-------------------------------- MODULE MCL2 --------------------------------
(* Small instances of L2Attempt. *)
EXTENDS L2Attempt, TLC

\* Claim ids are interchangeable.
MCSymmetry == Permutations(Claim)

=============================================================================
