------------------------------- MODULE MCRun -------------------------------
(* Small instances of RunService. *)
EXTENDS RunService, TLC

\* Run ids, keys, processes and handlers are interchangeable.
MCSymmetry ==
    Permutations(Run) \cup Permutations(Key) \cup Permutations(Process)
        \cup Permutations(Handler)

=============================================================================
