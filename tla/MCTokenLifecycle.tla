-------------------------- MODULE MCTokenLifecycle --------------------------
(* Small instances of TokenLifecycle for TLC.                              *)
EXTENDS TokenLifecycle, TLC

\* Pool elements are interchangeable.
Symmetry ==
    Permutations(Sessions) \cup Permutations(Requests) \cup Permutations(Families)
      \cup Permutations(Refreshes) \cup Permutations(Accesses)
      \cup Permutations(Handlers) \cup Permutations(Sweepers)

=============================================================================
