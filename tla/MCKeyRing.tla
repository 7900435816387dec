----------------------------- MODULE MCKeyRing -----------------------------
(* Small instances of KeyRing for TLC.                                     *)
EXTENDS KeyRing, TLC

Symmetry == Permutations(Servers) \cup Permutations(Rotators)

=============================================================================
