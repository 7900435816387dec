--------------------------- MODULE MCRestoreFence ---------------------------
(* Small instances of RestoreFence for TLC.                                *)
EXTENDS RestoreFence, TLC

Symmetry == Permutations(Links)

\* A credential of each kind that behaves in its own way.
CredKind(c) == c

=============================================================================
