--------------------------- MODULE MCCredentials ---------------------------
(* Small instances of Credentials for TLC.                                 *)
EXTENDS Credentials, TLC

Symmetry == Permutations(Sessions) \cup Permutations(Reqs) \cup Permutations(Creds)

=============================================================================
