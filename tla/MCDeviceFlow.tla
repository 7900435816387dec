---------------------------- MODULE MCDeviceFlow ----------------------------
(* Small instances of DeviceFlow for TLC.                                  *)
EXTENDS DeviceFlow, TLC

Symmetry == Permutations(Codes) \cup Permutations(Refs) \cup Permutations(Tokens)
              \cup Permutations(Installs) \cup Permutations(Reqs)

=============================================================================
