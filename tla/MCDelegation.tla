---------------------------- MODULE MCDelegation ----------------------------
(* Small instances of Delegation for TLC.                                  *)
EXTENDS Delegation, TLC

CONSTANTS news, research

Perm(target, resource, scope) ==
    [caller |-> news, target |-> target, resource |-> resource, scope |-> scope]
\* Two scopes of one resource.
TwoScopes == {Perm(research, "research", "read"), Perm(research, "research", "list")}

Symmetry == Permutations(Tokens) \cup Permutations(Reqs) \cup Permutations(Cuts)

=============================================================================
