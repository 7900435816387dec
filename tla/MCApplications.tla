--------------------------- MODULE MCApplications ---------------------------
(* Small instances of Applications for TLC.                                *)
EXTENDS Applications, TLC

Shape(grants, scopes) ==
    [public |-> FALSE, redirects |-> "code" \in grants, grants |-> grants,
     scopes |-> scopes, resources |-> TRUE]
Web == Shape({"code"}, {"openid"})
Desktop == [Shape({"device_code"}, {"openid"}) EXCEPT !.public = TRUE]
Caller == Shape({"token_exchange"}, {"api"})
Service == Shape({"client_credentials"}, {"api"})

Default == [Shape({}, {"openid"}) EXCEPT !.redirects = TRUE]

AllShapes == {Web, Desktop, Caller, Service, Default}
ServiceShapes == {Service}
Symmetry == Permutations(Reqs) \cup Permutations(Tokens) \cup Permutations(Urls)

=============================================================================
