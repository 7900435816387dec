--------------------------- MODULE MCAccountLinks ---------------------------
(* Small instances of AccountLinks for TLC.                                *)
EXTENDS AccountLinks

=============================================================================
