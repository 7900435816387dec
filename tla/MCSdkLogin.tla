----------------------------- MODULE MCSdkLogin -----------------------------
(* Small instances of SdkLogin for TLC.                                    *)
EXTENDS SdkLogin

=============================================================================
