-------------------------- MODULE MCOutboxDelivery --------------------------
(* Small instances of OutboxDelivery for TLC.                              *)
EXTENDS OutboxDelivery

=============================================================================
