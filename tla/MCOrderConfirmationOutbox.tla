--------------------- MODULE MCOrderConfirmationOutbox ---------------------
(* Small instances of OrderConfirmationOutbox for TLC. *)
EXTENDS OrderConfirmationOutbox, TLC

=============================================================================
