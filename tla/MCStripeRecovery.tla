------------------------- MODULE MCStripeRecovery -------------------------
(* Small instances of StripeRecovery for TLC. *)
EXTENDS StripeRecovery, TLC

=============================================================================
