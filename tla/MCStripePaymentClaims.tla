----------------------- MODULE MCStripePaymentClaims -----------------------
(***************************************************************************)
(* StripePaymentClaims on one payment, for TLC.  Payments do not interact  *)
(* (every row, lock and index entry belongs to one stripe_payment_id), so  *)
(* one payment with several workers shows every race.                      *)
(***************************************************************************)
EXTENDS StripePaymentClaims
=============================================================================
