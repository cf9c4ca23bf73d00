---------------------- MODULE MCStripeCheckoutAttempt ----------------------
(* Small instances of StripeCheckoutAttempt for TLC. *)
EXTENDS StripeCheckoutAttempt, TLC

ModelSymmetry ==
  Permutations(Attempts) \cup Permutations(Sessions) \cup Permutations(Contents)
    \cup Permutations(Tabs) \cup Permutations(Workers)
=============================================================================
