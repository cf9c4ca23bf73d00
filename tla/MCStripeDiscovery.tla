------------------------- MODULE MCStripeDiscovery -------------------------
(* Small instances of StripeDiscovery for TLC. *)
EXTENDS StripeDiscovery, TLC

PassSymmetry == Permutations(Passes)
Synchronous == {0}
Drifting == {-1, 0, 1}
=============================================================================
