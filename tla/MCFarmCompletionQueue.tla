----------------------- MODULE MCFarmCompletionQueue -----------------------
(* Small instances of FarmCompletionQueue for TLC. *)
EXTENDS FarmCompletionQueue, TLC
=============================================================================
