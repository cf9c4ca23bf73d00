--------------------------- MODULE MCOutletOffers ---------------------------
(* Small instances of OutletOffers for TLC. *)
EXTENDS OutletOffers, TLC

CONSTANTS o1, o2

\* One seedling of the first offer, two of the second.
FewSeedlings == [o \in Offers |-> IF o = o1 THEN 1 ELSE 2]
Ends == [o \in Offers |-> IF o = o1 THEN 3 ELSE 1]
=============================================================================
