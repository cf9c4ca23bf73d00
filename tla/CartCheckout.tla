---------------------------- MODULE CartCheckout ----------------------------
(***************************************************************************)
(* What the checkout of a cart promises: the customer is charged at most   *)
(* once, for the content the cart has at that moment; from the moment a    *)
(* charge is possible until it no longer is, or is settled, the content    *)
(* does not change; a checkout is given up only when it cannot be charged  *)
(* any more, and a charge is never given up, only settled.                 *)
(***************************************************************************)
CONSTANTS Payments, Contents

VARIABLES
  phase,    \* "shopping", "checkout", "charged", "settled" or "deleted"
  content,  \* what is in the cart
  charges   \* the payments taken, each with the content it was for

vars == <<phase, content, charges>>

Init ==
  /\ phase = "shopping"
  /\ content \in Contents
  /\ charges = {}

Edit ==
  /\ phase = "shopping"
  /\ content' \in Contents
  /\ UNCHANGED <<phase, charges>>

Delete ==
  /\ phase = "shopping"
  /\ phase' = "deleted"
  /\ UNCHANGED <<content, charges>>

Begin ==
  /\ phase = "shopping"
  /\ phase' = "checkout"
  /\ UNCHANGED <<content, charges>>

Abandon ==
  /\ phase = "checkout"
  /\ phase' = "shopping"
  /\ UNCHANGED <<content, charges>>

Charge ==
  /\ phase = "checkout"
  /\ phase' = "charged"
  /\ \E p \in Payments : charges' = {<<p, content>>}
  /\ UNCHANGED content

Settle ==
  /\ phase = "charged"
  /\ phase' = "settled"
  /\ UNCHANGED <<content, charges>>

Next == Edit \/ Delete \/ Begin \/ Abandon \/ Charge \/ Settle

Spec == Init /\ [][Next]_vars
=============================================================================
