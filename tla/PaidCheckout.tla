---------------------------- MODULE PaidCheckout ----------------------------
(***************************************************************************)
(* What the processing of paid Stripe sessions promises, whatever number   *)
(* of webhook deliveries, cron passes, crashes and operators take part:    *)
(* the durable effects of a payment happen once each and in one order, a   *)
(* payment is completed only after all of them, and a completed payment is *)
(* never touched again.                                                    *)
(***************************************************************************)
EXTENDS Naturals

CONSTANTS
  Payments,  \* Stripe session ids
  Effects    \* number of durable effects of one payment

VARIABLES
  count,     \* count[p][i]: how often effect i of payment p has happened
  outcome,   \* "open", "review" or "completed"
  sealed     \* sealed[p]: the effects that need the payment to be open

vars == <<count, outcome, sealed>>

Init ==
  /\ count = [p \in Payments |-> [i \in 1..Effects |-> 0]]
  /\ outcome = [p \in Payments |-> "open"]
  /\ sealed \in [Payments -> SUBSET (1..Effects)]

(* The next effect in the order.  A late worker may still produce one      *)
(* while an operator reviews the payment, except for the sealed ones.      *)
Advance(p) ==
  /\ \E i \in 1..Effects :
       /\ count[p][i] = 0
       /\ \A j \in 1..(i - 1) : count[p][j] = 1
       /\ i \in sealed[p] => outcome[p] = "open"
       /\ count' = [count EXCEPT ![p][i] = 1]
  /\ UNCHANGED <<outcome, sealed>>

Complete(p) ==
  /\ outcome[p] # "completed"
  /\ \A i \in 1..Effects : count[p][i] = 1
  /\ outcome' = [outcome EXCEPT ![p] = "completed"]
  /\ UNCHANGED <<count, sealed>>

SendToReview(p) ==
  /\ outcome[p] = "open"
  /\ outcome' = [outcome EXCEPT ![p] = "review"]
  /\ UNCHANGED <<count, sealed>>

Reopen(p) ==
  /\ outcome[p] = "review"
  /\ outcome' = [outcome EXCEPT ![p] = "open"]
  /\ UNCHANGED <<count, sealed>>

Next == \E p \in Payments : Advance(p) \/ Complete(p) \/ SendToReview(p) \/ Reopen(p)

Spec == Init /\ [][Next]_vars
=============================================================================
