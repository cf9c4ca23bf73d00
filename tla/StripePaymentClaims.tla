------------------------ MODULE StripePaymentClaims ------------------------
(***************************************************************************)
(* Lease-fenced processing of paid Stripe checkout sessions: webhook       *)
(* deliveries and cron passes (workers) race for the claim row of a        *)
(* payment, run the fulfilment of its cart outside any transaction, record *)
(* the money transaction and the two durable outputs, and complete the     *)
(* claim; they fail, are killed, or lose the lease at any point.           *)
(*                                                                         *)
(* withStripePaymentProcessingLock is the worker's frame; the callback is  *)
(* processCheckoutSession / processPaidCheckoutSession for a cart with one *)
(* item paid by card.  A pc names the next database transaction, so a pair *)
(* "revalidate the claim, then write" is two steps another worker, the     *)
(* clock, a crash or an operator can come between.                         *)
(***************************************************************************)
EXTENDS StripeClaimRow

CONSTANTS
  Payments,    \* Stripe session ids, one cart with one item each
  NoPayment,
  MaxReviews   \* bound on operator decisions per payment

ASSUME PaymentsAssumption ==
  /\ NoPayment \notin Payments
  /\ MaxReviews \in Nat

VARIABLES
  claims,    \* stripe_payment_processing_claims
  session,   \* payment status of the complete session, at Stripe
  plantings, \* payments whose item is a plant; the others buy an operation
  rewards,   \* sunflower reward events of the cart item's payment
  placed,    \* plants placed / operations created for the cart item
  cart,      \* "new", "item_paid" (item paid, cart not yet), "paid"
  txn,       \* the transactions row of the payment
  outputs,   \* both completion e-mails exist and are linked on the claim
  reviews,   \* rows of stripe_payment_processing_claim_reviews
  proc       \* the invocations

purchase == <<session, plantings>>
durable == <<rewards, placed, cart, txn, outputs>>
vars == <<claims, purchase, durable, reviews, proc>>

(* Steps of the callback that follow an assertOwned, in program order.     *)
GuardedSteps == {"check", "item", "place", "pay", "cart", "txn", "outputs", "final"}

CallbackSteps == {"retrieve"} \cup GuardedSteps

Errors == {"none", "retryable", "permanent", "deferred"}

ProcType ==
  [pc : {"idle", "failing"} \cup CallbackSteps, job : Payments \cup {NoPayment},
   owned : BOOLEAN, lost : BOOLEAN, error : Errors]

IdleProc == [pc |-> "idle", job |-> NoPayment, owned |-> FALSE, lost |-> FALSE, error |-> "none"]

Started(p) == [IdleProc EXCEPT !.pc = "retrieve", !.job = p]

Init ==
  /\ claims = [p \in Payments |-> NoRow]
  /\ session \in [Payments -> {"unpaid", "paid"}]
  /\ plantings \in SUBSET Payments
  /\ rewards = [p \in Payments |-> 0]
  /\ placed = [p \in Payments |-> 0]
  /\ cart = [p \in Payments |-> "new"]
  /\ txn = [p \in Payments |-> "none"]
  /\ outputs = [p \in Payments |-> FALSE]
  /\ reviews = [p \in Payments |-> 0]
  /\ proc = [w \in Workers |-> IdleProc]
-----------------------------------------------------------------------------
(* Where a worker goes next, and how it leaves the callback by an error.   *)
Goto(w, step) == proc' = [proc EXCEPT ![w].pc = step, ![w].owned = FALSE]

Throw(w, kind) ==
  proc' = [proc EXCEPT ![w].pc = "failing", ![w].owned = FALSE, ![w].error = kind]

ThrowClaimLost(w) ==
  proc' = [proc EXCEPT ![w].pc = "failing", ![w].owned = FALSE,
                       ![w].lost = TRUE, ![w].error = "retryable"]

(* w is about to run `step` for p and has revalidated its claim for it.    *)
At(w, p, step) == proc[w].pc = step /\ proc[w].job = p /\ proc[w].owned

OwnsNow(w, p, lag) == Owns(claims[p], w, lag)

(* assertOwned(db): the local flag first, then the row, in the open         *)
(* transaction, which keeps the row locked until it commits.               *)
Revalidated(w, p, lag) == ~proc[w].lost /\ OwnsNow(w, p, lag)

UpdateClaim(p, row) == claims' = [claims EXCEPT ![p] = row]
-----------------------------------------------------------------------------
(* A webhook delivery or a recovery pass acquires the claim.               *)
Acquire(w, p, lag) ==
  /\ proc[w].pc = "idle"
  /\ Available(claims[p], lag)
  /\ HasBudget(claims[p])
  /\ UpdateClaim(p, Claimed(claims[p], w, lag))
  /\ proc' = [proc EXCEPT ![w] = Started(p)]
  /\ UNCHANGED <<purchase, durable, reviews>>

(* The last attempt of the cycle died with its lease: acquire dead-letters *)
(* the row and the caller returns.                                         *)
AcquireExhausted(w, p, lag) ==
  /\ proc[w].pc = "idle"
  /\ Available(claims[p], lag)
  /\ ~HasBudget(claims[p])
  /\ UpdateClaim(p, Closed(claims[p], "manual_review"))
  /\ UNCHANGED <<purchase, durable, reviews, proc>>

(* assertOwned outside a transaction: renew the lease or leave the         *)
(* callback.  A heartbeat that found the claim lost makes it fail at once. *)
AssertOwned(w, lag) ==
  LET p == proc[w].job IN
  /\ proc[w].pc \in GuardedSteps
  /\ ~proc[w].owned
  /\ IF Revalidated(w, p, lag)
     THEN /\ UpdateClaim(p, Renewed(claims[p], lag))
          /\ proc' = [proc EXCEPT ![w].owned = TRUE]
     ELSE /\ ThrowClaimLost(w)
          /\ UNCHANGED claims
  /\ UNCHANGED <<purchase, durable, reviews>>

(* The interval timer renews the claim between any two steps, until the    *)
(* callback has returned.                                                  *)
Heartbeat(w, lag) ==
  LET p == proc[w].job IN
  /\ proc[w].pc \in CallbackSteps
  /\ ~At(w, p, "final")
  /\ ~proc[w].lost
  /\ IF OwnsNow(w, p, lag)
     THEN UpdateClaim(p, Renewed(claims[p], lag)) /\ UNCHANGED proc
     ELSE proc' = [proc EXCEPT ![w].lost = TRUE] /\ UNCHANGED claims
  /\ UNCHANGED <<purchase, durable, reviews>>

(* Stripe is asked for the session.                                        *)
Retrieve(w, p) ==
  /\ proc[w].pc = "retrieve" /\ proc[w].job = p
  /\ \/ session[p] = "paid" /\ Goto(w, "check")
     \/ session[p] = "unpaid" /\ Throw(w, "deferred")
  /\ UNCHANGED <<claims, purchase, durable, reviews>>

(* What an earlier attempt left: everything, the transaction, or nothing.  *)
Check(w, p) ==
  /\ At(w, p, "check")
  /\ \/ txn[p] = "completed" /\ outputs[p] /\ Goto(w, "final")
     \/ txn[p] = "completed" /\ ~outputs[p] /\ Goto(w, "outputs")
     \/ txn[p] # "completed" /\ Goto(w, "item")
  /\ UNCHANGED <<claims, purchase, durable, reviews>>

(* Mutant: a recorded reward is taken for a delivered item. *)
LockItemTrustingReward(w, p, lag) ==
  /\ At(w, p, "item")
  /\ Revalidated(w, p, lag)
  /\ UpdateClaim(p, Renewed(claims[p], lag))
  /\ rewards' = [rewards EXCEPT ![p] = 1]
  /\ Goto(w, IF rewards[p] = 0 THEN "place" ELSE "pay")
  /\ UNCHANGED <<purchase, placed, cart, txn, outputs, reviews>>

(* The transaction under the cart item's lock: assertOwned(db), the item   *)
(* read again, the reward recorded once per item.                          *)
LockItem(w, p, lag) ==
  /\ At(w, p, "item")
  /\ Revalidated(w, p, lag)
  /\ UpdateClaim(p, Renewed(claims[p], lag))
  /\ \/ /\ cart[p] = "new"
        /\ rewards' = [rewards EXCEPT ![p] = IF @ = 0 THEN 1 ELSE @]
        /\ Goto(w, "place")
     \/ /\ cart[p] # "new"
        /\ Goto(w, "cart")
        /\ UNCHANGED rewards
  /\ UNCHANGED <<purchase, placed, cart, txn, outputs, reviews>>

(* Mutant: the same purchase is not looked for before the plant is placed. *)
PlacePlantAgain(w, p, lag) ==
  /\ p \in plantings
  /\ At(w, p, "place")
  /\ Revalidated(w, p, lag)
  /\ UpdateClaim(p, Renewed(claims[p], lag))
  /\ placed' = [placed EXCEPT ![p] = @ + 1]
  /\ Goto(w, "pay")
  /\ UNCHANGED <<purchase, rewards, cart, txn, outputs, reviews>>

(* Placing a plant runs assertOwned(transaction) and looks for the same    *)
(* purchase in the transaction that creates it.                            *)
PlacePlant(w, p, lag) ==
  /\ p \in plantings
  /\ At(w, p, "place")
  /\ Revalidated(w, p, lag)
  /\ UpdateClaim(p, Renewed(claims[p], lag))
  /\ placed' = [placed EXCEPT ![p] = IF @ = 0 THEN 1 ELSE @]
  /\ Goto(w, "pay")
  /\ UNCHANGED <<purchase, rewards, cart, txn, outputs, reviews>>

(* An operation is created through its durable mapping, under the          *)
(* mapping's lock but without looking at the claim again.                  *)
CreateOperation(w, p) ==
  /\ p \notin plantings
  /\ At(w, p, "place")
  /\ placed' = [placed EXCEPT ![p] = IF @ = 0 THEN 1 ELSE @]
  /\ Goto(w, "pay")
  /\ UNCHANGED <<claims, purchase, rewards, cart, txn, outputs, reviews>>

SetCartItemPaid(w, p) ==
  /\ At(w, p, "pay")
  /\ cart' = [cart EXCEPT ![p] = IF @ = "new" THEN "item_paid" ELSE @]
  /\ Goto(w, "cart")
  /\ UNCHANGED <<claims, purchase, rewards, placed, txn, outputs, reviews>>

MarkCartPaid(w, p) ==
  /\ At(w, p, "cart")
  /\ cart' = [cart EXCEPT ![p] = IF @ = "new" THEN @ ELSE "paid"]
  /\ Goto(w, "txn")
  /\ UNCHANGED <<claims, purchase, rewards, placed, txn, outputs, reviews>>

(* The unique index on stripe_payment_id: an identical replay returns the  *)
(* row, a deleted row is an identity conflict.                             *)
CreateTransaction(w, p) ==
  /\ At(w, p, "txn")
  /\ \/ txn[p] # "deleted" /\ Goto(w, "outputs")
     \/ txn[p] = "deleted" /\ Throw(w, "permanent")
  /\ txn' = [txn EXCEPT ![p] = IF @ = "none" THEN "completed" ELSE @]
  /\ UNCHANGED <<claims, purchase, rewards, placed, cart, outputs, reviews>>

(* Both e-mail rows and their links on the claim, in one transaction that  *)
(* checks the claim token under the row lock.                              *)
EnsureOutputs(w, p, lag) ==
  /\ At(w, p, "outputs")
  /\ cart[p] = "paid"
  /\ OwnsNow(w, p, lag)
  /\ outputs' = [outputs EXCEPT ![p] = TRUE]
  /\ Goto(w, "final")
  /\ UNCHANGED <<claims, purchase, rewards, placed, cart, txn, reviews>>

(* completeStripePaymentProcessingClaim, after the last assertOwned.       *)
Complete(w, p, lag) ==
  /\ At(w, p, "final")
  /\ OwnsNow(w, p, lag)
  /\ IF txn[p] = "completed" /\ outputs[p]
     THEN /\ UpdateClaim(p, Closed(claims[p], "completed"))
          /\ proc' = [proc EXCEPT ![w] = IdleProc]
     ELSE /\ Throw(w, "retryable")
          /\ UNCHANGED claims
  /\ UNCHANGED <<purchase, durable, reviews>>

(* A transaction that checks the claim finds it lost.                      *)
FencedOut(w, p, lag) ==
  /\ \/ /\ At(w, p, "item") \/ (At(w, p, "place") /\ p \in plantings)
        /\ ~Revalidated(w, p, lag)
     \/ /\ At(w, p, "outputs") \/ At(w, p, "final")
        /\ ~OwnsNow(w, p, lag)
  /\ ThrowClaimLost(w)
  /\ UNCHANGED <<claims, purchase, durable, reviews>>

(* Any call of the callback may fail: a network or database error, or a    *)
(* validation that no retry can repair.                                    *)
FailStep(w, kind) ==
  /\ proc[w].pc \in CallbackSteps
  /\ kind \in {"retryable", "permanent"}
  /\ Throw(w, kind)
  /\ UNCHANGED <<claims, purchase, durable, reviews>>

(* recordStripePaymentProcessingFailure, in the catch of the frame.        *)
RecordFailure(w, lag) ==
  LET p == proc[w].job IN
  /\ proc[w].pc = "failing"
  /\ IF OwnsNow(w, p, lag)
     THEN UpdateClaim(p, Failed(claims[p], proc[w].error, lag))
     ELSE UNCHANGED claims
  /\ proc' = [proc EXCEPT ![w] = IdleProc]
  /\ UNCHANGED <<purchase, durable, reviews>>

(* The platform kills the invocation; nothing durable is undone.           *)
Crash(w) ==
  /\ proc[w].pc # "idle"
  /\ proc' = [proc EXCEPT ![w] = IdleProc]
  /\ UNCHANGED <<claims, purchase, durable, reviews>>
-----------------------------------------------------------------------------
(* Mutant: discovery overwrites the row it should leave alone. *)
EnqueueOverwriting(p) ==
  /\ claims[p].status # "queued"
  /\ UpdateClaim(p, QueuedRow)
  /\ UNCHANGED <<purchase, durable, reviews, proc>>

(* Discovery records a complete session before any worker has seen it.     *)
Enqueue(p) ==
  /\ claims[p].status = "none"
  /\ UpdateClaim(p, QueuedRow)
  /\ UNCHANGED <<purchase, durable, reviews, proc>>

(* The operator's review command: requeue, or resolve against evidence.    *)
Requeue(p, lag) ==
  /\ claims[p].status = "manual_review"
  /\ reviews[p] < MaxReviews
  /\ reviews' = [reviews EXCEPT ![p] = @ + 1]
  /\ UpdateClaim(p, Requeued(lag))
  /\ UNCHANGED <<purchase, durable, proc>>

Resolve(p) ==
  /\ claims[p].status = "manual_review"
  /\ txn[p] = "completed" /\ outputs[p]
  /\ reviews[p] < MaxReviews
  /\ reviews' = [reviews EXCEPT ![p] = @ + 1]
  /\ UpdateClaim(p, Closed(claims[p], "completed"))
  /\ UNCHANGED <<purchase, durable, proc>>

DeleteTransaction(p) ==
  /\ txn[p] = "completed"
  /\ txn' = [txn EXCEPT ![p] = "deleted"]
  /\ UNCHANGED <<claims, purchase, rewards, placed, cart, outputs, reviews, proc>>

(* A delayed payment method settles at Stripe.                             *)
Settle(p) ==
  /\ session[p] = "unpaid"
  /\ session' = [session EXCEPT ![p] = "paid"]
  /\ UNCHANGED <<claims, plantings, durable, reviews, proc>>

Tick ==
  /\ \E p \in Payments : claims[p].lease > Expired \/ claims[p].next > Expired
  /\ claims' = [p \in Payments |-> Ticked(claims[p])]
  /\ UNCHANGED <<purchase, durable, reviews, proc>>
-----------------------------------------------------------------------------
Write(w, p) ==
  \/ Retrieve(w, p) \/ Check(w, p) \/ CreateOperation(w, p)
  \/ SetCartItemPaid(w, p) \/ MarkCartPaid(w, p) \/ CreateTransaction(w, p)
  \/ \E lag \in Lags :
       \/ LockItem(w, p, lag) \/ PlacePlant(w, p, lag) \/ EnsureOutputs(w, p, lag)
       \/ Complete(w, p, lag) \/ FencedOut(w, p, lag)

(* One invocation moves on, by success or by error.                        *)
Work(w) ==
  \/ \E p \in Payments : Write(w, p)
  \/ \E lag \in Lags : AssertOwned(w, lag) \/ RecordFailure(w, lag)
  \/ \E kind \in Errors : FailStep(w, kind)

Claim(w, p) == \E lag \in Lags : Acquire(w, p, lag) \/ AcquireExhausted(w, p, lag)

Operator(p) == Resolve(p) \/ DeleteTransaction(p) \/ \E lag \in Lags : Requeue(p, lag)

Next ==
  \/ \E w \in Workers :
       \/ Work(w) \/ Crash(w)
       \/ \E p \in Payments : Claim(w, p)
       \/ \E lag \in Lags : Heartbeat(w, lag)
  \/ \E p \in Payments : Enqueue(p) \/ Operator(p) \/ Settle(p)
  \/ Tick

Spec == Init /\ [][Next]_vars

(* Fairness: time passes; an invocation moves on or is killed by the       *)
(* platform's time limit; the hourly cron takes every recorded claim that  *)
(* stays recoverable.                                                      *)
Fairness ==
  /\ WF_vars(Tick)
  /\ \A w \in Workers : WF_vars(Work(w) \/ Crash(w))
  /\ \A p \in Payments :
       WF_vars(claims[p].status # "none" /\ \E w \in Workers : Claim(w, p))

FairSpec == Spec /\ Fairness
-----------------------------------------------------------------------------
(* Type invariant.                                                         *)
TypeOK ==
  /\ claims \in [Payments -> RowType]
  /\ session \in [Payments -> {"unpaid", "paid"}]
  /\ plantings \subseteq Payments
  /\ rewards \in [Payments -> 0..1]
  /\ placed \in [Payments -> 0..1]
  /\ cart \in [Payments -> {"new", "item_paid", "paid"}]
  /\ txn \in [Payments -> {"none", "completed", "deleted"}]
  /\ outputs \in [Payments -> BOOLEAN]
  /\ reviews \in [Payments -> 0..MaxReviews]
  /\ proc \in [Workers -> ProcType]

(* An invocation that runs has a payment, and one that left its callback   *)
(* has an error to record.                                                 *)
JobOK ==
  \A w \in Workers :
    /\ proc[w].pc # "idle" => proc[w].job \in Payments
    /\ proc[w].pc = "failing" => proc[w].error # "none"

(* What is durable of a payment is a prefix of the order of its effects,   *)
(* and a completed claim has them all.                                     *)
EffectsInOrder ==
  \A p \in Payments :
    /\ placed[p] = 1 => rewards[p] = 1
    /\ cart[p] # "new" => placed[p] = 1
    /\ txn[p] # "none" => cart[p] = "paid"
    /\ outputs[p] => txn[p] # "none"
    /\ claims[p].status = "completed" => outputs[p]

(* A worker, even one that lost its claim, is never ahead of what is       *)
(* durable: the effect before the step it is at has happened.              *)
WorkerBehindEffects ==
  \A w \in Workers : LET p == proc[w].job IN
    /\ proc[w].pc = "place" => rewards[p] = 1
    /\ proc[w].pc = "pay" => placed[p] = 1
    /\ proc[w].pc = "cart" => cart[p] # "new"
    /\ proc[w].pc = "txn" => cart[p] = "paid"
    /\ proc[w].pc = "outputs" => txn[p] # "none"

(* The inductive invariant behind CompletedIsFulfilled.                    *)
FulfilmentInvariant == TypeOK /\ JobOK /\ EffectsInOrder /\ WorkerBehindEffects

(* A completed claim stands for a payment whose item was delivered once,   *)
(* rewarded once and paid in the cart, whose transaction was recorded and  *)
(* whose two outputs are linked, whoever did the work and however often    *)
(* the work was taken over (completeStripePaymentProcessingClaim and the   *)
(* order of processPaidCheckoutSession).                                   *)
CompletedIsFulfilled ==
  \A p \in Payments : claims[p].status = "completed" =>
    /\ rewards[p] = 1 /\ placed[p] = 1 /\ cart[p] = "paid"
    /\ txn[p] # "none" /\ outputs[p]

(* A claim leaves processing for completed or retryable only in a step of  *)
(* the worker whose token is on the row, so never of one that was          *)
(* replaced, and only by a reading of the clock under which the lease      *)
(* runs.  The reading may be MaxLag old, for it is made before the lock of *)
(* the row is waited for (completeStripePaymentProcessingClaim and         *)
(* recordStripePaymentProcessingFailure): the lease may have run out since.*)
EndedByOwner(p) ==
  (/\ claims[p].status = "processing"
   /\ claims'[p].status \in {"completed", "retryable"})
  => \E w \in Workers, lag \in Lags :
       /\ claims[p].token = w /\ ~Passed(claims[p].lease, lag)
       /\ proc[w].job = p /\ proc[w].pc \in {"final", "failing"}
       /\ proc'[w] = IdleProc

OnlyTheOwnerEnds == [][\A p \in Payments : EndedByOwner(p)]_vars

(* A completed claim never changes again, and a claim in manual review     *)
(* only by an operator's decision with its audit row, although workers,    *)
(* discovery and heartbeats of lost attempts still run.                    *)
HeldUntilReviewed(p) ==
  /\ claims[p].status = "completed" => claims'[p] = claims[p]
  /\ (claims[p].status = "manual_review" /\ claims'[p] # claims[p])
       => reviews'[p] = reviews[p] + 1

TerminalStatesHold == [][\A p \in Payments : HeldUntilReviewed(p)]_vars

(* Every recorded claim of a paid session ends, completed or in an         *)
(* operator's hands, through crashes, failures and lost leases.            *)
PaidIsSettled ==
  \A p \in Payments :
    (claims[p].status # "none" /\ session[p] = "paid")
      ~> claims[p].status \in {"completed", "manual_review"}
-----------------------------------------------------------------------------
(* The abstract promise: effects once each and in order (reward, delivery, *)
(* item paid, cart paid, transaction, outputs); the reward, the outputs    *)
(* and a plant only while the claim is not under review.                   *)
Once(b) == IF b THEN 1 ELSE 0

Abstract == INSTANCE PaidCheckout WITH
  Effects <- 6,
  sealed <- [p \in Payments |-> IF p \in plantings THEN {1, 2, 6} ELSE {1, 6}],
  count <- [p \in Payments |->
              <<rewards[p], placed[p], Once(cart[p] # "new"), Once(cart[p] = "paid"),
                Once(txn[p] # "none"), Once(outputs[p])>>],
  outcome <- [p \in Payments |->
                CASE claims[p].status = "completed" -> "completed"
                  [] claims[p].status = "manual_review" -> "review"
                  [] OTHER -> "open"]

ImplementsPaidCheckout == Abstract!Spec
=============================================================================
