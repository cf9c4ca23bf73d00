--------------------------- MODULE StripeClaimRow ---------------------------
(***************************************************************************)
(* One row of stripe_payment_processing_claims and the transitions the     *)
(* repository functions of transactionsRepo.ts make on it.  Every          *)
(* transition of the code runs under the row's lock (SELECT ... FOR UPDATE *)
(* or one conditional UPDATE), so each is one function from row to row.    *)
(*                                                                         *)
(* Deadlines are kept relative to the present: lease and next hold the     *)
(* time left until lease_expires_at and next_attempt_at, and a tick of the *)
(* clock lowers them.  The code compares them with a `now` the process     *)
(* read before it waited for the row lock, so a transition is given the    *)
(* age (lag) of that reading, at most MaxLag.                              *)
(*                                                                         *)
(* A claim token is a fresh UUID per acquisition.  A worker has at most    *)
(* one acquisition at a time and forgets its token when it ends, so the    *)
(* worker that acquired stands for the token: it differs from every token  *)
(* another live worker holds.                                              *)
(***************************************************************************)
EXTENDS Integers

CONSTANTS
  Workers,        \* concurrent invocations: webhook deliveries and cron runs
  NoToken,        \* the null claim_token
  LeaseDuration,  \* leaseDurationMs, in ticks
  RetryDelay,     \* retryDelayMs, in ticks
  MaxAttempts,    \* maxAttempts of one review cycle
  MaxLag          \* greatest age of a clock reading when it is compared

ASSUME RowAssumption ==
  /\ NoToken \notin Workers
  /\ LeaseDuration \in Nat \ {0}
  /\ RetryDelay \in Nat
  /\ MaxAttempts \in Nat \ {0}
  /\ MaxLag \in Nat

Lags == 0..MaxLag

(* A deadline this far in the past has passed for every reading of the     *)
(* clock; it also stands for the null of a column that is not in use.      *)
Expired == -MaxLag

Statuses == {"none", "queued", "processing", "retryable", "completed", "manual_review"}

(* attempt is attempt_count - attempt_count_at_last_requeue, the only use  *)
(* the code makes of the two columns.                                      *)
RowType ==
  [status : Statuses, attempt : 0..MaxAttempts, token : Workers \cup {NoToken},
   lease : Expired..LeaseDuration, next : Expired..RetryDelay]

NoRow == [status |-> "none", attempt |-> 0, token |-> NoToken,
          lease |-> Expired, next |-> Expired]

QueuedRow == [NoRow EXCEPT !.status = "queued"]

Passed(deadline, lag) == deadline <= -lag

(* What acquire finds free: no row yet, a queued row, an expired lease or  *)
(* a due retry.                                                            *)
Available(row, lag) ==
  \/ row.status \in {"none", "queued"}
  \/ row.status = "processing" /\ Passed(row.lease, lag)
  \/ row.status = "retryable" /\ Passed(row.next, lag)

(* Mutant: one attempt too many. *)
HasBudgetOffByOne(row) == row.attempt <= MaxAttempts

HasBudget(row) == row.attempt < MaxAttempts

(* Mutant: taking over an expired lease counts no attempt. *)
ClaimedUncounted(row, w, lag) ==
  [status |-> "processing",
   attempt |-> IF row.status = "processing" THEN row.attempt ELSE row.attempt + 1,
   token |-> w, lease |-> LeaseDuration - lag, next |-> Expired]

Claimed(row, w, lag) ==
  [status |-> "processing", attempt |-> row.attempt + 1, token |-> w,
   lease |-> LeaseDuration - lag, next |-> Expired]

Closed(row, status) ==
  [row EXCEPT !.status = status, !.token = NoToken, !.lease = Expired, !.next = Expired]

(* Mutant: the token is not compared. *)
OwnsAnyToken(row, w, lag) == row.status = "processing" /\ ~Passed(row.lease, lag)

(* The ownership guard of renew, complete, fail and ensure-outputs.        *)
Owns(row, w, lag) ==
  /\ row.status = "processing"
  /\ row.token = w
  /\ ~Passed(row.lease, lag)

Renewed(row, lag) ==
  [row EXCEPT !.lease = IF @ > LeaseDuration - lag THEN @ ELSE LeaseDuration - lag]

(* kind classifies the error: "retryable" counts against the attempts of   *)
(* the cycle, "permanent" ends it, "deferred" restarts the cycle.          *)
Failed(row, kind, lag) ==
  IF kind = "permanent" \/ (kind = "retryable" /\ ~HasBudget(row))
  THEN Closed(row, "manual_review")
  ELSE [status |-> "retryable",
        attempt |-> IF kind = "deferred" THEN 0 ELSE row.attempt,
        token |-> NoToken, lease |-> Expired, next |-> RetryDelay - lag]

Requeued(lag) == [NoRow EXCEPT !.status = "retryable", !.next = -lag]

Lower(deadline) == IF deadline > Expired THEN deadline - 1 ELSE deadline

Ticked(row) == [row EXCEPT !.lease = Lower(@), !.next = Lower(@)]
=============================================================================
