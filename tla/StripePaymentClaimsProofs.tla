---------------------- MODULE StripePaymentClaimsProofs ----------------------
(***************************************************************************)
(* Theorems about StripePaymentClaims for every set of workers and         *)
(* payments and every lease, delay, attempt limit and clock lag: types,    *)
(* completion after fulfilment, the fence that ends a claim, claims that   *)
(* stay closed, and the refinement of PaidCheckout.                        *)
(***************************************************************************)
EXTENDS StripePaymentClaims, TLAPS

(***************************************************************************)
(* The row transitions keep a row a row.                                   *)
(***************************************************************************)

(* The deadlines the transitions write are in the range of the columns. *)
LEMMA Deadlines ==
  /\ Expired \in Expired..LeaseDuration
  /\ Expired \in Expired..RetryDelay
  /\ \A lag \in Lags :
       /\ LeaseDuration - lag \in Expired..LeaseDuration
       /\ RetryDelay - lag \in Expired..RetryDelay
       /\ -lag \in Expired..RetryDelay
  BY RowAssumption DEF RowAssumption, Expired, Lags

(* Acquiring a row with budget left gives a row. *)
LEMMA ClaimedType ==
  ASSUME NEW row \in RowType, NEW w \in Workers, NEW lag \in Lags, HasBudget(row)
  PROVE  Claimed(row, w, lag) \in RowType
<1>1. row.attempt + 1 \in 0..MaxAttempts
  BY RowAssumption DEF RowAssumption, RowType, HasBudget
<1>2. QED
  BY <1>1, Deadlines DEF RowType, Claimed, Statuses

(* Closing a row gives a row. *)
LEMMA ClosedType ==
  ASSUME NEW row \in RowType, NEW status \in Statuses
  PROVE  /\ Closed(row, status) \in RowType
         /\ Closed(row, status).status = status
  BY Deadlines DEF RowType, Closed

(* Renewing a lease gives a row with the same status, token and attempts. *)
LEMMA RenewedType ==
  ASSUME NEW row \in RowType, NEW lag \in Lags
  PROVE  /\ Renewed(row, lag) \in RowType
         /\ Renewed(row, lag).status = row.status
         /\ Renewed(row, lag).token = row.token
         /\ Renewed(row, lag).attempt = row.attempt
  BY Deadlines DEF RowType, Renewed

(* A recorded failure gives a row that is retryable or under review. *)
LEMMA FailedType ==
  ASSUME NEW row \in RowType, NEW kind \in Errors, NEW lag \in Lags
  PROVE  /\ Failed(row, kind, lag) \in RowType
         /\ Failed(row, kind, lag).status \in {"retryable", "manual_review"}
<1>1. CASE kind = "permanent" \/ (kind = "retryable" /\ ~HasBudget(row))
  BY <1>1, ClosedType DEF Failed, Statuses
<1>2. CASE ~(kind = "permanent" \/ (kind = "retryable" /\ ~HasBudget(row)))
  <2>1. (IF kind = "deferred" THEN 0 ELSE row.attempt) \in 0..MaxAttempts
    BY RowAssumption DEF RowAssumption, RowType
  <2>2. QED
    BY <1>2, <2>1, Deadlines DEF Failed, RowType, Statuses
<1>3. QED
  BY <1>1, <1>2

(* The rows Init, discovery and the operator write are rows. *)
LEMMA FreshRowType ==
  /\ NoRow \in RowType
  /\ QueuedRow \in RowType
  /\ \A lag \in Lags : Requeued(lag) \in RowType
<1>1. 0 \in 0..MaxAttempts
  BY RowAssumption DEF RowAssumption
<1>2. NoRow \in RowType
  BY <1>1, Deadlines DEF RowType, NoRow, Statuses
<1>3. QueuedRow \in RowType
  BY <1>1, Deadlines DEF RowType, QueuedRow, NoRow, Statuses
<1>4. ASSUME NEW lag \in Lags PROVE Requeued(lag) \in RowType
  BY <1>1, Deadlines DEF RowType, Requeued, NoRow, Statuses
<1>5. QED
  BY <1>2, <1>3, <1>4

(* A tick of the clock changes no more than the two deadlines. *)
LEMMA TickedType ==
  ASSUME NEW row \in RowType
  PROVE  /\ Ticked(row) \in RowType
         /\ Ticked(row).status = row.status
         /\ Ticked(row).token = row.token
         /\ Ticked(row).attempt = row.attempt
<1>1. \A top \in Nat : \A d \in Expired..top : Lower(d) \in Expired..top
  BY RowAssumption DEF RowAssumption, Expired, Lower
<1>2. Lower(row.lease) \in Expired..LeaseDuration
  BY <1>1, RowAssumption DEF RowAssumption, RowType
<1>3. Lower(row.next) \in Expired..RetryDelay
  BY <1>1, RowAssumption DEF RowAssumption, RowType
<1>4. QED
  BY <1>2, <1>3 DEF RowType, Ticked

(***************************************************************************)
(* Type correctness.                                                       *)
(***************************************************************************)
TypeInvariant == TypeOK /\ JobOK

(* Starting and ending an invocation keeps the type invariant of proc. *)
LEMMA StartStopType ==
  ASSUME TypeInvariant, NEW w \in Workers, NEW p \in Payments,
         proc' = [proc EXCEPT ![w] = Started(p)] \/ proc' = [proc EXCEPT ![w] = IdleProc]
  PROVE  proc' \in [Workers -> ProcType] /\ JobOK'
<1>1. IdleProc \in ProcType /\ Started(p) \in ProcType
  BY DEF ProcType, IdleProc, Started, Errors, CallbackSteps
<1>2. /\ IdleProc.pc = "idle"
      /\ Started(p).pc = "retrieve" /\ Started(p).job = p
  BY DEF IdleProc, Started
<1>3. QED
  BY <1>1, <1>2 DEF TypeInvariant, TypeOK, JobOK

(* Leaving the callback by an error keeps it. *)
LEMMA ThrowType ==
  ASSUME TypeInvariant, NEW w \in Workers, proc[w].pc # "idle",
         NEW kind \in Errors, kind # "none", Throw(w, kind) \/ ThrowClaimLost(w)
  PROVE  proc' \in [Workers -> ProcType] /\ JobOK'
  BY DEF TypeInvariant, TypeOK, JobOK, ProcType, Throw, ThrowClaimLost, Errors, CallbackSteps, GuardedSteps

(* Going on to another step of the callback keeps it too. *)
LEMMA GotoType ==
  ASSUME TypeInvariant, NEW w \in Workers, proc[w].pc # "idle",
         NEW step \in CallbackSteps, Goto(w, step)
  PROVE  proc' \in [Workers -> ProcType] /\ JobOK'
<1>1. proc[w] \in ProcType /\ proc[w].job \in Payments
  BY DEF TypeInvariant, TypeOK, JobOK
<1>2. [proc[w] EXCEPT !.pc = step, !.owned = FALSE] \in ProcType
  BY <1>1 DEF ProcType
<1>3. proc' = [proc EXCEPT ![w] = [proc[w] EXCEPT !.pc = step, !.owned = FALSE]]
  BY DEF Goto, TypeInvariant, TypeOK
<1>4. step # "failing" /\ step # "idle"
  BY DEF CallbackSteps, GuardedSteps
<1>5. QED
  BY <1>1, <1>2, <1>3, <1>4 DEF TypeInvariant, TypeOK, JobOK

(* A revalidation or a heartbeat sets one flag of proc. *)
LEMMA FlagType ==
  ASSUME TypeInvariant, NEW w \in Workers,
         \/ proc' = [proc EXCEPT ![w].owned = TRUE]
         \/ proc' = [proc EXCEPT ![w].lost = TRUE]
  PROVE  proc' \in [Workers -> ProcType] /\ JobOK'
<1>1. proc[w] \in ProcType
  BY DEF TypeInvariant, TypeOK
<1>2. PICK flagged \in ProcType :
         /\ proc' = [proc EXCEPT ![w] = flagged]
         /\ flagged.pc = proc[w].pc
         /\ flagged.job = proc[w].job
         /\ flagged.error = proc[w].error
  <2>1. CASE proc' = [proc EXCEPT ![w].owned = TRUE]
    <3>1. [proc[w] EXCEPT !.owned = TRUE] \in ProcType
      BY <1>1 DEF ProcType
    <3>2. QED
      BY <1>1, <2>1, <3>1 DEF ProcType, TypeInvariant, TypeOK
  <2>2. CASE proc' = [proc EXCEPT ![w].lost = TRUE]
    <3>1. [proc[w] EXCEPT !.lost = TRUE] \in ProcType
      BY <1>1 DEF ProcType
    <3>2. QED
      BY <1>1, <2>2, <3>1 DEF ProcType, TypeInvariant, TypeOK
  <2>3. QED
    BY <2>1, <2>2
<1>3. QED
  BY <1>2 DEF TypeInvariant, TypeOK, JobOK

(* Writing a row to one payment's claim keeps claims well typed. *)
LEMMA UpdateClaimType ==
  ASSUME TypeInvariant, NEW p \in Payments, NEW row \in RowType, UpdateClaim(p, row)
  PROVE  claims' \in [Payments -> RowType]
  BY DEF TypeInvariant, TypeOK, UpdateClaim

(* The initial state is well typed. *)
LEMMA InitType == Init => TypeInvariant
<1>1. IdleProc \in ProcType /\ IdleProc.pc = "idle"
  BY DEF IdleProc, ProcType, Errors
<1>2. QED
  BY <1>1, FreshRowType, PaymentsAssumption
     DEF PaymentsAssumption, Init, TypeInvariant, TypeOK, JobOK

(* Every step keeps the types, one case per action. *)
LEMMA NextType == TypeInvariant /\ [Next]_vars => TypeInvariant'
<1> SUFFICES ASSUME TypeInvariant, [Next]_vars PROVE TypeInvariant'
  OBVIOUS
<1> USE DEF TypeInvariant
<1>1. ASSUME NEW w \in Workers, NEW p \in Payments, NEW lag \in Lags, Acquire(w, p, lag)
      PROVE  TypeInvariant'
  <2>1. claims[p] \in RowType
    BY DEF TypeOK
  <2>2. claims' \in [Payments -> RowType]
    BY <1>1, <2>1, ClaimedType, UpdateClaimType DEF Acquire
  <2>3. proc' \in [Workers -> ProcType] /\ JobOK'
    BY <1>1, StartStopType DEF Acquire
  <2>4. QED
    BY <1>1, <2>2, <2>3 DEF Acquire, TypeOK, durable, purchase
<1>2. ASSUME NEW w \in Workers, NEW p \in Payments, NEW lag \in Lags, AcquireExhausted(w, p, lag)
      PROVE  TypeInvariant'
  <2>1. claims' \in [Payments -> RowType]
    BY <1>2, ClosedType, UpdateClaimType DEF AcquireExhausted, TypeOK, Statuses
  <2>2. QED
    BY <1>2, <2>1 DEF AcquireExhausted, TypeOK, JobOK, durable, purchase
<1>3. ASSUME NEW w \in Workers, NEW lag \in Lags, AssertOwned(w, lag) \/ Heartbeat(w, lag)
      PROVE  TypeInvariant'
  <2>1. proc[w].pc # "idle" /\ proc[w].job \in Payments
    BY <1>3 DEF AssertOwned, Heartbeat, CallbackSteps, GuardedSteps, JobOK
  <2>2. claims' \in [Payments -> RowType]
    BY <1>3, <2>1, RenewedType, UpdateClaimType DEF AssertOwned, Heartbeat, TypeOK
  <2>3. "retryable" \in Errors
    BY DEF Errors
  <2>4. proc' \in [Workers -> ProcType] /\ JobOK'
    BY <1>3, <2>1, <2>3, FlagType, ThrowType DEF AssertOwned, Heartbeat, TypeOK, JobOK
  <2>5. QED
    BY <1>3, <2>2, <2>4 DEF AssertOwned, Heartbeat, TypeOK, durable, purchase
<1>4. ASSUME NEW w \in Workers, NEW p \in Payments, Retrieve(w, p) \/ Check(w, p)
      PROVE  TypeInvariant'
  <2>1. proc' \in [Workers -> ProcType] /\ JobOK'
    <3>1. proc[w].pc # "idle" /\ "deferred" \in Errors
          /\ {"check", "final", "outputs", "item"} \subseteq CallbackSteps
      BY <1>4 DEF Retrieve, Check, At, Errors, CallbackSteps, GuardedSteps
    <3>2. QED
      BY <1>4, <3>1, GotoType, ThrowType DEF Retrieve, Check
  <2>2. QED
    BY <1>4, <2>1 DEF Retrieve, Check, TypeOK, durable, purchase
<1>5. ASSUME NEW w \in Workers, NEW p \in Payments, NEW lag \in Lags,
             LockItem(w, p, lag) \/ PlacePlant(w, p, lag)
      PROVE  TypeInvariant'
  <2>1. claims' \in [Payments -> RowType]
    BY <1>5, RenewedType, UpdateClaimType DEF LockItem, PlacePlant, TypeOK
  <2>2. proc' \in [Workers -> ProcType] /\ JobOK'
    <3>1. proc[w].pc # "idle" /\ {"place", "cart", "pay"} \subseteq CallbackSteps
      BY <1>5 DEF LockItem, PlacePlant, At, CallbackSteps, GuardedSteps
    <3>2. QED
      BY <1>5, <3>1, GotoType DEF LockItem, PlacePlant
  <2>3. QED
    BY <1>5, <2>1, <2>2 DEF LockItem, PlacePlant, TypeOK, purchase
<1>6. ASSUME NEW w \in Workers, NEW p \in Payments,
             CreateOperation(w, p) \/ SetCartItemPaid(w, p) \/ MarkCartPaid(w, p)
      PROVE  TypeInvariant'
  <2>1. proc' \in [Workers -> ProcType] /\ JobOK'
    <3>1. proc[w].pc # "idle" /\ {"pay", "cart", "txn"} \subseteq CallbackSteps
      BY <1>6 DEF CreateOperation, SetCartItemPaid, MarkCartPaid, At, CallbackSteps, GuardedSteps
    <3>2. QED
      BY <1>6, <3>1, GotoType DEF CreateOperation, SetCartItemPaid, MarkCartPaid
  <2>2. QED
    BY <1>6, <2>1 DEF CreateOperation, SetCartItemPaid, MarkCartPaid, TypeOK, purchase
<1>7. ASSUME NEW w \in Workers, NEW p \in Payments, CreateTransaction(w, p)
      PROVE  TypeInvariant'
  <2>1. proc' \in [Workers -> ProcType] /\ JobOK'
    <3>1. proc[w].pc # "idle" /\ "outputs" \in CallbackSteps /\ "permanent" \in Errors
      BY <1>7 DEF CreateTransaction, At, CallbackSteps, GuardedSteps, Errors
    <3>2. QED
      BY <1>7, <3>1, GotoType, ThrowType DEF CreateTransaction
  <2>2. QED
    BY <1>7, <2>1 DEF CreateTransaction, TypeOK, purchase
<1>8. ASSUME NEW w \in Workers, NEW p \in Payments, NEW lag \in Lags, EnsureOutputs(w, p, lag)
      PROVE  TypeInvariant'
  <2>1. proc' \in [Workers -> ProcType] /\ JobOK'
    <3>1. proc[w].pc # "idle" /\ "final" \in CallbackSteps
      BY <1>8 DEF EnsureOutputs, At, CallbackSteps, GuardedSteps
    <3>2. QED
      BY <1>8, <3>1, GotoType DEF EnsureOutputs
  <2>2. QED
    BY <1>8, <2>1 DEF EnsureOutputs, TypeOK, purchase
<1>9. ASSUME NEW w \in Workers, NEW p \in Payments, NEW lag \in Lags, Complete(w, p, lag)
      PROVE  TypeInvariant'
  <2>1. claims' \in [Payments -> RowType]
    BY <1>9, ClosedType, UpdateClaimType DEF Complete, TypeOK, Statuses
  <2>2. proc' \in [Workers -> ProcType] /\ JobOK'
    <3>1. proc[w].pc # "idle" /\ "retryable" \in Errors
      BY <1>9 DEF Complete, At, Errors
    <3>2. QED
      BY <1>9, <3>1, StartStopType, ThrowType DEF Complete
  <2>3. QED
    BY <1>9, <2>1, <2>2 DEF Complete, TypeOK, durable, purchase
<1>10. ASSUME NEW w \in Workers,
              \/ \E p \in Payments, lag \in Lags : FencedOut(w, p, lag)
              \/ \E kind \in Errors : FailStep(w, kind)
       PROVE  TypeInvariant'
  <2>1. proc' \in [Workers -> ProcType] /\ JobOK'
    <3>1. proc[w].pc # "idle" /\ "retryable" \in Errors
      BY <1>10 DEF FencedOut, FailStep, At, CallbackSteps, GuardedSteps, Errors
    <3>2. QED
      BY <1>10, <3>1, ThrowType DEF FencedOut, FailStep
  <2>2. QED
    BY <1>10, <2>1 DEF FencedOut, FailStep, TypeOK, durable, purchase
<1>11. ASSUME NEW w \in Workers, NEW lag \in Lags, RecordFailure(w, lag)
       PROVE  TypeInvariant'
  <2>1. proc[w].job \in Payments /\ proc[w].error \in Errors
    BY <1>11 DEF RecordFailure, TypeOK, JobOK, ProcType
  <2>2. claims' \in [Payments -> RowType]
    BY <1>11, <2>1, FailedType, UpdateClaimType DEF RecordFailure, TypeOK
  <2>3. proc' \in [Workers -> ProcType] /\ JobOK'
    BY <1>11, <2>1, StartStopType DEF RecordFailure
  <2>4. QED
    BY <1>11, <2>2, <2>3 DEF RecordFailure, TypeOK, durable, purchase
<1>12. ASSUME NEW w \in Workers, Crash(w)
       PROVE  TypeInvariant'
  <2>1. proc[w].job \in Payments
    BY <1>12 DEF Crash, JobOK
  <2>2. proc' \in [Workers -> ProcType] /\ JobOK'
    BY <1>12, <2>1, StartStopType DEF Crash
  <2>3. QED
    BY <1>12, <2>2 DEF Crash, TypeOK, durable, purchase
<1>13. ASSUME NEW p \in Payments, Enqueue(p) \/ Resolve(p) \/ \E lag \in Lags : Requeue(p, lag)
       PROVE  TypeInvariant'
  <2>1. claims' \in [Payments -> RowType]
    BY <1>13, FreshRowType, ClosedType, UpdateClaimType
       DEF Enqueue, Resolve, Requeue, TypeOK, Statuses
  <2>2. reviews' \in [Payments -> 0..MaxReviews]
    BY <1>13, PaymentsAssumption DEF PaymentsAssumption, Enqueue, Resolve, Requeue, TypeOK
  <2>3. QED
    BY <1>13, <2>1, <2>2 DEF Enqueue, Resolve, Requeue, TypeOK, JobOK, durable, purchase
<1>14. ASSUME NEW p \in Payments, DeleteTransaction(p) \/ Settle(p)
       PROVE  TypeInvariant'
  BY <1>14 DEF DeleteTransaction, Settle, TypeOK, JobOK, durable, purchase
<1>15. ASSUME Tick
       PROVE  TypeInvariant'
  BY <1>15, TickedType DEF Tick, TypeOK, JobOK, durable, purchase
<1>16. CASE UNCHANGED vars
  BY <1>16 DEF vars, durable, purchase, TypeOK, JobOK
<1>17. QED
  BY <1>1, <1>2, <1>3, <1>4, <1>5, <1>6, <1>7, <1>8, <1>9, <1>10, <1>11, <1>12,
     <1>13, <1>14, <1>15, <1>16
     DEF Next, Work, Write, Claim, Operator

(* Type correctness: rows, durable effects and invocations stay well       *)
(* formed; in particular a claim's attempts never exceed the limit.        *)
THEOREM TypeCorrect == Spec => []TypeOK
<1>1. Spec => []TypeInvariant
  BY InitType, NextType, PTL DEF Spec
<1>2. TypeInvariant => TypeOK
  BY DEF TypeInvariant
<1>3. QED
  BY <1>1, <1>2, PTL

(***************************************************************************)
(* Fulfilment before completion.  CompletedIsFulfilled is not inductive: a *)
(* completion only looks at the transaction and the outputs.  The rest     *)
(* follows from the order of the effects and from every worker being       *)
(* behind them, the stale ones included.                                   *)
(***************************************************************************)
OrderInvariant == EffectsInOrder /\ WorkerBehindEffects

(* A step that leaves the effects alone and completes no claim keeps the   *)
(* order, as long as a worker only moves to where the effects allow.       *)
LEMMA EffectsUntouched ==
  ASSUME TypeInvariant, OrderInvariant, UNCHANGED durable,
         \A p \in Payments : claims'[p].status = "completed" =>
            claims[p].status = "completed" \/ outputs[p],
         \A w \in Workers :
            \/ proc'[w].pc \in {"idle", "failing", "retrieve", "check", "item", "final"}
            \/ proc'[w].pc = proc[w].pc /\ proc'[w].job = proc[w].job
            \/ proc'[w].pc = "cart" /\ cart[proc'[w].job] # "new"
            \/ proc'[w].pc = "outputs" /\ txn[proc'[w].job] # "none"
  PROVE  OrderInvariant'
  BY DEF OrderInvariant, EffectsInOrder, WorkerBehindEffects, durable, purchase, TypeInvariant, TypeOK

(* Where the moves of a worker leave the workers. *)
LEMMA Moves ==
  ASSUME TypeInvariant, NEW w \in Workers
  PROVE  /\ \A step \in CallbackSteps : Goto(w, step) =>
              /\ proc'[w].pc = step /\ proc'[w].job = proc[w].job
              /\ \A v \in Workers \ {w} : proc'[v] = proc[v]
         /\ \A kind \in Errors : Throw(w, kind) \/ ThrowClaimLost(w) =>
              /\ proc'[w].pc = "failing"
              /\ \A v \in Workers \ {w} : proc'[v] = proc[v]
         /\ \A row : proc' = [proc EXCEPT ![w] = row] =>
              /\ proc'[w] = row
              /\ \A v \in Workers \ {w} : proc'[v] = proc[v]
         /\ proc' = [proc EXCEPT ![w].owned = TRUE] \/ proc' = [proc EXCEPT ![w].lost = TRUE] =>
              \A v \in Workers : proc'[v].pc = proc[v].pc /\ proc'[v].job = proc[v].job
  BY DEF Goto, Throw, ThrowClaimLost, TypeInvariant, TypeOK, ProcType

(* What an update of one payment's row leaves in the claims. *)
LEMMA Updates ==
  ASSUME TypeInvariant, NEW p \in Payments, NEW row, UpdateClaim(p, row)
  PROVE  /\ claims'[p] = row
         /\ \A q \in Payments \ {p} : claims'[q] = claims[q]
  BY DEF UpdateClaim, TypeInvariant, TypeOK

(* Initially nothing has happened. *)
LEMMA InitOrder == Init => OrderInvariant
  BY DEF Init, OrderInvariant, EffectsInOrder, WorkerBehindEffects, NoRow, IdleProc

(* Every step keeps the order, one case per action. *)
LEMMA NextOrder == TypeInvariant /\ OrderInvariant /\ [Next]_vars => OrderInvariant'
<1> SUFFICES ASSUME TypeInvariant, OrderInvariant, [Next]_vars PROVE OrderInvariant'
  OBVIOUS
<1>a. {"check", "item", "place", "pay", "cart", "txn", "outputs", "final"} \subseteq CallbackSteps
      /\ {"retryable", "deferred", "permanent"} \subseteq Errors
  BY DEF CallbackSteps, GuardedSteps, Errors
<1>b. ASSUME NEW w \in Workers, NEW p \in Payments, NEW lag \in Lags,
             Acquire(w, p, lag) \/ AcquireExhausted(w, p, lag)
      PROVE  OrderInvariant'
  <2>1. CASE Acquire(w, p, lag)
    <3>1. claims'[p].status = "processing" /\ \A q \in Payments \ {p} : claims'[q] = claims[q]
      BY <2>1, Updates DEF Acquire, Claimed
    <3>2. proc'[w] = Started(p) /\ \A v \in Workers \ {w} : proc'[v] = proc[v]
      BY <2>1, Moves DEF Acquire
    <3>3. Started(p).pc = "retrieve" /\ UNCHANGED durable
      BY <2>1 DEF Acquire, Started, IdleProc
    <3>4. QED
      BY <3>1, <3>2, <3>3, EffectsUntouched
  <2>2. CASE AcquireExhausted(w, p, lag)
    <3>1. claims'[p] = Closed(claims[p], "manual_review") /\ claims[p] \in RowType
      BY <2>2, Updates DEF AcquireExhausted, TypeInvariant, TypeOK
    <3>2. claims'[p].status = "manual_review"
      BY <3>1 DEF Closed, RowType
    <3>3. \A q \in Payments \ {p} : claims'[q] = claims[q]
      BY <2>2, Updates DEF AcquireExhausted
    <3>4. QED
      BY <2>2, <3>2, <3>3, EffectsUntouched DEF AcquireExhausted, durable, purchase
  <2>3. QED
    BY <1>b, <2>1, <2>2
<1>c. ASSUME NEW w \in Workers, NEW lag \in Lags, AssertOwned(w, lag) \/ Heartbeat(w, lag)
      PROVE  OrderInvariant'
  <2>1. proc[w].job \in Payments
    BY <1>c DEF AssertOwned, Heartbeat, CallbackSteps, GuardedSteps, TypeInvariant, JobOK
  <2>2. ASSUME NEW q \in Payments PROVE claims'[q].status = "completed" => claims[q].status = "completed"
    BY <1>c, <2>1, Updates, RenewedType DEF AssertOwned, Heartbeat, TypeInvariant, TypeOK
  <2>3. ASSUME NEW v \in Workers
        PROVE  proc'[v].pc = "failing" \/ (proc'[v].pc = proc[v].pc /\ proc'[v].job = proc[v].job)
    BY <1>a, <1>c, Moves DEF AssertOwned, Heartbeat
  <2>4. QED
    BY <1>c, <2>2, <2>3, EffectsUntouched DEF AssertOwned, Heartbeat
<1>d. ASSUME NEW w \in Workers, NEW p \in Payments, Retrieve(w, p) \/ Check(w, p)
      PROVE  OrderInvariant'
  <2>1. ASSUME NEW v \in Workers
        PROVE  \/ proc'[v].pc \in {"failing", "check", "item", "final"}
               \/ proc'[v].pc = proc[v].pc /\ proc'[v].job = proc[v].job
               \/ proc'[v].pc = "outputs" /\ txn[proc'[v].job] # "none"
    BY <1>a, <1>d, Moves DEF Retrieve, Check, At
  <2>2. QED
    BY <1>d, <2>1, EffectsUntouched DEF Retrieve, Check
<1>e. ASSUME NEW w \in Workers, NEW p \in Payments, NEW lag \in Lags,
             LockItem(w, p, lag) \/ PlacePlant(w, p, lag)
      PROVE  OrderInvariant'
  <2>1. \A q \in Payments : claims'[q].status = claims[q].status
    BY <1>e, Updates, RenewedType DEF LockItem, PlacePlant, TypeInvariant, TypeOK
  <2>2. CASE LockItem(w, p, lag) /\ cart[p] = "new"
    <3>1. rewards'[p] = 1 /\ \A q \in Payments \ {p} : rewards'[q] = rewards[q]
      BY <2>2 DEF LockItem, TypeInvariant, TypeOK
    <3>2. /\ proc'[w].pc = "place" /\ proc'[w].job = p
          /\ \A v \in Workers \ {w} : proc'[v] = proc[v]
      BY <1>a, <2>2, Moves DEF LockItem, At
    <3>3. UNCHANGED <<placed, cart, txn, outputs>>
      BY <2>2 DEF LockItem
    <3>4. QED
      BY <2>1, <3>1, <3>2, <3>3
         DEF OrderInvariant, EffectsInOrder, WorkerBehindEffects, TypeInvariant, TypeOK, JobOK
  <2>3. CASE LockItem(w, p, lag) /\ cart[p] # "new"
    <3>1. ASSUME NEW v \in Workers
          PROVE  \/ proc'[v].pc = proc[v].pc /\ proc'[v].job = proc[v].job
                 \/ proc'[v].pc = "cart" /\ cart[proc'[v].job] # "new"
      BY <1>a, <2>3, Moves DEF LockItem, At
    <3>2. QED
      BY <2>1, <2>3, <3>1, EffectsUntouched DEF LockItem, durable, purchase
  <2>4. CASE PlacePlant(w, p, lag)
    <3>1. placed'[p] = 1 /\ \A q \in Payments \ {p} : placed'[q] = placed[q]
      BY <2>4 DEF PlacePlant, TypeInvariant, TypeOK
    <3>2. /\ proc'[w].pc = "pay" /\ proc'[w].job = p
          /\ \A v \in Workers \ {w} : proc'[v] = proc[v]
      BY <1>a, <2>4, Moves DEF PlacePlant, At
    <3>3. rewards[p] = 1 /\ UNCHANGED <<rewards, cart, txn, outputs>>
      BY <2>4 DEF PlacePlant, At, OrderInvariant, WorkerBehindEffects
    <3>4. QED
      BY <2>1, <3>1, <3>2, <3>3
         DEF OrderInvariant, EffectsInOrder, WorkerBehindEffects, TypeInvariant, TypeOK, JobOK
  <2>5. QED
    BY <1>e, <2>2, <2>3, <2>4
<1>f. ASSUME NEW w \in Workers, NEW p \in Payments, CreateOperation(w, p)
      PROVE  OrderInvariant'
  <2>1. placed'[p] = 1 /\ \A q \in Payments \ {p} : placed'[q] = placed[q]
    BY <1>f DEF CreateOperation, TypeInvariant, TypeOK
  <2>2. /\ proc'[w].pc = "pay" /\ proc'[w].job = p
        /\ \A v \in Workers \ {w} : proc'[v] = proc[v]
    BY <1>a, <1>f, Moves DEF CreateOperation, At
  <2>3. rewards[p] = 1 /\ UNCHANGED <<claims, rewards, cart, txn, outputs>>
    BY <1>f DEF CreateOperation, At, OrderInvariant, WorkerBehindEffects
  <2>4. QED
    BY <2>1, <2>2, <2>3
       DEF OrderInvariant, EffectsInOrder, WorkerBehindEffects, TypeInvariant, TypeOK, JobOK
<1>g. ASSUME NEW w \in Workers, NEW p \in Payments, SetCartItemPaid(w, p) \/ MarkCartPaid(w, p)
      PROVE  OrderInvariant'
  <2>1. UNCHANGED <<claims, rewards, placed, txn, outputs>>
    BY <1>g DEF SetCartItemPaid, MarkCartPaid
  <2>2. placed[p] = 1
    BY <1>g DEF SetCartItemPaid, MarkCartPaid, At, OrderInvariant, EffectsInOrder, WorkerBehindEffects
  <2>3. /\ cart'[p] # "new" /\ (cart[p] = "paid" => cart'[p] = "paid")
        /\ \A q \in Payments \ {p} : cart'[q] = cart[q]
    BY <1>g DEF SetCartItemPaid, MarkCartPaid, At, OrderInvariant, WorkerBehindEffects,
                TypeInvariant, TypeOK
  <2>4. /\ proc'[w].pc \in {"cart", "txn"} /\ proc'[w].job = p
        /\ proc'[w].pc = "txn" => cart'[p] = "paid"
        /\ \A v \in Workers \ {w} : proc'[v] = proc[v]
    BY <1>a, <1>g, Moves DEF SetCartItemPaid, MarkCartPaid, At, OrderInvariant,
                             WorkerBehindEffects, TypeInvariant, TypeOK
  <2>5. QED
    BY <2>1, <2>2, <2>3, <2>4
       DEF OrderInvariant, EffectsInOrder, WorkerBehindEffects, TypeInvariant, TypeOK, JobOK
<1>h. ASSUME NEW w \in Workers, NEW p \in Payments, CreateTransaction(w, p)
      PROVE  OrderInvariant'
  <2>1. UNCHANGED <<claims, rewards, placed, cart, outputs>> /\ cart[p] = "paid"
    BY <1>h DEF CreateTransaction, At, OrderInvariant, WorkerBehindEffects
  <2>2. txn'[p] # "none" /\ \A q \in Payments \ {p} : txn'[q] = txn[q]
    BY <1>h DEF CreateTransaction, TypeInvariant, TypeOK
  <2>3. /\ proc'[w].pc = "failing" \/ (proc'[w].pc = "outputs" /\ proc'[w].job = p)
        /\ \A v \in Workers \ {w} : proc'[v] = proc[v]
    BY <1>a, <1>h, Moves DEF CreateTransaction, At
  <2>4. QED
    BY <2>1, <2>2, <2>3
       DEF OrderInvariant, EffectsInOrder, WorkerBehindEffects, TypeInvariant, TypeOK, JobOK
<1>i. ASSUME NEW w \in Workers, NEW p \in Payments, NEW lag \in Lags, EnsureOutputs(w, p, lag)
      PROVE  OrderInvariant'
  <2>1. UNCHANGED <<claims, rewards, placed, cart, txn>> /\ txn[p] # "none"
    BY <1>i DEF EnsureOutputs, At, OrderInvariant, WorkerBehindEffects
  <2>2. outputs'[p] /\ \A q \in Payments \ {p} : outputs'[q] = outputs[q]
    BY <1>i DEF EnsureOutputs, TypeInvariant, TypeOK
  <2>3. proc'[w].pc = "final" /\ \A v \in Workers \ {w} : proc'[v] = proc[v]
    BY <1>a, <1>i, Moves DEF EnsureOutputs
  <2>4. QED
    BY <2>1, <2>2, <2>3
       DEF OrderInvariant, EffectsInOrder, WorkerBehindEffects, TypeInvariant, TypeOK, JobOK
<1>j. ASSUME NEW w \in Workers, NEW p \in Payments, NEW lag \in Lags, Complete(w, p, lag)
      PROVE  OrderInvariant'
  <2>1. ASSUME NEW q \in Payments
        PROVE  claims'[q].status = "completed" => claims[q].status = "completed" \/ outputs[q]
    BY <1>j, Updates DEF Complete
  <2>2. ASSUME NEW v \in Workers
        PROVE  \/ proc'[v].pc \in {"idle", "failing"}
               \/ proc'[v].pc = proc[v].pc /\ proc'[v].job = proc[v].job
    BY <1>a, <1>j, Moves DEF Complete, IdleProc
  <2>3. QED
    BY <1>j, <2>1, <2>2, EffectsUntouched DEF Complete
<1>k. ASSUME NEW w \in Workers,
             \/ \E p \in Payments, lag \in Lags : FencedOut(w, p, lag)
             \/ \E kind \in Errors : FailStep(w, kind)
      PROVE  OrderInvariant'
  <2>1. ASSUME NEW v \in Workers
        PROVE  proc'[v].pc = "failing" \/ (proc'[v].pc = proc[v].pc /\ proc'[v].job = proc[v].job)
    BY <1>a, <1>k, Moves DEF FencedOut, FailStep
  <2>2. QED
    BY <1>k, <2>1, EffectsUntouched DEF FencedOut, FailStep
<1>l. ASSUME NEW w \in Workers, Crash(w) \/ \E lag \in Lags : RecordFailure(w, lag)
      PROVE  OrderInvariant'
  <2>1. ASSUME NEW q \in Payments PROVE claims'[q].status = "completed" => claims[q].status = "completed"
    <3>1. CASE Crash(w)
      BY <3>1 DEF Crash
    <3>2. ASSUME NEW lag \in Lags, RecordFailure(w, lag)
          PROVE  claims'[q].status = "completed" => claims[q].status = "completed"
      <4>1. proc[w].job \in Payments /\ proc[w].error \in Errors
        BY <3>2 DEF RecordFailure, TypeInvariant, TypeOK, JobOK, ProcType
      <4>2. QED
        BY <3>2, <4>1, Updates, FailedType DEF RecordFailure, TypeInvariant, TypeOK
    <3>3. QED
      BY <1>l, <3>1, <3>2
  <2>2. ASSUME NEW v \in Workers
        PROVE  proc'[v].pc = "idle" \/ (proc'[v].pc = proc[v].pc /\ proc'[v].job = proc[v].job)
    BY <1>l, Moves DEF Crash, RecordFailure, IdleProc
  <2>3. QED
    BY <1>l, <2>1, <2>2, EffectsUntouched DEF Crash, RecordFailure
<1>m. ASSUME NEW p \in Payments, Enqueue(p) \/ Resolve(p) \/ \E lag \in Lags : Requeue(p, lag)
      PROVE  OrderInvariant'
  <2>1. \A q \in Payments \ {p} : claims'[q] = claims[q]
    BY <1>m, Updates DEF Enqueue, Resolve, Requeue
  <2>2. claims'[p].status # "completed" \/ outputs[p]
    <3>1. CASE Enqueue(p)
      BY <3>1, Updates DEF Enqueue, QueuedRow, NoRow
    <3>2. CASE Resolve(p)
      BY <3>2 DEF Resolve
    <3>3. ASSUME NEW lag \in Lags, Requeue(p, lag)
          PROVE  claims'[p].status # "completed"
      <4>1. claims'[p] = Requeued(lag)
        BY <3>3, Updates DEF Requeue
      <4>2. Requeued(lag).status = "retryable"
        BY DEF Requeued, NoRow
      <4>3. QED
        BY <4>1, <4>2
    <3>4. QED
      BY <1>m, <3>1, <3>2, <3>3
  <2>3. QED
    BY <1>m, <2>1, <2>2, EffectsUntouched DEF Enqueue, Resolve, Requeue
<1>n. ASSUME NEW p \in Payments, DeleteTransaction(p)
      PROVE  OrderInvariant'
  <2>1. /\ \A q \in Payments : txn'[q] # "none" <=> txn[q] # "none"
        /\ UNCHANGED <<claims, rewards, placed, cart, outputs, proc>>
    BY <1>n DEF DeleteTransaction, TypeInvariant, TypeOK
  <2>2. QED
    BY <2>1 DEF OrderInvariant, EffectsInOrder, WorkerBehindEffects, TypeInvariant, TypeOK, JobOK
<1>o. ASSUME Tick \/ \E p \in Payments : Settle(p)
      PROVE  OrderInvariant'
  <2>1. \A q \in Payments : claims'[q].status = claims[q].status
    BY <1>o, TickedType DEF Tick, Settle, TypeInvariant, TypeOK
  <2>2. QED
    BY <1>o, <2>1, EffectsUntouched DEF Tick, Settle
<1>p. CASE UNCHANGED vars
  BY <1>p, EffectsUntouched DEF vars
<1>q. QED
  BY <1>b, <1>c, <1>d, <1>e, <1>f, <1>g, <1>h, <1>i, <1>j, <1>k, <1>l, <1>m, <1>n, <1>o, <1>p
     DEF Next, Work, Write, Claim, Operator

(* Whoever completed a claim, and however often its work was taken over,   *)
(* the payment behind it was rewarded and delivered once, its cart paid,   *)
(* its transaction recorded and its outputs linked.                        *)
THEOREM FulfilledBeforeCompleted == Spec => []CompletedIsFulfilled
<1>1. Spec => [](TypeInvariant /\ OrderInvariant)
  BY InitType, InitOrder, NextType, NextOrder, PTL DEF Spec
<1>2. TypeInvariant /\ OrderInvariant => CompletedIsFulfilled
  BY DEF TypeInvariant, TypeOK, OrderInvariant, EffectsInOrder, CompletedIsFulfilled
<1>3. QED
  BY <1>1, <1>2, PTL

(***************************************************************************)
(* How a claim ends.  Every step is, for one claim, one of a few: that is  *)
(* what OnlyTheOwnerEnds, TerminalStatesHold and the refinement rest on.   *)
(***************************************************************************)
Final == {"completed", "manual_review"}

(* A closed row has no deadline a tick could lower. *)
ClosedRows ==
  \A p \in Payments : claims[p].status \in Final =>
    claims[p].lease = Expired /\ claims[p].next = Expired

EndsByOwner(p) ==
  \E w \in Workers, lag \in Lags :
    /\ claims[p].token = w /\ ~Passed(claims[p].lease, lag)
    /\ proc[w].job = p /\ proc[w].pc \in {"final", "failing"}
    /\ proc'[w] = IdleProc

ClaimStep(p) ==
  \/ claims'[p] = claims[p]
  \/ /\ claims[p].status \notin Final
     /\ \/ claims'[p].status = claims[p].status
        \/ claims'[p].status \in {"queued", "processing", "manual_review"}
  \/ /\ claims[p].status = "processing"
     /\ claims'[p].status \in {"completed", "retryable", "manual_review"}
     /\ EndsByOwner(p)
  \/ /\ claims[p].status = "manual_review" /\ claims'[p].status \in {"completed", "retryable"}
     /\ reviews'[p] = reviews[p] + 1

ClosedStep(p) ==
  claims'[p].status \in Final =>
    \/ claims'[p] = claims[p]
    \/ claims'[p].lease = Expired /\ claims'[p].next = Expired

OneClaim(p) ==
  /\ ClaimStep(p) /\ ClosedStep(p)
  /\ \A q \in Payments \ {p} : claims'[q] = claims[q]

(* The rows that close, and those that do not. *)
LEMMA ClosedFields ==
  ASSUME NEW row \in RowType, NEW status \in Statuses, NEW r, r = Closed(row, status)
  PROVE  r.status = status /\ r.lease = Expired /\ r.next = Expired
  BY DEF RowType, Closed

LEMMA FailedFields ==
  ASSUME NEW row \in RowType, NEW kind \in Errors, NEW lag \in Lags,
         NEW r, r = Failed(row, kind, lag)
  PROVE  /\ r.status \in {"retryable", "manual_review"}
         /\ r.status = "manual_review" => r.lease = Expired /\ r.next = Expired
<1>1. CASE r = Closed(row, "manual_review")
  BY <1>1, ClosedFields DEF Statuses
<1>2. CASE r.status = "retryable"
  BY <1>2
<1>3. QED
  BY <1>1, <1>2 DEF Failed

LEMMA TickedClosed ==
  ASSUME NEW row \in RowType, row.lease = Expired, row.next = Expired
  PROVE  Ticked(row) = row
<1>1. Lower(row.lease) = row.lease /\ Lower(row.next) = row.next
  BY RowAssumption DEF RowAssumption, Lower, Expired
<1>2. Ticked(row) = [row EXCEPT !.lease = Lower(row.lease), !.next = Lower(row.next)]
  BY DEF Ticked
<1>3. QED
  BY <1>1, <1>2 DEF RowType

LEMMA SameClaims ==
  ASSUME claims' = claims, NEW p \in Payments
  PROVE  OneClaim(p)
  BY DEF OneClaim, ClaimStep, ClosedStep

LEMMA RenewedClaim ==
  ASSUME TypeInvariant, NEW p \in Payments, NEW w \in Workers, NEW lag \in Lags,
         OwnsNow(w, p, lag), UpdateClaim(p, Renewed(claims[p], lag))
  PROVE  OneClaim(p) /\ claims[p].status = "processing" /\ claims'[p].status = "processing"
<1>1. claims[p] \in RowType
  BY DEF TypeInvariant, TypeOK
<1>2. claims[p].status = "processing"
  BY DEF OwnsNow, Owns
<1>3. /\ claims'[p] = Renewed(claims[p], lag)
      /\ \A q \in Payments \ {p} : claims'[q] = claims[q]
  BY Updates
<1>4. claims'[p].status = "processing"
  BY <1>1, <1>2, <1>3, RenewedType
<1>5. QED
  BY <1>2, <1>3, <1>4 DEF OneClaim, ClaimStep, ClosedStep, Final

(* A claim is acquired or given up. *)
LEMMA ClaimClaims ==
  ASSUME TypeInvariant, NEW w \in Workers, NEW p \in Payments, Claim(w, p)
  PROVE  OneClaim(p)
<1>1. claims[p] \in RowType
  BY DEF TypeInvariant, TypeOK
<1>2. PICK lag \in Lags : Acquire(w, p, lag) \/ AcquireExhausted(w, p, lag)
  BY DEF Claim
<1>3. claims[p].status \notin Final
  BY <1>2 DEF Acquire, AcquireExhausted, Available, Final
<1>4. CASE Acquire(w, p, lag)
  <2>1. claims'[p].status = "processing" /\ \A q \in Payments \ {p} : claims'[q] = claims[q]
    BY <1>4, Updates DEF Acquire, Claimed
  <2>2. QED
    BY <1>3, <2>1 DEF OneClaim, ClaimStep, ClosedStep, Final
<1>5. CASE AcquireExhausted(w, p, lag)
  <2>1. /\ claims'[p] = Closed(claims[p], "manual_review")
        /\ \A q \in Payments \ {p} : claims'[q] = claims[q]
    BY <1>5, Updates DEF AcquireExhausted
  <2>2. /\ claims'[p].status = "manual_review"
        /\ claims'[p].lease = Expired /\ claims'[p].next = Expired
    BY <1>1, <2>1, ClosedFields DEF Statuses
  <2>3. QED
    BY <1>3, <2>1, <2>2 DEF OneClaim, ClaimStep, ClosedStep
<1>6. QED
  BY <1>2, <1>4, <1>5

(* The steps of an invocation. *)
LEMMA FrameClaims ==
  ASSUME TypeInvariant, NEW w \in Workers, NEW lag \in Lags,
         AssertOwned(w, lag) \/ Heartbeat(w, lag)
  PROVE  \E p \in Payments : OneClaim(p)
<1> DEFINE p == proc[w].job
<1>1. p \in Payments
  BY DEF AssertOwned, Heartbeat, CallbackSteps, GuardedSteps, TypeInvariant, JobOK
<1>2. CASE OwnsNow(w, p, lag) /\ UpdateClaim(p, Renewed(claims[p], lag))
  BY <1>1, <1>2, RenewedClaim
<1>3. CASE claims' = claims
  BY <1>1, <1>3, SameClaims
<1>4. QED
  BY <1>2, <1>3 DEF AssertOwned, Heartbeat, Revalidated

LEMMA FencedClaims ==
  ASSUME TypeInvariant, NEW w \in Workers, NEW p \in Payments, NEW lag \in Lags,
         LockItem(w, p, lag) \/ PlacePlant(w, p, lag)
  PROVE  OneClaim(p) /\ claims[p].status = "processing" /\ claims'[p].status = "processing"
  BY RenewedClaim DEF LockItem, PlacePlant, Revalidated

LEMMA FailureClaims ==
  ASSUME TypeInvariant, NEW w \in Workers, NEW lag \in Lags, RecordFailure(w, lag)
  PROVE  \E p \in Payments : OneClaim(p)
<1> DEFINE p == proc[w].job
<1>1. p \in Payments /\ claims[p] \in RowType /\ proc[w].error \in Errors
  BY DEF RecordFailure, TypeInvariant, TypeOK, JobOK, ProcType
<1>2. CASE claims' = claims
  BY <1>1, <1>2, SameClaims
<1>3. CASE OwnsNow(w, p, lag)
  <2>1. claims[p].status = "processing" /\ claims[p].token = w /\ ~Passed(claims[p].lease, lag)
    BY <1>3 DEF OwnsNow, Owns
  <2>2. /\ claims'[p] = Failed(claims[p], proc[w].error, lag)
        /\ \A q \in Payments \ {p} : claims'[q] = claims[q]
    BY <1>1, <1>3, Updates DEF RecordFailure
  <2>3. /\ claims'[p].status \in {"retryable", "manual_review"}
        /\ claims'[p].status = "manual_review" =>
             claims'[p].lease = Expired /\ claims'[p].next = Expired
    BY <1>1, <2>2, FailedFields
  <2>4. proc[w].pc = "failing" /\ proc'[w] = IdleProc
    BY Moves DEF RecordFailure
  <2>5. EndsByOwner(p)
    BY <2>1, <2>4 DEF EndsByOwner
  <2>6. ClaimStep(p)
    BY <2>1, <2>3, <2>5 DEF ClaimStep
  <2>7. ClosedStep(p)
    BY <2>3 DEF ClosedStep, Final
  <2>8. QED
    BY <1>1, <2>2, <2>6, <2>7 DEF OneClaim
<1>4. QED
  BY <1>2, <1>3 DEF RecordFailure

LEMMA CompleteClaims ==
  ASSUME TypeInvariant, NEW w \in Workers, NEW p \in Payments, NEW lag \in Lags,
         Complete(w, p, lag)
  PROVE  OneClaim(p)
<1>1. claims[p] \in RowType
  BY DEF TypeInvariant, TypeOK
<1>2. CASE claims' = claims
  BY <1>2, SameClaims
<1>3. CASE /\ UpdateClaim(p, Closed(claims[p], "completed"))
           /\ proc' = [proc EXCEPT ![w] = IdleProc]
  <2>1. claims[p].status = "processing" /\ claims[p].token = w /\ ~Passed(claims[p].lease, lag)
    BY DEF Complete, OwnsNow, Owns
  <2>2. /\ claims'[p] = Closed(claims[p], "completed")
        /\ \A q \in Payments \ {p} : claims'[q] = claims[q]
    BY <1>3, Updates
  <2>3. /\ claims'[p].status = "completed"
        /\ claims'[p].lease = Expired /\ claims'[p].next = Expired
    BY <1>1, <2>2, ClosedFields DEF Statuses
  <2>4. proc[w].pc = "final" /\ proc[w].job = p /\ proc'[w] = IdleProc
    BY <1>3, Moves DEF Complete, At
  <2>5. EndsByOwner(p)
    BY <2>1, <2>4 DEF EndsByOwner
  <2>6. ClaimStep(p) /\ ClosedStep(p)
    BY <2>1, <2>3, <2>5 DEF ClaimStep, ClosedStep
  <2>7. QED
    BY <2>2, <2>6 DEF OneClaim
<1>4. QED
  BY <1>2, <1>3 DEF Complete

(* Discovery and the operator. *)
LEMMA OutsideClaims ==
  ASSUME TypeInvariant, NEW p \in Payments,
         Enqueue(p) \/ Resolve(p) \/ \E lag \in Lags : Requeue(p, lag)
  PROVE  OneClaim(p)
<1>1. claims[p] \in RowType
  BY DEF TypeInvariant, TypeOK
<1>2. CASE Enqueue(p)
  <2>1. QueuedRow.status = "queued"
    BY DEF QueuedRow, NoRow
  <2>2. /\ claims[p].status = "none" /\ claims'[p].status = "queued"
        /\ \A q \in Payments \ {p} : claims'[q] = claims[q]
    BY <1>2, <2>1, Updates DEF Enqueue
  <2>3. QED
    BY <2>2 DEF OneClaim, ClaimStep, ClosedStep, Final
<1>3. CASE Resolve(p)
  <2>1. /\ claims'[p] = Closed(claims[p], "completed")
        /\ \A q \in Payments \ {p} : claims'[q] = claims[q]
    BY <1>3, Updates DEF Resolve
  <2>2. /\ claims'[p].status = "completed"
        /\ claims'[p].lease = Expired /\ claims'[p].next = Expired
    BY <1>1, <2>1, ClosedFields DEF Statuses
  <2>3. claims[p].status = "manual_review" /\ reviews'[p] = reviews[p] + 1
    BY <1>3 DEF Resolve, TypeInvariant, TypeOK
  <2>4. QED
    BY <2>1, <2>2, <2>3 DEF OneClaim, ClaimStep, ClosedStep
<1>4. ASSUME NEW lag \in Lags, Requeue(p, lag)
      PROVE  OneClaim(p)
  <2>1. Requeued(lag).status = "retryable"
    BY DEF Requeued, NoRow
  <2>2. /\ claims'[p].status = "retryable"
        /\ \A q \in Payments \ {p} : claims'[q] = claims[q]
    BY <1>4, <2>1, Updates DEF Requeue
  <2>3. claims[p].status = "manual_review" /\ reviews'[p] = reviews[p] + 1
    BY <1>4 DEF Requeue, TypeInvariant, TypeOK
  <2>4. QED
    BY <2>2, <2>3 DEF OneClaim, ClaimStep, ClosedStep, Final
<1>5. QED
  BY <1>2, <1>3, <1>4

LEMMA TickClaims ==
  ASSUME TypeInvariant, ClosedRows, Tick, NEW p \in Payments
  PROVE  ClaimStep(p) /\ ClosedStep(p) /\ claims'[p].status = claims[p].status
<1>1. claims[p] \in RowType /\ claims'[p] = Ticked(claims[p])
  BY DEF Tick, TypeInvariant, TypeOK
<1>2. claims'[p].status = claims[p].status
  BY <1>1, TickedType
<1>3. claims[p].status \in Final => claims'[p] = claims[p]
  BY <1>1, TickedClosed DEF ClosedRows
<1>4. QED
  BY <1>2, <1>3 DEF ClaimStep, ClosedStep

(* Every step, for every claim. *)
LEMMA EveryClaim ==
  ASSUME TypeInvariant, ClosedRows, [Next]_vars, NEW q \in Payments
  PROVE  ClaimStep(q) /\ ClosedStep(q)
<1>1. CASE \E p \in Payments : OneClaim(p)
  <2>1. PICK p \in Payments : OneClaim(p)
    BY <1>1
  <2>2. QED
    BY <2>1 DEF OneClaim, ClaimStep, ClosedStep
<1>2. CASE claims' = claims
  BY <1>2 DEF ClaimStep, ClosedStep
<1>3. ASSUME NEW w \in Workers, Work(w)
      PROVE  claims' = claims \/ \E p \in Payments : OneClaim(p)
  <2>1. ASSUME NEW p \in Payments, Write(w, p)
        PROVE  claims' = claims \/ OneClaim(p)
    <3>1. CASE \/ Retrieve(w, p) \/ Check(w, p) \/ CreateOperation(w, p)
               \/ SetCartItemPaid(w, p) \/ MarkCartPaid(w, p) \/ CreateTransaction(w, p)
      BY <3>1 DEF Retrieve, Check, CreateOperation, SetCartItemPaid, MarkCartPaid,
                  CreateTransaction
    <3>2. ASSUME NEW lag \in Lags,
                 \/ LockItem(w, p, lag) \/ PlacePlant(w, p, lag) \/ EnsureOutputs(w, p, lag)
                 \/ Complete(w, p, lag) \/ FencedOut(w, p, lag)
          PROVE  claims' = claims \/ OneClaim(p)
      BY <3>2, FencedClaims, CompleteClaims DEF EnsureOutputs, FencedOut
    <3>3. QED
      BY <2>1, <3>1, <3>2 DEF Write
  <2>2. ASSUME NEW lag \in Lags, AssertOwned(w, lag) \/ RecordFailure(w, lag)
        PROVE  \E p \in Payments : OneClaim(p)
    BY <2>2, FrameClaims, FailureClaims
  <2>3. ASSUME NEW kind \in Errors, FailStep(w, kind)
        PROVE  claims' = claims
    BY <2>3 DEF FailStep
  <2>4. QED
    BY <1>3, <2>1, <2>2, <2>3 DEF Work
<1>4. ASSUME NEW w \in Workers, Crash(w)
      PROVE  claims' = claims
  BY <1>4 DEF Crash
<1>5. ASSUME NEW w \in Workers, NEW p \in Payments, Claim(w, p)
      PROVE  OneClaim(p)
  BY <1>5, ClaimClaims
<1>6. ASSUME NEW w \in Workers, NEW lag \in Lags, Heartbeat(w, lag)
      PROVE  \E p \in Payments : OneClaim(p)
  BY <1>6, FrameClaims
<1>7. ASSUME NEW p \in Payments, Enqueue(p) \/ Operator(p) \/ Settle(p)
      PROVE  claims' = claims \/ OneClaim(p)
  BY <1>7, OutsideClaims DEF Operator, DeleteTransaction, Settle
<1>8. CASE Tick
  BY <1>8, TickClaims
<1>9. CASE UNCHANGED vars
  BY <1>2, <1>9 DEF vars
<1>10. QED
  BY <1>1, <1>2, <1>3, <1>4, <1>5, <1>6, <1>7, <1>8, <1>9 DEF Next

LEMMA InitClosed == Init => ClosedRows
  BY DEF Init, ClosedRows, Final, NoRow

LEMMA NextClosed == TypeInvariant /\ ClosedRows /\ [Next]_vars => ClosedRows'
  BY EveryClaim DEF ClosedStep, ClosedRows

LEMMA SafetyInvariant == Spec => [](TypeInvariant /\ OrderInvariant /\ ClosedRows)
  BY InitType, InitOrder, InitClosed, NextType, NextOrder, NextClosed, PTL DEF Spec

(* Only the worker whose token is on the row takes a claim from processing *)
(* to completed or retryable, by a reading of the clock at most MaxLag old *)
(* under which its lease runs (completeStripePaymentProcessingClaim,       *)
(* recordStripePaymentProcessingFailure).                                  *)
THEOREM OwnersEnd == Spec => OnlyTheOwnerEnds
<1>1. TypeInvariant /\ ClosedRows /\ [Next]_vars => [\A p \in Payments : EndedByOwner(p)]_vars
  <2>1. ASSUME NEW p \in Payments, ClaimStep(p)
        PROVE  EndedByOwner(p)
    BY <2>1 DEF ClaimStep, EndedByOwner, EndsByOwner, Final
  <2>2. QED
    BY <2>1, EveryClaim
<1>2. QED
  BY <1>1, SafetyInvariant, PTL DEF Spec, OnlyTheOwnerEnds

(* "An old worker cannot complete or fail a claim after its lease expires" *)
(* (a failure that ends in review is like an acquisition without tries     *)
(* left in the row, and is not distinguished from it here).                *)
EndsWithinLease ==
  [][\A p \in Payments :
       claims[p].status = "processing" /\ claims'[p].status \in {"completed", "retryable"}
         => claims[p].lease > 0]_vars

(* The guide's words hold to the letter only if no time passes between the *)
(* reading of the clock and the lock of the row: with no lag, a claim is   *)
(* completed or put back for a retry before its lease ends.                *)
THEOREM OwnersEndInTime ==
  ASSUME MaxLag = 0
  PROVE  Spec => EndsWithinLease
<1>1. ASSUME TypeInvariant, NEW p \in Payments, EndedByOwner(p),
             claims[p].status = "processing", claims'[p].status \in {"completed", "retryable"}
      PROVE  claims[p].lease > 0
  <2>1. PICK lag \in Lags : ~Passed(claims[p].lease, lag)
    BY <1>1 DEF EndedByOwner
  <2>2. lag = 0 /\ claims[p].lease \in Int
    BY <1>1, <2>1, RowAssumption DEF Lags, TypeInvariant, TypeOK, RowType, Expired, RowAssumption
  <2>3. QED
    BY <2>1, <2>2 DEF Passed
<1>2. TypeInvariant /\ [\A p \in Payments : EndedByOwner(p)]_vars
        => [\A p \in Payments :
              claims[p].status = "processing" /\ claims'[p].status \in {"completed", "retryable"}
                => claims[p].lease > 0]_vars
  BY <1>1
<1>3. QED
  BY <1>2, OwnersEnd, SafetyInvariant, PTL DEF OnlyTheOwnerEnds, EndsWithinLease

(* A completed claim never changes again, and one under review only by an  *)
(* operator's decision with its audit row.                                 *)
THEOREM TerminalStatesAreHeld == Spec => TerminalStatesHold
<1>1. TypeInvariant /\ ClosedRows /\ [Next]_vars => [\A p \in Payments : HeldUntilReviewed(p)]_vars
  <2>1. ASSUME NEW p \in Payments, ClaimStep(p)
        PROVE  HeldUntilReviewed(p)
    BY <2>1 DEF ClaimStep, HeldUntilReviewed, Final
  <2>2. QED
    BY <2>1, EveryClaim
<1>2. QED
  BY <1>1, SafetyInvariant, PTL DEF Spec, TerminalStatesHold

(***************************************************************************)
(* The refinement of PaidCheckout.  A step produces one effect of one      *)
(* payment, or moves the outcome of one, or neither.                       *)
(***************************************************************************)
CountOf(p) ==
  <<rewards[p], placed[p], Once(cart[p] # "new"), Once(cart[p] = "paid"),
    Once(txn[p] # "none"), Once(outputs[p])>>

OutcomeOf(p) ==
  CASE claims[p].status = "completed" -> "completed"
    [] claims[p].status = "manual_review" -> "review"
    [] OTHER -> "open"

SealedOf(p) == IF p \in plantings THEN {1, 2, 6} ELSE {1, 6}

Counts == [p \in Payments |-> CountOf(p)]
Outcomes == [p \in Payments |-> OutcomeOf(p)]
Seals == [p \in Payments |-> SealedOf(p)]

LEMMA TupleFields ==
  ASSUME NEW a \in 0..1, NEW b \in 0..1, NEW c \in 0..1,
         NEW d \in 0..1, NEW e \in 0..1, NEW f \in 0..1
  PROVE  /\ <<a, b, c, d, e, f>> \in [1..6 -> 0..1]
         /\ <<a, b, c, d, e, f>>[1] = a /\ <<a, b, c, d, e, f>>[2] = b
         /\ <<a, b, c, d, e, f>>[3] = c /\ <<a, b, c, d, e, f>>[4] = d
         /\ <<a, b, c, d, e, f>>[5] = e /\ <<a, b, c, d, e, f>>[6] = f
  OBVIOUS

LEMMA CountFields ==
  ASSUME TypeOK, NEW p \in Payments
  PROVE  /\ CountOf(p) \in [1..6 -> 0..1]
         /\ CountOf(p)[1] = rewards[p] /\ CountOf(p)[2] = placed[p]
         /\ CountOf(p)[3] = Once(cart[p] # "new") /\ CountOf(p)[4] = Once(cart[p] = "paid")
         /\ CountOf(p)[5] = Once(txn[p] # "none") /\ CountOf(p)[6] = Once(outputs[p])
<1>1. /\ Once(cart[p] # "new") \in 0..1 /\ Once(cart[p] = "paid") \in 0..1
      /\ Once(txn[p] # "none") \in 0..1 /\ Once(outputs[p]) \in 0..1
  BY DEF Once
<1>2. rewards[p] \in 0..1 /\ placed[p] \in 0..1
  BY DEF TypeOK
<1>3. QED
  BY <1>1, <1>2, TupleFields DEF CountOf

(* The abstract steps over the three mapped functions. *)
LEMMA AbstractAdvance ==
  ASSUME Seals' = Seals, Outcomes' = Outcomes, NEW p \in Payments, NEW i \in 1..6,
         Counts[p][i] = 0, \A j \in 1..(i - 1) : Counts[p][j] = 1,
         i \in Seals[p] => Outcomes[p] = "open",
         Counts' = [Counts EXCEPT ![p][i] = 1]
  PROVE  Abstract!Next
<1>1. Abstract!Advance(p)
  BY DEF Abstract!Advance, Counts, Outcomes, Seals, CountOf, OutcomeOf, SealedOf
<1>2. QED
  BY <1>1 DEF Abstract!Next

LEMMA AbstractOutcome ==
  ASSUME Seals' = Seals, Counts' = Counts, NEW p \in Payments,
         \/ /\ Outcomes[p] # "completed" /\ \A i \in 1..6 : Counts[p][i] = 1
            /\ Outcomes' = [Outcomes EXCEPT ![p] = "completed"]
         \/ Outcomes[p] = "open" /\ Outcomes' = [Outcomes EXCEPT ![p] = "review"]
         \/ Outcomes[p] = "review" /\ Outcomes' = [Outcomes EXCEPT ![p] = "open"]
  PROVE  Abstract!Next
<1>1. CASE /\ Outcomes[p] # "completed" /\ \A i \in 1..6 : Counts[p][i] = 1
           /\ Outcomes' = [Outcomes EXCEPT ![p] = "completed"]
  <2>1. Abstract!Complete(p)
    BY <1>1 DEF Abstract!Complete, Counts, Outcomes, Seals, CountOf, OutcomeOf, SealedOf
  <2>2. QED
    BY <2>1 DEF Abstract!Next
<1>2. CASE Outcomes[p] = "open" /\ Outcomes' = [Outcomes EXCEPT ![p] = "review"]
  <2>1. Abstract!SendToReview(p)
    BY <1>2 DEF Abstract!SendToReview, Counts, Outcomes, Seals, CountOf, OutcomeOf, SealedOf
  <2>2. QED
    BY <2>1 DEF Abstract!Next
<1>3. CASE Outcomes[p] = "review" /\ Outcomes' = [Outcomes EXCEPT ![p] = "open"]
  <2>1. Abstract!Reopen(p)
    BY <1>3 DEF Abstract!Reopen, Counts, Outcomes, Seals, CountOf, OutcomeOf, SealedOf
  <2>2. QED
    BY <2>1 DEF Abstract!Next
<1>4. QED
  BY <1>1, <1>2, <1>3

LEMMA AbstractStutter ==
  ASSUME Seals' = Seals, Counts' = Counts, Outcomes' = Outcomes
  PROVE  UNCHANGED Abstract!vars
  BY DEF Abstract!vars, Counts, Outcomes, Seals, CountOf, OutcomeOf, SealedOf

(* One effect of p happens. *)
LEMMA EffectStep ==
  ASSUME TypeOK, NEW p \in Payments, NEW i \in 1..6, plantings' = plantings,
         \A q \in Payments : claims'[q].status = claims[q].status,
         CountOf(p)[i] = 0, \A j \in 1..(i - 1) : CountOf(p)[j] = 1,
         i \in SealedOf(p) => OutcomeOf(p) = "open",
         \A q \in Payments \ {p} : CountOf(q)' = CountOf(q),
         CountOf(p)' = [CountOf(p) EXCEPT ![i] = 1]
  PROVE  Abstract!Next
<1>1. Seals' = Seals
  BY DEF Seals, SealedOf
<1>2. Outcomes' = Outcomes
  BY DEF Outcomes, OutcomeOf
<1>3. \A q \in Payments : CountOf(q) \in [1..6 -> 0..1]
  BY CountFields
<1>4. Counts' = [q \in Payments |-> CountOf(q)']
  BY DEF Counts
<1>5. Counts = [q \in Payments |-> CountOf(q)]
  BY DEF Counts
<1>6. Counts' = [Counts EXCEPT ![p][i] = 1]
  BY <1>3, <1>4, <1>5
<1>7. /\ Counts[p][i] = 0 /\ \A j \in 1..(i - 1) : Counts[p][j] = 1
      /\ i \in Seals[p] => Outcomes[p] = "open"
  BY DEF Counts, Seals, Outcomes
<1>8. QED
  BY <1>1, <1>2, <1>6, <1>7, AbstractAdvance

(* Nothing happens that the abstract specification sees. *)
LEMMA NoEffect ==
  ASSUME plantings' = plantings, \A q \in Payments : CountOf(q)' = CountOf(q),
         \A q \in Payments : OutcomeOf(q)' = OutcomeOf(q)
  PROVE  UNCHANGED Abstract!vars
<1>1. Seals' = Seals
  BY DEF Seals, SealedOf
<1>2. Counts' = Counts
  BY DEF Counts
<1>3. Outcomes' = Outcomes
  BY DEF Outcomes
<1>4. QED
  BY <1>1, <1>2, <1>3, AbstractStutter

(* The claim of p moves, with all the effects there if it is completed. *)
LEMMA OutcomeStep ==
  ASSUME TypeOK, EffectsInOrder', UNCHANGED durable, plantings' = plantings,
         NEW p \in Payments, OneClaim(p)
  PROVE  Abstract!Next \/ UNCHANGED Abstract!vars
<1>1. \A q \in Payments : CountOf(q)' = CountOf(q)
  BY DEF CountOf, durable
<1>2. Seals' = Seals /\ Counts' = Counts
  BY <1>1 DEF Seals, SealedOf, Counts
<1>3. \A q \in Payments \ {p} : OutcomeOf(q)' = OutcomeOf(q)
  BY DEF OneClaim, OutcomeOf
<1>4. CASE OutcomeOf(p)' = OutcomeOf(p)
  BY <1>1, <1>3, <1>4, NoEffect
<1>5. \A o : OutcomeOf(p)' = o => Outcomes' = [Outcomes EXCEPT ![p] = o]
  BY <1>3 DEF Outcomes
<1>6. Outcomes[p] = OutcomeOf(p) /\ Counts[p] = CountOf(p)
  BY DEF Outcomes, Counts
<1>7. CASE claims[p].status # "completed" /\ claims'[p].status = "completed"
  <2>1. outputs[p] /\ txn[p] # "none" /\ cart[p] = "paid" /\ placed[p] = 1 /\ rewards[p] = 1
    BY <1>7 DEF EffectsInOrder, durable
  <2>2. \A i \in 1..6 : Counts[p][i] = 1
    BY <1>6, <2>1, CountFields DEF Once
  <2>3. OutcomeOf(p) # "completed" /\ OutcomeOf(p)' = "completed"
    BY <1>7 DEF OutcomeOf
  <2>4. QED
    BY <1>2, <1>5, <1>6, <2>2, <2>3, AbstractOutcome
<1>8. CASE claims[p].status \notin Final /\ claims'[p].status = "manual_review"
  <2>1. OutcomeOf(p) = "open" /\ OutcomeOf(p)' = "review"
    BY <1>8 DEF OutcomeOf, Final
  <2>2. QED
    BY <1>2, <1>5, <1>6, <2>1, AbstractOutcome
<1>9. CASE claims[p].status = "manual_review" /\ claims'[p].status = "retryable"
  <2>1. OutcomeOf(p) = "review" /\ OutcomeOf(p)' = "open"
    BY <1>9 DEF OutcomeOf
  <2>2. QED
    BY <1>2, <1>5, <1>6, <2>1, AbstractOutcome
<1>10. CASE \/ claims'[p] = claims[p] \/ claims'[p].status = claims[p].status
            \/ /\ claims[p].status \notin Final
               /\ claims'[p].status \in {"queued", "processing", "retryable"}
  <2>1. OutcomeOf(p)' = OutcomeOf(p)
    BY <1>10 DEF OutcomeOf, Final
  <2>2. QED
    BY <1>4, <2>1
<1>11. ClaimStep(p)
  BY DEF OneClaim
<1>12. QED
  BY <1>7, <1>8, <1>9, <1>10, <1>11 DEF ClaimStep, Final

(* The six effects, in their order. *)
LEMMA RewardStep ==
  ASSUME TypeInvariant, OrderInvariant, NEW w \in Workers, NEW p \in Payments, NEW lag \in Lags,
         LockItem(w, p, lag)
  PROVE  Abstract!Next \/ UNCHANGED Abstract!vars
<1>1. /\ TypeOK /\ plantings' = plantings /\ UNCHANGED <<placed, cart, txn, outputs>>
  BY DEF TypeInvariant, LockItem, purchase
<1>2. /\ claims[p].status = "processing"
      /\ \A q \in Payments : claims'[q].status = claims[q].status
  BY FencedClaims DEF OneClaim
<1>3. CASE rewards[p] = 0 /\ rewards' = [rewards EXCEPT ![p] = 1]
  <2>1. CountOf(p)[1] = 0 /\ \A j \in 1..(1 - 1) : CountOf(p)[j] = 1
    BY <1>1, <1>3, CountFields
  <2>2. OutcomeOf(p) = "open"
    BY <1>2 DEF OutcomeOf
  <2>3. CountOf(p)' = [CountOf(p) EXCEPT ![1] = 1]
    BY <1>1, <1>3 DEF CountOf, TypeOK
  <2>4. \A q \in Payments \ {p} : CountOf(q)' = CountOf(q)
    BY <1>1, <1>3 DEF CountOf, TypeOK
  <2>5. QED
    BY <1>1, <1>2, <2>1, <2>2, <2>3, <2>4, EffectStep
<1>4. CASE rewards' = rewards
  <2>1. \A q \in Payments : CountOf(q)' = CountOf(q) /\ OutcomeOf(q)' = OutcomeOf(q)
    BY <1>1, <1>2, <1>4 DEF CountOf, OutcomeOf
  <2>2. QED
    BY <1>1, <2>1, NoEffect
<1>5. QED
  BY <1>1, <1>3, <1>4 DEF LockItem, TypeOK

LEMMA DeliveryStep ==
  ASSUME TypeInvariant, OrderInvariant, NEW w \in Workers, NEW p \in Payments,
         CreateOperation(w, p) \/ \E lag \in Lags : PlacePlant(w, p, lag)
  PROVE  Abstract!Next \/ UNCHANGED Abstract!vars
<1>1. /\ TypeOK /\ plantings' = plantings /\ UNCHANGED <<rewards, cart, txn, outputs>>
      /\ rewards[p] = 1
  BY DEF TypeInvariant, OrderInvariant, WorkerBehindEffects, At, CreateOperation, PlacePlant,
         purchase
<1>2. /\ p \in plantings => claims[p].status = "processing"
      /\ \A q \in Payments : claims'[q].status = claims[q].status
  BY FencedClaims DEF OneClaim, CreateOperation
<1>3. placed' = [placed EXCEPT ![p] = IF @ = 0 THEN 1 ELSE @]
  BY DEF CreateOperation, PlacePlant
<1>4. CASE placed[p] = 0
  <2>1. CountOf(p)[2] = 0 /\ \A j \in 1..(2 - 1) : CountOf(p)[j] = 1
    BY <1>1, <1>4, CountFields
  <2>2. 2 \in SealedOf(p) => OutcomeOf(p) = "open"
    BY <1>2 DEF OutcomeOf, SealedOf
  <2>3. CountOf(p)' = [CountOf(p) EXCEPT ![2] = 1]
    BY <1>1, <1>3, <1>4 DEF CountOf, TypeOK
  <2>4. \A q \in Payments \ {p} : CountOf(q)' = CountOf(q)
    BY <1>1, <1>3 DEF CountOf, TypeOK
  <2>5. QED
    BY <1>1, <1>2, <2>1, <2>2, <2>3, <2>4, EffectStep
<1>5. CASE placed[p] # 0
  <2>1. placed' = placed
    BY <1>1, <1>3, <1>5 DEF TypeOK
  <2>2. \A q \in Payments : CountOf(q)' = CountOf(q) /\ OutcomeOf(q)' = OutcomeOf(q)
    BY <1>1, <1>2, <2>1 DEF CountOf, OutcomeOf
  <2>3. QED
    BY <1>1, <2>2, NoEffect
<1>6. QED
  BY <1>4, <1>5

LEMMA PaidStep ==
  ASSUME TypeInvariant, OrderInvariant, NEW w \in Workers, NEW p \in Payments,
         SetCartItemPaid(w, p) \/ MarkCartPaid(w, p)
  PROVE  Abstract!Next \/ UNCHANGED Abstract!vars
<1>1. /\ TypeOK /\ plantings' = plantings /\ UNCHANGED <<claims, rewards, placed, txn, outputs>>
      /\ rewards[p] = 1 /\ placed[p] = 1
  BY DEF TypeInvariant, OrderInvariant, WorkerBehindEffects, EffectsInOrder, At, SetCartItemPaid,
         MarkCartPaid, purchase
<1>2. CASE cart[p] = "new" /\ cart' = [cart EXCEPT ![p] = "item_paid"]
  <2>1. CountOf(p)[3] = 0 /\ \A j \in 1..(3 - 1) : CountOf(p)[j] = 1
    BY <1>1, <1>2, CountFields DEF Once
  <2>2. 3 \notin SealedOf(p)
    BY DEF SealedOf
  <2>3. CountOf(p)' = [CountOf(p) EXCEPT ![3] = 1]
    BY <1>1, <1>2 DEF CountOf, TypeOK, Once
  <2>4. \A q \in Payments \ {p} : CountOf(q)' = CountOf(q)
    BY <1>1, <1>2 DEF CountOf, TypeOK
  <2>5. QED
    BY <1>1, <2>1, <2>2, <2>3, <2>4, EffectStep
<1>3. CASE cart[p] = "item_paid" /\ cart' = [cart EXCEPT ![p] = "paid"]
  <2>1. CountOf(p)[4] = 0 /\ \A j \in 1..(4 - 1) : CountOf(p)[j] = 1
    BY <1>1, <1>3, CountFields DEF Once
  <2>2. 4 \notin SealedOf(p)
    BY DEF SealedOf
  <2>3. CountOf(p)' = [CountOf(p) EXCEPT ![4] = 1]
    BY <1>1, <1>3 DEF CountOf, TypeOK, Once
  <2>4. \A q \in Payments \ {p} : CountOf(q)' = CountOf(q)
    BY <1>1, <1>3 DEF CountOf, TypeOK
  <2>5. QED
    BY <1>1, <2>1, <2>2, <2>3, <2>4, EffectStep
<1>4. CASE cart' = cart
  <2>1. \A q \in Payments : CountOf(q)' = CountOf(q) /\ OutcomeOf(q)' = OutcomeOf(q)
    BY <1>1, <1>4 DEF CountOf, OutcomeOf
  <2>2. QED
    BY <1>1, <2>1, NoEffect
<1>5. QED
  BY <1>1, <1>2, <1>3, <1>4 DEF SetCartItemPaid, MarkCartPaid, TypeOK

LEMMA TransactionStep ==
  ASSUME TypeInvariant, OrderInvariant, NEW w \in Workers, NEW p \in Payments,
         CreateTransaction(w, p)
  PROVE  Abstract!Next \/ UNCHANGED Abstract!vars
<1>1. /\ TypeOK /\ plantings' = plantings /\ UNCHANGED <<claims, rewards, placed, cart, outputs>>
      /\ rewards[p] = 1 /\ placed[p] = 1 /\ cart[p] = "paid"
      /\ txn' = [txn EXCEPT ![p] = IF @ = "none" THEN "completed" ELSE @]
  BY DEF TypeInvariant, OrderInvariant, WorkerBehindEffects, EffectsInOrder, At, CreateTransaction,
         purchase
<1>2. CASE txn[p] = "none"
  <2>1. CountOf(p)[5] = 0 /\ \A j \in 1..(5 - 1) : CountOf(p)[j] = 1
    BY <1>1, <1>2, CountFields DEF Once
  <2>2. 5 \notin SealedOf(p)
    BY DEF SealedOf
  <2>3. CountOf(p)' = [CountOf(p) EXCEPT ![5] = 1]
    BY <1>1, <1>2 DEF CountOf, TypeOK, Once
  <2>4. \A q \in Payments \ {p} : CountOf(q)' = CountOf(q)
    BY <1>1, <1>2 DEF CountOf, TypeOK
  <2>5. QED
    BY <1>1, <2>1, <2>2, <2>3, <2>4, EffectStep
<1>3. CASE txn[p] # "none"
  <2>1. txn' = txn
    BY <1>1, <1>3 DEF TypeOK
  <2>2. \A q \in Payments : CountOf(q)' = CountOf(q) /\ OutcomeOf(q)' = OutcomeOf(q)
    BY <1>1, <2>1 DEF CountOf, OutcomeOf
  <2>3. QED
    BY <1>1, <2>2, NoEffect
<1>4. QED
  BY <1>2, <1>3

LEMMA OutputsStep ==
  ASSUME TypeInvariant, OrderInvariant, NEW w \in Workers, NEW p \in Payments, NEW lag \in Lags,
         EnsureOutputs(w, p, lag)
  PROVE  Abstract!Next \/ UNCHANGED Abstract!vars
<1>1. /\ TypeOK /\ plantings' = plantings /\ UNCHANGED <<claims, rewards, placed, cart, txn>>
      /\ rewards[p] = 1 /\ placed[p] = 1 /\ cart[p] = "paid" /\ txn[p] # "none"
      /\ outputs' = [outputs EXCEPT ![p] = TRUE]
  BY DEF TypeInvariant, OrderInvariant, WorkerBehindEffects, EffectsInOrder, At, EnsureOutputs,
         purchase
<1>2. claims[p].status = "processing"
  BY DEF EnsureOutputs, OwnsNow, Owns
<1>3. CASE outputs[p] = FALSE
  <2>1. CountOf(p)[6] = 0 /\ \A j \in 1..(6 - 1) : CountOf(p)[j] = 1
    BY <1>1, <1>3, CountFields DEF Once
  <2>2. OutcomeOf(p) = "open"
    BY <1>2 DEF OutcomeOf
  <2>3. CountOf(p)' = [CountOf(p) EXCEPT ![6] = 1]
    BY <1>1, <1>3 DEF CountOf, TypeOK, Once
  <2>4. \A q \in Payments \ {p} : CountOf(q)' = CountOf(q)
    BY <1>1, <1>3 DEF CountOf, TypeOK
  <2>5. QED
    BY <1>1, <2>1, <2>2, <2>3, <2>4, EffectStep
<1>4. CASE outputs[p] = TRUE
  <2>1. outputs' = outputs
    BY <1>1, <1>4 DEF TypeOK
  <2>2. \A q \in Payments : CountOf(q)' = CountOf(q) /\ OutcomeOf(q)' = OutcomeOf(q)
    BY <1>1, <2>1 DEF CountOf, OutcomeOf
  <2>3. QED
    BY <1>1, <2>2, NoEffect
<1>5. outputs[p] \in BOOLEAN
  BY <1>1 DEF TypeOK
<1>6. QED
  BY <1>3, <1>4, <1>5

(* An outcome that moves while nothing durable does. *)
LEMMA MovedOutcome ==
  ASSUME TypeInvariant, OrderInvariant', UNCHANGED <<plantings, durable>>,
         \E p \in Payments : OneClaim(p)
  PROVE  Abstract!Next \/ UNCHANGED Abstract!vars
  BY OutcomeStep DEF TypeInvariant, OrderInvariant

(* A step of the frame, or one that only reads. *)
LEMMA Unseen ==
  ASSUME UNCHANGED <<claims, plantings, durable>>
  PROVE  UNCHANGED Abstract!vars
<1>1. \A q \in Payments : CountOf(q)' = CountOf(q) /\ OutcomeOf(q)' = OutcomeOf(q)
  BY DEF CountOf, OutcomeOf, durable
<1>2. QED
  BY <1>1, NoEffect

LEMMA WriteRefines ==
  ASSUME TypeInvariant, OrderInvariant, OrderInvariant', NEW w \in Workers, NEW p \in Payments,
         Write(w, p)
  PROVE  Abstract!Next \/ UNCHANGED Abstract!vars
<1>1. CASE Retrieve(w, p) \/ Check(w, p)
  BY <1>1, Unseen DEF Retrieve, Check, purchase
<1>2. CASE CreateOperation(w, p)
  BY <1>2, DeliveryStep
<1>3. CASE SetCartItemPaid(w, p) \/ MarkCartPaid(w, p)
  BY <1>3, PaidStep
<1>4. CASE CreateTransaction(w, p)
  BY <1>4, TransactionStep
<1>5. ASSUME NEW lag \in Lags, LockItem(w, p, lag)
      PROVE  Abstract!Next \/ UNCHANGED Abstract!vars
  BY <1>5, RewardStep
<1>6. ASSUME NEW lag \in Lags, PlacePlant(w, p, lag)
      PROVE  Abstract!Next \/ UNCHANGED Abstract!vars
  BY <1>6, DeliveryStep
<1>7. ASSUME NEW lag \in Lags, EnsureOutputs(w, p, lag)
      PROVE  Abstract!Next \/ UNCHANGED Abstract!vars
  BY <1>7, OutputsStep
<1>8. ASSUME NEW lag \in Lags, Complete(w, p, lag)
      PROVE  Abstract!Next \/ UNCHANGED Abstract!vars
  BY <1>8, CompleteClaims, MovedOutcome DEF Complete, purchase
<1>9. ASSUME NEW lag \in Lags, FencedOut(w, p, lag)
      PROVE  Abstract!Next \/ UNCHANGED Abstract!vars
  BY <1>9, Unseen DEF FencedOut, purchase
<1>10. CASE \E lag \in Lags :
              \/ LockItem(w, p, lag) \/ PlacePlant(w, p, lag) \/ EnsureOutputs(w, p, lag)
              \/ Complete(w, p, lag) \/ FencedOut(w, p, lag)
  BY <1>5, <1>6, <1>7, <1>8, <1>9, <1>10
<1>11. QED
  BY <1>1, <1>2, <1>3, <1>4, <1>10 DEF Write

LEMMA WorkRefines ==
  ASSUME TypeInvariant, OrderInvariant, OrderInvariant', NEW w \in Workers, Work(w)
  PROVE  Abstract!Next \/ UNCHANGED Abstract!vars
<1>1. ASSUME NEW lag \in Lags, AssertOwned(w, lag)
      PROVE  Abstract!Next \/ UNCHANGED Abstract!vars
  BY <1>1, FrameClaims, MovedOutcome DEF AssertOwned, purchase
<1>2. ASSUME NEW lag \in Lags, RecordFailure(w, lag)
      PROVE  Abstract!Next \/ UNCHANGED Abstract!vars
  BY <1>2, FailureClaims, MovedOutcome DEF RecordFailure, purchase
<1>3. ASSUME NEW kind \in Errors, FailStep(w, kind)
      PROVE  Abstract!Next \/ UNCHANGED Abstract!vars
  BY <1>3, Unseen DEF FailStep, purchase
<1>4. QED
  BY <1>1, <1>2, <1>3, WriteRefines DEF Work

(* The outcome only moves with the claim: a deleted transaction was        *)
(* recorded, and a tick of the clock changes no status.                    *)
LEMMA OutsideRefines ==
  ASSUME TypeInvariant, OrderInvariant', NEW p \in Payments,
         Enqueue(p) \/ Operator(p) \/ Settle(p)
  PROVE  Abstract!Next \/ UNCHANGED Abstract!vars
<1>1. CASE Enqueue(p) \/ Resolve(p)
  BY <1>1, OutsideClaims, MovedOutcome DEF Enqueue, Resolve, purchase
<1>2. ASSUME NEW lag \in Lags, Requeue(p, lag)
      PROVE  Abstract!Next \/ UNCHANGED Abstract!vars
  BY <1>2, OutsideClaims, MovedOutcome DEF Requeue, purchase
<1>3. CASE Settle(p)
  BY <1>3, Unseen DEF Settle
<1>4. CASE DeleteTransaction(p)
  <2>1. /\ txn[p] = "completed" /\ txn' = [txn EXCEPT ![p] = "deleted"]
        /\ UNCHANGED <<claims, plantings, rewards, placed, cart, outputs>>
    BY <1>4 DEF DeleteTransaction, purchase
  <2>2. \A q \in Payments : (txn[q] # "none") = (txn'[q] # "none")
    BY <2>1 DEF TypeInvariant, TypeOK
  <2>3. \A q \in Payments : CountOf(q)' = CountOf(q) /\ OutcomeOf(q)' = OutcomeOf(q)
    BY <2>1, <2>2 DEF CountOf, OutcomeOf, Once
  <2>4. QED
    BY <2>1, <2>3, NoEffect
<1>5. QED
  BY <1>1, <1>2, <1>3, <1>4 DEF Operator

LEMMA TickRefines ==
  ASSUME TypeInvariant, ClosedRows, Tick
  PROVE  UNCHANGED Abstract!vars
<1>1. UNCHANGED <<plantings, durable>>
  BY DEF Tick, purchase
<1>2. \A q \in Payments : CountOf(q)' = CountOf(q) /\ OutcomeOf(q)' = OutcomeOf(q)
  BY <1>1, TickClaims DEF CountOf, OutcomeOf, durable
<1>3. QED
  BY <1>1, <1>2, NoEffect

LEMMA NextRefines ==
  TypeInvariant /\ OrderInvariant /\ OrderInvariant' /\ ClosedRows /\ [Next]_vars
    => Abstract!Next \/ UNCHANGED Abstract!vars
<1> SUFFICES ASSUME TypeInvariant, OrderInvariant, OrderInvariant', ClosedRows, [Next]_vars
             PROVE  Abstract!Next \/ UNCHANGED Abstract!vars
  OBVIOUS
<1>1. ASSUME NEW w \in Workers, Work(w)
      PROVE  Abstract!Next \/ UNCHANGED Abstract!vars
  BY <1>1, WorkRefines
<1>2. ASSUME NEW w \in Workers, Crash(w)
      PROVE  Abstract!Next \/ UNCHANGED Abstract!vars
  BY <1>2, Unseen DEF Crash, purchase
<1>3. ASSUME NEW w \in Workers, NEW p \in Payments, Claim(w, p)
      PROVE  Abstract!Next \/ UNCHANGED Abstract!vars
  BY <1>3, ClaimClaims, MovedOutcome DEF Claim, Acquire, AcquireExhausted, purchase
<1>4. ASSUME NEW w \in Workers, NEW lag \in Lags, Heartbeat(w, lag)
      PROVE  Abstract!Next \/ UNCHANGED Abstract!vars
  BY <1>4, FrameClaims, MovedOutcome DEF Heartbeat, purchase
<1>5. ASSUME NEW p \in Payments, Enqueue(p) \/ Operator(p) \/ Settle(p)
      PROVE  Abstract!Next \/ UNCHANGED Abstract!vars
  BY <1>5, OutsideRefines
<1>6. CASE Tick
  BY <1>6, TickRefines
<1>7. CASE UNCHANGED vars
  BY <1>7, Unseen DEF vars, purchase
<1>8. QED
  BY <1>1, <1>2, <1>3, <1>4, <1>5, <1>6, <1>7 DEF Next

LEMMA InitRefines == Init => Abstract!Init
<1> SUFFICES ASSUME Init
             PROVE  Abstract!Init
  OBVIOUS
<1>1. ASSUME NEW p \in Payments
      PROVE  CountOf(p) = [i \in 1..6 |-> 0]
  <2>1. /\ rewards[p] = 0 /\ placed[p] = 0 /\ Once(cart[p] # "new") = 0
        /\ Once(cart[p] = "paid") = 0 /\ Once(txn[p] # "none") = 0 /\ Once(outputs[p]) = 0
    BY DEF Init, Once
  <2>2. QED
    BY <2>1, TupleFields DEF CountOf
<1>2. ASSUME NEW p \in Payments
      PROVE  OutcomeOf(p) = "open"
  BY DEF Init, OutcomeOf, NoRow
<1>3. Seals \in [Payments -> SUBSET (1..6)]
  BY DEF Seals, SealedOf
<1>4. /\ Counts = [p \in Payments |-> [i \in 1..6 |-> 0]]
      /\ Outcomes = [p \in Payments |-> "open"]
  BY <1>1, <1>2 DEF Counts, Outcomes
<1>5. QED
  BY <1>3, <1>4 DEF Abstract!Init, Counts, Outcomes, Seals, CountOf, OutcomeOf, SealedOf

(* The processing of paid sessions implements PaidCheckout: however often  *)
(* it is taken over, fails or is reviewed, the effects of a payment happen *)
(* once each and in order, the sealed ones never under review, and a       *)
(* completed payment has them all (processPaidCheckoutSession under        *)
(* withStripePaymentProcessingLock).                                       *)
THEOREM PaidCheckoutRefined == Spec => ImplementsPaidCheckout
<1>1. TypeInvariant /\ OrderInvariant /\ OrderInvariant' /\ ClosedRows /\ [Next]_vars
        => [Abstract!Next]_(Abstract!vars)
  BY NextRefines
<1>2. QED
  BY <1>1, InitRefines, SafetyInvariant, PTL DEF Spec, ImplementsPaidCheckout, Abstract!Spec
=============================================================================
