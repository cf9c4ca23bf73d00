--------------------------- MODULE StripeRecovery ---------------------------
(***************************************************************************)
(* The recovery half of the reconciliation cron.  Invocations share one    *)
(* durable cursor over the claims of stripe_payment_processing_claims: a   *)
(* cycle freezes the highest scheduler id, takes the due claims one by one *)
(* in the order of their ids, moving the cursor before a claim is worked   *)
(* on, and ends when no due claim is left above the cursor.                *)
(*                                                                         *)
(* What an attempt does is in StripePaymentClaims; here a claim is only    *)
(* due, busy (leased), waiting (for its next attempt), under review or     *)
(* completed, and an attempt may end in any way it can.  As in             *)
(* StripeDiscovery a pass holds whether its copy of the revision is fresh. *)
(***************************************************************************)
EXTENDS Naturals

CONSTANTS
  Ids,     \* scheduler ids
  Passes   \* concurrent invocations of the cron

ASSUME RecoveryAssumption == Ids \subseteq Nat \ {0}

VARIABLES
  claim,    \* status of the claim with each id
  cursor,   \* the row of stripe_payment_recovery_cursors
  passes,   \* the invocations
  owed,     \* due since the cycle began and not yet offered (history)
  offered   \* candidates of the cycle (history)

history == <<owed, offered>>
vars == <<claim, cursor, passes, history>>

None == 0

Statuses == {"absent", "due", "busy", "waiting", "review", "completed"}

(* How an attempt may end.                                                 *)
Outcomes == {"waiting", "review", "completed"}

NoCycle == [after |-> None, through |-> None]

PassType ==
  [pc : {"idle", "ready", "taken", "working", "complete"},
   fresh : BOOLEAN, id : Ids \cup {None}, owns : BOOLEAN]

IdlePass == [pc |-> "idle", fresh |-> FALSE, id |-> None, owns |-> FALSE]

ReadyPass == [IdlePass EXCEPT !.pc = "ready", !.fresh = TRUE]

NextCandidate(pass) == [pass EXCEPT !.pc = "ready", !.id = None, !.owns = FALSE]

Init ==
  /\ claim = [i \in Ids |-> "absent"]
  /\ cursor = NoCycle
  /\ passes = [p \in Passes |-> IdlePass]
  /\ owed = {}
  /\ offered = {}
-----------------------------------------------------------------------------
Present == {i \in Ids : claim[i] # "absent"}

(* Where a cycle may end: its frozen end, or at its start the highest id.  *)
Ends ==
  IF cursor.through # None THEN {cursor.through}
  ELSE IF Present = {} THEN {None}
  ELSE {h \in Present : \A i \in Present : i <= h}

(* Mutant: the frozen end of the cycle is not used. *)
RecoverableToTheEnd(through) ==
  {i \in Ids : claim[i] = "due" /\ cursor.after < i}

(* Mutant: the position of the cursor is not used. *)
RecoverableFromStart(through) ==
  {i \in Ids : claim[i] = "due" /\ i <= through}

(* The claims of the cycle still to come.                                  *)
Recoverable(through) ==
  {i \in Ids : claim[i] = "due" /\ cursor.after < i /\ i <= through}

(* Mutant: the newest first. *)
IsLastOf(i, ids) == i \in ids /\ \A j \in ids : j <= i

IsFirst(i, ids) == i \in ids /\ \A j \in ids : i <= j

(* History: what the cycle owes, and has offered, when it goes on.         *)
Owed(through) ==
  IF cursor.through = None THEN {i \in Ids : claim[i] = "due" /\ i <= through} ELSE owed

Offered == IF cursor.through = None THEN {} ELSE offered

(* Moving the cursor raises its revision.                                  *)
Moved(p, next, pass) ==
  /\ cursor' = next
  /\ passes' = [q \in Passes |-> IF q = p THEN pass ELSE [passes[q] EXCEPT !.fresh = FALSE]]
-----------------------------------------------------------------------------
Start(p) ==
  /\ passes[p].pc = "idle"
  /\ passes' = [passes EXCEPT ![p] = ReadyPass]
  /\ UNCHANGED <<claim, cursor, history>>

(* One transaction: the next candidate, and the cursor on it.              *)
Take(p) ==
  /\ passes[p].pc = "ready" /\ passes[p].fresh
  /\ \E through \in Ends, i \in Ids :
       /\ IsFirst(i, Recoverable(through))
       /\ Moved(p, [after |-> i, through |-> through],
                [passes[p] EXCEPT !.pc = "taken", !.id = i])
       /\ owed' = Owed(through) \ {i}
       /\ offered' = Offered \cup {i}
  /\ UNCHANGED claim

(* Nothing is left: the next take begins a new cycle.                      *)
CompleteCycle(p) ==
  /\ passes[p].pc = "ready" /\ passes[p].fresh
  /\ \E through \in Ends :
       /\ Recoverable(through) = {}
       /\ Moved(p, NoCycle, [IdlePass EXCEPT !.pc = "complete"])
       /\ owed' = Owed(through)
       /\ offered' = Offered
  /\ UNCHANGED claim

(* A stale revision: the row comes back and the pass tries again with it.  *)
StaleRead(p) ==
  /\ passes[p].pc = "ready" /\ ~passes[p].fresh
  /\ passes' = [passes EXCEPT ![p].fresh = TRUE]
  /\ UNCHANGED <<claim, cursor, history>>

(* The claim of the candidate is acquired, or closed for review when its   *)
(* attempts are used up; the pass goes on either way.                      *)
Acquire(p) ==
  LET i == passes[p].id IN
  /\ passes[p].pc = "taken" /\ claim[i] = "due"
  /\ \/ /\ claim' = [claim EXCEPT ![i] = "busy"]
        /\ passes' = [passes EXCEPT ![p] = [@ EXCEPT !.pc = "working", !.owns = TRUE]]
     \/ /\ claim' = [claim EXCEPT ![i] = "review"]
        /\ passes' = [passes EXCEPT ![p] = NextCandidate(@)]
  /\ owed' = owed \ {i}
  /\ UNCHANGED <<cursor, offered>>

(* A claim that is no longer due when its turn comes is left alone.        *)
Unavailable(p) ==
  /\ passes[p].pc = "taken" /\ claim[passes[p].id] # "due"
  /\ passes' = [passes EXCEPT ![p] = NextCandidate(@)]
  /\ UNCHANGED <<claim, cursor, history>>

(* The attempt ends, by a result or a failure, for its owner; a lost claim *)
(* is not touched.  Either way the pass goes on to the next candidate.     *)
EndAttempt(p) ==
  /\ passes[p].pc = "working"
  /\ IF passes[p].owns
     THEN \E status \in Outcomes :
            claim' = [claim EXCEPT ![passes[p].id] = status]
     ELSE UNCHANGED claim
  /\ passes' = [passes EXCEPT ![p] = NextCandidate(@)]
  /\ UNCHANGED <<cursor, history>>

(* The limits or the budget of the invocation are reached, an error leaves *)
(* the loop, the cycle is reported, or the platform kills the invocation.  *)
Stop(p) ==
  /\ passes[p].pc # "idle"
  /\ passes' = [passes EXCEPT ![p] = IdlePass]
  /\ UNCHANGED <<claim, cursor, history>>
-----------------------------------------------------------------------------
(* Meanwhile: discovery and webhooks insert claims, whose ids need not     *)
(* appear in order; webhooks work on claims; leases run out; retries fall  *)
(* due; an operator requeues a claim under review.                         *)
Enqueue(i) ==
  /\ claim[i] = "absent"
  /\ claim' = [claim EXCEPT ![i] = "due"]
  /\ UNCHANGED <<cursor, passes, history>>

WebhookAcquire(i) ==
  /\ \/ claim[i] \in {"absent", "due"} /\ claim' = [claim EXCEPT ![i] = "busy"]
     \/ claim[i] = "due" /\ claim' = [claim EXCEPT ![i] = "review"]
  /\ owed' = owed \ {i}
  /\ UNCHANGED <<cursor, passes, offered>>

Owned(i) == \E p \in Passes : passes[p].owns /\ passes[p].id = i

WebhookEnd(i) ==
  /\ claim[i] = "busy" /\ ~Owned(i)
  /\ \E status \in Outcomes : claim' = [claim EXCEPT ![i] = status]
  /\ UNCHANGED <<cursor, passes, history>>

Expire(i) ==
  /\ claim[i] = "busy"
  /\ claim' = [claim EXCEPT ![i] = "due"]
  /\ passes' = [p \in Passes |-> IF passes[p].id = i THEN [passes[p] EXCEPT !.owns = FALSE]
                                                     ELSE passes[p]]
  /\ UNCHANGED <<cursor, history>>

FallDue(i) ==
  /\ claim[i] \in {"waiting", "review"}
  /\ claim' = [claim EXCEPT ![i] = "due"]
  /\ UNCHANGED <<cursor, passes, history>>
-----------------------------------------------------------------------------
Work(p) == Take(p) \/ CompleteCycle(p) \/ StaleRead(p) \/ Acquire(p) \/ Unavailable(p) \/ EndAttempt(p)

Next ==
  \/ \E p \in Passes : Start(p) \/ Work(p) \/ Stop(p)
  \/ \E i \in Ids : Enqueue(i) \/ WebhookAcquire(i) \/ WebhookEnd(i) \/ Expire(i) \/ FallDue(i)

Spec == Init /\ [][Next]_vars

(* Fairness: the cron keeps being started, a pass moves on or stops, and   *)
(* neither the move of the cursor nor the acquisition of a taken claim,    *)
(* each one short transaction, is cut off for ever.                        *)
Fairness ==
  /\ WF_vars(\E p \in Passes : Start(p))
  /\ \A p \in Passes : WF_vars(Work(p) \/ Stop(p))
  /\ SF_vars(\E p \in Passes : Take(p) \/ CompleteCycle(p))
  /\ \A i \in Ids : SF_vars(\E p \in Passes : passes[p].id = i /\ Acquire(p))

FairSpec == Spec /\ Fairness
-----------------------------------------------------------------------------
(* Type invariant; the cursor is in the cycle that it is a position of.    *)
TypeOK ==
  /\ claim \in [Ids -> Statuses]
  /\ cursor \in [after : Ids \cup {None}, through : Ids \cup {None}]
  /\ cursor.after <= cursor.through
  /\ passes \in [Passes -> PassType]
  /\ owed \subseteq Ids
  /\ offered \subseteq Ids

(* A cycle passes nobody over: a claim that was due when the cycle began   *)
(* and stayed due is offered before the cycle ends, whatever the passes    *)
(* and the webhooks did in between (takeNextRecoverableStripePayment-      *)
(* Candidate).                                                             *)
CycleOffersAllDue == cursor.through = None => owed = {}

(* A claim is offered once in a cycle, however often it fails or its lease *)
(* runs out, so a poisoned claim costs one attempt per cycle.              *)
OfferedOnce ==
  \A p \in Passes :
    (passes[p].pc = "ready" /\ passes'[p].pc = "taken" /\ cursor.through # None)
      => passes'[p].id \notin offered

OncePerCycle == [][OfferedOnce]_vars

(* A due claim is eventually taken up, although others fail for ever.      *)
DueIsServed == \A i \in Ids : claim[i] = "due" ~> claim[i] # "due"
=============================================================================
