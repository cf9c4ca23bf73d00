-------------------------- MODULE StripeDiscovery --------------------------
(***************************************************************************)
(* Discovery of completed Stripe checkout sessions by the reconciliation   *)
(* cron.  A pass scans a frozen range of creation times, newest first and  *)
(* page by page, and commits each page with the position of the scan in    *)
(* one transaction; passes overlap, stop after any page, are killed, and   *)
(* resume each other's scan.  An exhausted range opens the next one.       *)
(*                                                                         *)
(* A tick is a second: Stripe stamps `created` in seconds on a clock of    *)
(* its own, and the request floors both bounds of the range to seconds.    *)
(*                                                                         *)
(* The revision of the checkpoint is only compared for equality with the   *)
(* one a pass read, and every commit raises it: a pass holds whether its   *)
(* copy is still fresh instead of a number.                                *)
(***************************************************************************)
EXTENDS Integers, FiniteSets

CONSTANTS
  Sessions,   \* checkout sessions, positive numbers
  Delivered,  \* those whose webhook may arrive
  Passes,     \* concurrent invocations of the cron
  PageSize,   \* limit of one provider page
  Overlap,    \* discoveryOverlapMs
  Window,     \* recentCheckoutWindowMs, what the first range looks back
  Skews,      \* how far a `created` stamp may be off the API's clock
  MaxNow      \* bound on the clock

ASSUME DiscoveryAssumption ==
  /\ Sessions \subseteq Nat \ {0} /\ Delivered \subseteq Sessions
  /\ PageSize \in Nat \ {0}
  /\ Overlap \in Nat /\ Window \in Nat /\ Overlap < Window
  /\ Skews \subseteq Int
  /\ MaxNow \in Nat

VARIABLES
  now,         \* the clock of the API
  status,      \* "absent", "open" or "complete", at Stripe
  created,     \* Stripe's stamp
  completedAt, \* when the session completed, on the API's clock
  recorded,    \* sessions with a row in stripe_payment_processing_claims
  checkpoint,  \* the row of stripe_payment_discovery_checkpoints
  passes,      \* the invocations
  origin       \* lower bound of the first range (history)

stripe == <<status, created, completedAt>>
vars == <<now, stripe, recorded, checkpoint, passes, origin>>

NoSession == 0

(* exhaustiveUpperBound always equals rangeLte, so lte stands for both.    *)
CheckpointType ==
  [set : BOOLEAN, gte : Int, lte : Int, after : Sessions \cup {NoSession}]

Unset == [set |-> FALSE, gte |-> 0, lte |-> 0, after |-> NoSession]

OpenRange(gte, lte) == [set |-> TRUE, gte |-> gte, lte |-> lte, after |-> NoSession]

PassType ==
  [pc : {"idle", "begin", "init", "ready", "fetched", "exhausted"},
   now : Int, cp : CheckpointType, fresh : BOOLEAN,
   page : SUBSET Sessions, last : Sessions \cup {NoSession}, more : BOOLEAN]

IdlePass == [pc |-> "idle", now |-> 0, cp |-> Unset, fresh |-> FALSE,
             page |-> {}, last |-> NoSession, more |-> FALSE]

Init ==
  /\ now = 0
  /\ status = [s \in Sessions |-> "absent"]
  /\ created = [s \in Sessions |-> 0]
  /\ completedAt = [s \in Sessions |-> 0]
  /\ recorded = {}
  /\ checkpoint = Unset
  /\ passes = [p \in Passes |-> IdlePass]
  /\ origin = 0
-----------------------------------------------------------------------------
(* Stripe's list: newest first, one fixed order among equal stamps; only   *)
(* complete sessions created in the range, after the cursor.               *)
Before(s, t) == created[s] > created[t] \/ (created[s] = created[t] /\ s > t)

InRange(s, cp) == cp.gte <= created[s] /\ created[s] <= cp.lte

Remaining(cp) ==
  {s \in Sessions : /\ status[s] = "complete" /\ InRange(s, cp)
                    /\ cp.after = NoSession \/ Before(cp.after, s)}

IsPage(page, cp) ==
  /\ page \subseteq Remaining(cp)
  /\ \A s \in page, t \in Remaining(cp) \ page : Before(s, t)
  /\ Cardinality(page) <= PageSize
  /\ page = Remaining(cp) \/ Cardinality(page) = PageSize

IsLast(page, last) ==
  \/ page = {} /\ last = NoSession
  \/ last \in page /\ \A s \in page : s = last \/ Before(s, last)

FetchedPass(pass, page, last) ==
  [pass EXCEPT !.pc = "fetched", !.page = page, !.last = last,
               !.more = (page # Remaining(pass.cp))]

Later(a, b) == IF a >= b THEN a ELSE b
-----------------------------------------------------------------------------
(* A commit makes every other copy of the checkpoint stale.                *)
Committed(p, cp, pass) ==
  /\ checkpoint' = cp
  /\ passes' = [q \in Passes |-> IF q = p THEN pass ELSE [passes[q] EXCEPT !.fresh = FALSE]]

Start(p) ==
  /\ passes[p].pc = "idle"
  /\ passes' = [passes EXCEPT ![p] = [IdlePass EXCEPT !.pc = "begin", !.now = now]]
  /\ UNCHANGED <<now, stripe, recorded, checkpoint, origin>>

ReadCheckpoint(p) ==
  /\ passes[p].pc = "begin"
  /\ passes' = [passes EXCEPT ![p].pc = IF checkpoint.set THEN "ready" ELSE "init",
                              ![p].cp = checkpoint, ![p].fresh = TRUE]
  /\ UNCHANGED <<now, stripe, recorded, checkpoint, origin>>

(* The first range looks a window back from the invocation's clock; a pass *)
(* that comes second takes the range of the first.                         *)
Initialize(p) ==
  LET first == OpenRange(passes[p].now - Window, passes[p].now) IN
  /\ passes[p].pc = "init"
  /\ IF passes[p].fresh
     THEN /\ Committed(p, first, [passes[p] EXCEPT !.pc = "ready", !.cp = first])
          /\ origin' = first.gte
     ELSE /\ passes' = [passes EXCEPT ![p].pc = "ready", ![p].cp = checkpoint, ![p].fresh = TRUE]
          /\ UNCHANGED <<checkpoint, origin>>
  /\ UNCHANGED <<now, stripe, recorded>>

Fetch(p) ==
  /\ passes[p].pc = "ready"
  /\ \E page \in SUBSET Remaining(passes[p].cp), last \in Sessions \cup {NoSession} :
       /\ IsPage(page, passes[p].cp)
       /\ IsLast(page, last)
       /\ passes' = [passes EXCEPT ![p] = FetchedPass(@, page, last)]
  /\ UNCHANGED <<now, stripe, recorded, checkpoint, origin>>

(* Mutant: the next range begins where the exhausted one ended. *)
NextCheckpointNoOverlap(pass) ==
  IF pass.more
  THEN [pass.cp EXCEPT !.after = pass.last]
  ELSE OpenRange(pass.cp.lte, Later(pass.now, pass.cp.lte))

(* Mutant: the next range reaches back from the clock of the invocation. *)
NextCheckpointFromNow(pass) ==
  IF pass.more
  THEN [pass.cp EXCEPT !.after = pass.last]
  ELSE OpenRange(pass.now - Overlap, Later(pass.now, pass.cp.lte))

(* Mutant: the next range ends at the clock of the invocation. *)
NextCheckpointUpToNow(pass) ==
  IF pass.more
  THEN [pass.cp EXCEPT !.after = pass.last]
  ELSE OpenRange(pass.cp.lte - Overlap, pass.now)

(* The rest of the frozen range, or the next range.                        *)
NextCheckpoint(pass) ==
  IF pass.more
  THEN [pass.cp EXCEPT !.after = pass.last]
  ELSE OpenRange(pass.cp.lte - Overlap, Later(pass.now, pass.cp.lte))

(* Mutant: the last page of any range counts. *)
ExhaustedAnyRange(pass) == ~pass.more

(* The last page of a range that reaches this invocation's clock.          *)
ExhaustedThroughInvocation(pass) == ~pass.more /\ pass.cp.lte >= pass.now

(* An exhausted pass is done; any other goes on from what it committed.    *)
AfterCommit(pass, next) ==
  IF ExhaustedThroughInvocation(pass)
  THEN [IdlePass EXCEPT !.pc = "exhausted", !.now = pass.now]
  ELSE [IdlePass EXCEPT !.pc = "ready", !.now = pass.now, !.cp = next, !.fresh = TRUE]

(* The page and the position after it, in one transaction, if nobody       *)
(* committed since the copy was read.                                      *)
Commit(p) ==
  LET pass == passes[p]  next == NextCheckpoint(pass) IN
  /\ pass.pc = "fetched"
  /\ pass.fresh
  /\ recorded' = recorded \cup pass.page
  /\ Committed(p, next, AfterCommit(pass, next))
  /\ UNCHANGED <<now, stripe, origin>>

Stale(p) ==
  /\ passes[p].pc = "fetched"
  /\ ~passes[p].fresh
  /\ passes' = [passes EXCEPT ![p] = IdlePass]
  /\ UNCHANGED <<now, stripe, recorded, checkpoint, origin>>

(* Page limit or time budget reached, a provider or database error, the    *)
(* end of a scan, or the platform killing the pass.                        *)
Stop(p) ==
  /\ passes[p].pc # "idle"
  /\ passes' = [passes EXCEPT ![p] = IdlePass]
  /\ UNCHANGED <<now, stripe, recorded, checkpoint, origin>>
-----------------------------------------------------------------------------
(* Stripe creates and completes sessions; a delivered webhook records one. *)
Create(s) ==
  /\ status[s] = "absent"
  /\ status' = [status EXCEPT ![s] = "open"]
  /\ \E skew \in Skews :
       /\ now + skew <= MaxNow
       /\ created' = [created EXCEPT ![s] = now + skew]
  /\ UNCHANGED <<now, completedAt, recorded, checkpoint, passes, origin>>

CompleteSession(s) ==
  /\ status[s] = "open"
  /\ status' = [status EXCEPT ![s] = "complete"]
  /\ completedAt' = [completedAt EXCEPT ![s] = now]
  /\ UNCHANGED <<now, created, recorded, checkpoint, passes, origin>>

Webhook(s) ==
  /\ s \in Delivered \ recorded /\ status[s] = "complete"
  /\ recorded' = recorded \cup {s}
  /\ UNCHANGED <<now, stripe, checkpoint, passes, origin>>

Tick ==
  /\ now < MaxNow
  /\ now' = now + 1
  /\ UNCHANGED <<stripe, recorded, checkpoint, passes, origin>>
-----------------------------------------------------------------------------
Work(p) == ReadCheckpoint(p) \/ Initialize(p) \/ Fetch(p) \/ Commit(p) \/ Stale(p)

Next ==
  \/ \E p \in Passes : Start(p) \/ Work(p) \/ Stop(p)
  \/ \E s \in Sessions : Create(s) \/ CompleteSession(s) \/ Webhook(s)
  \/ Tick

Spec == Init /\ [][Next]_vars

(* Fairness: the cron keeps being started, a pass moves on or is stopped,  *)
(* and passes are not stopped for ever just before a commit that would     *)
(* have succeeded (one page takes seconds of a minute).                    *)
Fairness ==
  /\ WF_vars(\E p \in Passes : Start(p))
  /\ \A p \in Passes : WF_vars(Work(p) \/ Stop(p))
  /\ SF_vars(\E p \in Passes : ReadCheckpoint(p))
  /\ SF_vars(\E p \in Passes : Fetch(p) /\ passes[p].fresh)
  /\ SF_vars(\E p \in Passes : Commit(p))
  /\ SF_vars(\E p \in Passes : Initialize(p))

FairSpec == Spec /\ Fairness
-----------------------------------------------------------------------------
(* Type invariant.  A range is never empty: the repository would refuse    *)
(* it, and the scan could not go on (normalizeDiscoveryCheckpointNext).    *)
TypeOK ==
  /\ now \in 0..MaxNow
  /\ status \in [Sessions -> {"absent", "open", "complete"}]
  /\ created \in [Sessions -> Int]
  /\ completedAt \in [Sessions -> 0..MaxNow]
  /\ recorded \subseteq Sessions
  /\ checkpoint \in CheckpointType /\ checkpoint.gte <= checkpoint.lte
  /\ passes \in [Passes -> PassType]
  /\ origin \in Int

(* A session that completes within the overlap of its creation stamp.      *)
Timely(s) ==
  /\ status[s] = "complete"
  /\ created[s] >= origin
  /\ completedAt[s] - created[s] <= Overlap

(* Where the ranges exhausted so far end; the first range has no           *)
(* predecessor.                                                            *)
RolledForward == checkpoint.set /\ checkpoint.gte # origin

ExhaustedThrough == checkpoint.gte + Overlap

(* No timely session is skipped: once the scan has rolled forward, every   *)
(* session stamped and completed before the end of the exhausted ranges    *)
(* has a claim, however many passes shared the scan, were killed between   *)
(* pages or read pages that others committed, and although sessions        *)
(* complete while the list is being read (runDiscovery and                 *)
(* commitStripePaymentDiscoveryCheckpoint).                                *)
TimelySessionsAreRecorded ==
  RolledForward =>
    \A s \in Sessions :
      (Timely(s) /\ created[s] <= ExhaustedThrough /\ completedAt[s] < ExhaustedThrough)
        => s \in recorded

(* What the cron reports: a pass that declares its range exhausted through *)
(* the invocation leaves no timely session unrecorded that was stamped and *)
(* completed before the invocation began.                                  *)
ExhaustedReportIsTrue ==
  \A p \in Passes : passes[p].pc = "exhausted" =>
    \A s \in Sessions :
      (Timely(s) /\ created[s] <= passes[p].now /\ completedAt[s] < passes[p].now)
        => s \in recorded

(* A timely session is recorded even if every webhook is lost.             *)
TimelyIsRecorded == \A s \in Sessions : Timely(s) ~> s \in recorded
=============================================================================
