------------------------ MODULE StripeCheckoutAttempt ------------------------
(***************************************************************************)
(* The durable checkout attempts of one cart and the Stripe sessions they  *)
(* lead to.  An attempt freezes the cart before Stripe is asked for a      *)
(* session, is bound to the session when the answer arrives, and is        *)
(* released when the session completed, expired or was cancelled, or, for  *)
(* an answer that never arrived, when two scans of Stripe after the        *)
(* deadline found no session.                                              *)
(*                                                                         *)
(* Browser tabs start, resume and cancel checkouts; passes of a cron       *)
(* reconcile attempts without a session; webhooks and payment workers      *)
(* fulfil.  Each may stop anywhere.  An attempt is the record its events   *)
(* fold to, every transition holds the lock of the cart row.  `clock` is   *)
(* the time of the application and the database; Stripe's lags behind.     *)
(***************************************************************************)
EXTENDS Integers

CONSTANTS
  Attempts, Sessions,      \* identities of attempts and of Stripe sessions
  NoAttempt, NoSession,
  Contents, NoContent,     \* what can be in the cart
  Tabs,                    \* requests of the customer under way
  Workers,                 \* passes of the reconciliation under way
  Life,                    \* from the start of a checkout to its deadline
  MinLife,                 \* what Stripe demands of a new session's lifetime
  Grace,                   \* STRIPE_CHECKOUT_ORPHAN_MISS_GRACE_MS
  StripeLag,               \* how far Stripe's clock is behind
  MaxTries,                \* maxAttempts of a payment's processing claim
  MaxTime, LastStart       \* bounds on clock and on when a checkout is started

ASSUME AttemptAssumption ==
  /\ NoAttempt \notin Attempts /\ NoSession \notin Sessions /\ NoContent \notin Contents
  /\ Life \in Nat /\ Grace \in Nat \ {0} /\ MaxTime \in Nat
  /\ MinLife \in Nat /\ StripeLag \in Nat /\ StripeLag < MinLife
  /\ MaxTries \in Nat \ {0}
  /\ LastStart \in Nat /\ LastStart <= MaxTime

VARIABLES
  clock,
  cart,        \* status and content of the cart
  attempt,     \* the attempts
  session,     \* the sessions at Stripe
  inflight,    \* attempts with a create request on its way to Stripe
  processing,  \* attempts whose payment a processor has verified
  fulfilled,   \* attempts whose payment has its completed transaction
  tries,       \* of every attempt: claims of its payment in this review cycle
  review,      \* attempts whose payment is under manual review
  tab,
  worker

claims == <<tries, review>>
vars == <<clock, cart, attempt, session, inflight, processing, fulfilled, claims, tab, worker>>

Abandoned == {"expired", "cancelled"}

CartType == [status : {"new", "paid", "deleted"}, content : Contents]

MissType == [observedAt : 0..MaxTime, createdAt : 0..MaxTime]

(* status is "none" before the attempt exists, "active" until released,    *)
(* and then the reason of the release.                                     *)
AttemptType ==
  [status : {"none", "active", "completed"} \cup Abandoned,
   snapshot : Contents \cup {NoContent}, deadline : 0..LastStart + Life,
   session : Sessions \cup {NoSession}, misses : SUBSET MissType]

SessionType ==
  [of : Attempts \cup {NoAttempt}, status : {"none", "open", "paid", "expired"}]

TabType ==
  [pc : {"idle", "build", "sent", "bind", "cancel"}, of : Attempts \cup {NoAttempt},
   session : Sessions \cup {NoSession}, content : Contents \cup {NoContent}, started : 0..MaxTime]

NoMiss == -1

WorkerType ==
  [pc : {"idle", "list", "found", "absent", "observed", "release"},
   of : Attempts \cup {NoAttempt}, session : Sessions \cup {NoSession},
   lastMiss : {NoMiss} \cup 0..MaxTime, observedAt : 0..MaxTime]

(* One type invariant for the module.                                      *)
TypeOK ==
  /\ clock \in 0..MaxTime
  /\ cart \in CartType
  /\ attempt \in [Attempts -> AttemptType]
  /\ session \in [Sessions -> SessionType]
  /\ inflight \subseteq Attempts
  /\ processing \subseteq Attempts /\ fulfilled \subseteq Attempts
  /\ tries \in [Attempts -> 0..MaxTries] /\ review \subseteq Attempts
  /\ tab \in [Tabs -> TabType]
  /\ worker \in [Workers -> WorkerType]

IdleTab ==
  [pc |-> "idle", of |-> NoAttempt, session |-> NoSession, content |-> NoContent, started |-> 0]

IdleWorker ==
  [pc |-> "idle", of |-> NoAttempt, session |-> NoSession, lastMiss |-> NoMiss, observedAt |-> 0]

Init ==
  /\ clock = 0
  /\ cart \in [status : {"new"}, content : Contents]
  /\ attempt = [a \in Attempts |-> [status |-> "none", snapshot |-> NoContent, deadline |-> 0,
                                    session |-> NoSession, misses |-> {}]]
  /\ session = [s \in Sessions |-> [of |-> NoAttempt, status |-> "none"]]
  /\ inflight = {} /\ processing = {} /\ fulfilled = {}
  /\ tries = [a \in Attempts |-> 0] /\ review = {}
  /\ tab = [t \in Tabs |-> IdleTab]
  /\ worker = [w \in Workers |-> IdleWorker]

-----------------------------------------------------------------------------
(* The attempts of the cart.                                               *)

Active(a) == attempt[a].status = "active"

Unbound(a) == Active(a) /\ attempt[a].session = NoSession

(* assertNoActiveStripeCheckoutAttempt refuses while the cart is fenced.   *)
Fenced == \E a \in Attempts : Active(a)

Overdue(a) == attempt[a].deadline <= clock

(* The record after bindStripeCheckoutAttempt: a released attempt or one   *)
(* bound to another session is a conflict, and stays as it is.             *)
Bound(a, s) == IF Unbound(a) THEN [attempt[a] EXCEPT !.session = s] ELSE attempt[a]

(* Mutant of ReleasedBy: a late report releases once more.                 *)
ReleasedByAgain(a, s, reason) ==
  IF attempt[a].session \in {NoSession, s}
  THEN [attempt[a] EXCEPT !.status = reason, !.session = s]
  ELSE attempt[a]

(* The record after releaseLockedStripeCheckoutAttempt: likewise; a        *)
(* released attempt is never released again.                               *)
ReleasedBy(a, s, reason) ==
  IF Active(a) /\ attempt[a].session \in {NoSession, s}
  THEN [attempt[a] EXCEPT !.status = reason, !.session = s]
  ELSE attempt[a]

Bind(a, s) == attempt' = [attempt EXCEPT ![a] = Bound(a, s)]

Release(a, s, reason) == attempt' = [attempt EXCEPT ![a] = ReleasedBy(a, s, reason)]

SessionsOf(a) == {s \in Sessions : session[s].of = a}

(* Mutant of IsLastMiss: the candidate comes without its misses.           *)
IsLastMissUnread(a, t) == a \in Attempts /\ t = NoMiss

(* lastReconciliationMissAt: the latest createdAt, or none.                *)
IsLastMiss(a, t) ==
  IF attempt[a].misses = {} THEN t = NoMiss
  ELSE /\ \E m \in attempt[a].misses : m.createdAt = t
       /\ \A m \in attempt[a].misses : m.createdAt <= t

(* What releaseStripeCheckoutAttemptAfterReconciliationMisses demands: the *)
(* miss observed now and one at least Grace older, both recorded after the *)
(* deadline.                                                               *)
MissedTwice(a, now) ==
  /\ attempt[a].deadline <= now
  /\ \E cur, prev \in attempt[a].misses :
       /\ cur.observedAt = now
       /\ attempt[a].deadline <= cur.createdAt
       /\ attempt[a].deadline <= prev.createdAt
       /\ prev.createdAt + Grace <= cur.createdAt

-----------------------------------------------------------------------------
(* The customer: editing the cart, and requests to check it out.           *)

(* Every mutation of the cart takes the lock of its row and refuses while  *)
(* an attempt is active.                                                   *)
CartMutable == cart.status = "new" /\ ~Fenced

EditCart ==
  /\ CartMutable
  /\ \E c \in Contents \ {cart.content} : cart' = [cart EXCEPT !.content = c]
  /\ UNCHANGED <<clock, attempt, session, inflight, processing, fulfilled, claims, tab, worker>>

DeleteCart ==
  /\ CartMutable
  /\ cart' = [cart EXCEPT !.status = "deleted"]
  /\ UNCHANGED <<clock, attempt, session, inflight, processing, fulfilled, claims, tab, worker>>

(* A request that meets no active attempt builds its snapshot of the cart. *)
StartCheckout(t) ==
  /\ tab[t].pc = "idle"
  /\ CartMutable /\ clock <= LastStart
  /\ tab' = [tab EXCEPT ![t] = [IdleTab EXCEPT !.pc = "build", !.content = cart.content, !.started = clock]]
  /\ UNCHANGED <<clock, cart, attempt, session, inflight, processing, fulfilled, claims, worker>>

CreateAttempt(t, a) ==
  /\ tab[t].pc = "build"
  /\ attempt[a].status = "none"
  /\ CartMutable
  /\ cart.content = tab[t].content
  /\ clock <= LastStart
  /\ attempt' = [attempt EXCEPT ![a] =
       [status |-> "active", snapshot |-> tab[t].content, deadline |-> tab[t].started + Life,
        session |-> NoSession, misses |-> {}]]
  /\ tab' = [tab EXCEPT ![t] = IdleTab]
  /\ UNCHANGED <<clock, cart, session, inflight, processing, fulfilled, claims, worker>>

(* recoverStripeCheckoutAttemptSession for an attempt without a session,   *)
(* new or found active: past the deadline it only waits.                   *)
SendCreate(t, a) ==
  /\ tab[t].pc = "idle"
  /\ Unbound(a) /\ ~Overdue(a)
  /\ inflight' = inflight \cup {a}
  /\ tab' = [tab EXCEPT ![t].pc = "sent", ![t].of = a]
  /\ UNCHANGED <<clock, cart, attempt, session, processing, fulfilled, claims, worker>>

ReceiveSession(t) ==
  /\ tab[t].pc = "sent"
  /\ \E s \in SessionsOf(tab[t].of) : tab' = [tab EXCEPT ![t].pc = "bind", ![t].session = s]
  /\ UNCHANGED <<clock, cart, attempt, session, inflight, processing, fulfilled, claims, worker>>

BindSession(t) ==
  /\ tab[t].pc = "bind"
  /\ Bind(tab[t].of, tab[t].session)
  /\ tab' = [tab EXCEPT ![t] = IdleTab]
  /\ UNCHANGED <<clock, cart, session, inflight, processing, fulfilled, claims, worker>>

(* Mutant of CancelAtStripe: the session is not expired at Stripe.         *)
CancelAtStripeNot(t, s) ==
  /\ tab[t].pc = "idle"
  /\ session[s].status = "open"
  /\ tab' = [tab EXCEPT ![t].pc = "cancel", ![t].of = session[s].of, ![t].session = s]
  /\ UNCHANGED <<clock, cart, attempt, session, inflight, processing, fulfilled, claims, worker>>

(* The cancel route: Stripe expires an open session and refuses any other. *)
CancelAtStripe(t, s) ==
  /\ tab[t].pc = "idle"
  /\ session[s].status = "open"
  /\ session' = [session EXCEPT ![s].status = "expired"]
  /\ tab' = [tab EXCEPT ![t].pc = "cancel", ![t].of = session[s].of, ![t].session = s]
  /\ UNCHANGED <<clock, cart, attempt, inflight, processing, fulfilled, claims, worker>>

CancelAttempt(t) ==
  /\ tab[t].pc = "cancel"
  /\ Release(tab[t].of, tab[t].session, "cancelled")
  /\ tab' = [tab EXCEPT ![t] = IdleTab]
  /\ UNCHANGED <<clock, cart, session, inflight, processing, fulfilled, claims, worker>>

(* A request is refused, times out or dies; what it sent may still arrive. *)
GiveUp(t) ==
  /\ tab[t].pc # "idle"
  /\ tab' = [tab EXCEPT ![t] = IdleTab]
  /\ UNCHANGED <<clock, cart, attempt, session, inflight, processing, fulfilled, claims, worker>>

-----------------------------------------------------------------------------
(* Stripe.                                                                 *)

StripeNow == clock - StripeLag

(* Mutant of IsNewKey: each request has a key of its own.                  *)
IsNewKeyAlways(a) == a \in Attempts

(* The attempt is the idempotency key: a repeated request gets the session *)
(* there is.  The session has the deadline of the attempt.                 *)
IsNewKey(a) == SessionsOf(a) = {}

StripeCreates(a, s) ==
  /\ a \in inflight
  /\ IsNewKey(a)
  /\ session[s].status = "none"
  /\ StripeNow + MinLife <= attempt[a].deadline
  /\ session' = [session EXCEPT ![s] = [of |-> a, status |-> "open"]]
  /\ UNCHANGED <<clock, cart, attempt, inflight, processing, fulfilled, claims, tab, worker>>

RequestEnds(a) ==
  /\ a \in inflight
  /\ inflight' = inflight \ {a}
  /\ UNCHANGED <<clock, cart, attempt, session, processing, fulfilled, claims, tab, worker>>

CustomerPays(s) ==
  /\ session[s].status = "open"
  /\ session' = [session EXCEPT ![s].status = "paid"]
  /\ UNCHANGED <<clock, cart, attempt, inflight, processing, fulfilled, claims, tab, worker>>

StripeExpires(s) ==
  /\ session[s].status = "open"
  /\ attempt[session[s].of].deadline <= StripeNow
  /\ session' = [session EXCEPT ![s].status = "expired"]
  /\ UNCHANGED <<clock, cart, attempt, inflight, processing, fulfilled, claims, tab, worker>>

Tick ==
  /\ clock < MaxTime
  /\ clock' = clock + 1
  /\ UNCHANGED <<cart, attempt, session, inflight, processing, fulfilled, claims, tab, worker>>

-----------------------------------------------------------------------------
(* Ends of sessions.                                                       *)

(* The webhook of an expired session, delivered late or repeatedly; a      *)
(* resumed checkout, the cancel route and a reconciliation that find the   *)
(* session expired do the same.  An expired session stays expired.         *)
ReleaseExpired(s) ==
  /\ session[s].status = "expired"
  /\ Active(session[s].of)
  /\ Release(session[s].of, s, "expired")
  /\ UNCHANGED <<clock, cart, session, inflight, processing, fulfilled, claims, tab, worker>>

(* A webhook or a pass takes the processing claim of a paid session, which *)
(* counts its attempts.  A processor that lost the claim may still be at   *)
(* work: nothing it does here looks at the claim again.                    *)
Claims(s) ==
  LET a == session[s].of
  IN  /\ session[s].status = "paid" /\ Active(a)
      /\ a \notin review /\ tries[a] < MaxTries
      /\ tries' = [tries EXCEPT ![a] = @ + 1]
      /\ processing' = processing \cup {a}

(* reconcileStripeCheckoutAttempt and verifyStripeCheckoutAttemptLiveCart: *)
(* a released attempt or a changed cart is a conflict, a permanent error;  *)
(* PaidMatchesCart says that there never is one.                           *)
VerifyPaid(s) ==
  LET a == session[s].of
  IN  /\ Claims(s)
      /\ a \notin fulfilled
      /\ attempt[a].session \in {NoSession, s}
      /\ cart.status \in {"new", "paid"} /\ cart.content = attempt[a].snapshot
      /\ Bind(a, s)
      /\ UNCHANGED <<clock, cart, session, inflight, fulfilled, review, tab, worker>>

(* Mutant of ReplayPaid: a replay that finds the transaction has nothing to do. *)
ReplayIgnored(s) ==
  /\ session[s].status = "paid" /\ session[s].of \in fulfilled
  /\ UNCHANGED vars

(* A replay finds the transaction: the release is what is left to do.      *)
ReplayPaid(s) ==
  /\ Claims(s)
  /\ session[s].of \in fulfilled
  /\ UNCHANGED <<clock, cart, attempt, session, inflight, fulfilled, review, tab, worker>>

(* The processor does not look at the attempt again.  The cart is paid     *)
(* before the payment has its transaction.                                 *)
PayCart(a) ==
  /\ a \in processing /\ cart.status = "new"
  /\ cart' = [cart EXCEPT !.status = "paid"]
  /\ UNCHANGED <<clock, attempt, session, inflight, processing, fulfilled, claims, tab, worker>>

Fulfil(a) ==
  /\ a \in processing \ fulfilled /\ cart.status = "paid"
  /\ fulfilled' = fulfilled \cup {a}
  /\ UNCHANGED <<clock, cart, attempt, session, inflight, processing, claims, tab, worker>>

(* The last the processor does before the claim is completed.              *)
ReleaseCompleted(s) ==
  LET a == session[s].of
  IN  /\ session[s].status = "paid"
      /\ a \in fulfilled \cap processing
      /\ Release(a, s, "completed")
      /\ processing' = processing \ {a}
      /\ UNCHANGED <<clock, cart, session, inflight, fulfilled, claims, tab, worker>>

(* The processor is killed, loses its claim or fails and may try again.    *)
ProcessorStops(a) ==
  /\ a \in processing
  /\ processing' = processing \ {a}
  /\ UNCHANGED <<clock, cart, attempt, session, inflight, fulfilled, claims, tab, worker>>

(* The processor fails for good or in its last try; or it died in it, or   *)
(* lost its claim, and the next one that asks for the claim finds no try   *)
(* left.                                                                   *)
DeadLetter(a) ==
  /\ a \in processing \/ (tries[a] = MaxTries /\ Active(a))
  /\ processing' = processing \ {a}
  /\ review' = review \cup {a}
  /\ UNCHANGED <<clock, cart, attempt, session, inflight, fulfilled, tries, tab, worker>>

(* An operator's decision; one that resolves the claim against the         *)
(* transaction leaves the attempt as it is.                                *)
RequeuePayment(a) ==
  /\ a \in review
  /\ review' = review \ {a}
  /\ tries' = [tries EXCEPT ![a] = 0]
  /\ UNCHANGED <<clock, cart, attempt, session, inflight, processing, fulfilled, tab, worker>>

-----------------------------------------------------------------------------
(* A reconciliation pass over an attempt without a session.                *)

PickCandidate(w, a) ==
  /\ worker[w].pc = "idle"
  /\ Unbound(a)
  /\ \E t \in {NoMiss} \cup 0..MaxTime :
       /\ IsLastMiss(a, t)
       /\ worker' = [worker EXCEPT ![w] =
            [IdleWorker EXCEPT !.pc = "list", !.of = a, !.lastMiss = t]]
  /\ UNCHANGED <<clock, cart, attempt, session, inflight, processing, fulfilled, claims, tab>>

ListSessions(w) ==
  /\ worker[w].pc = "list"
  /\ \/ /\ SessionsOf(worker[w].of) = {}
        /\ worker' = [worker EXCEPT ![w].pc = "absent"]
     \/ \E s \in SessionsOf(worker[w].of) :
          worker' = [worker EXCEPT ![w].pc = "found", ![w].session = s]
  /\ UNCHANGED <<clock, cart, attempt, session, inflight, processing, fulfilled, claims, tab>>

(* Mutant of ReconcileFound: past its deadline a session is taken to have expired. *)
ReconcileFoundByClock(w) ==
  LET s == worker[w].session
  IN  /\ worker[w].pc = "found"
      /\ IF Overdue(worker[w].of)
         THEN Release(worker[w].of, s, "expired")
         ELSE Bind(worker[w].of, s)
      /\ worker' = [worker EXCEPT ![w] = IdleWorker]
      /\ UNCHANGED <<clock, cart, session, inflight, processing, fulfilled, claims, tab>>

(* An open session is bound; a paid one too, and then processed; an        *)
(* expired one releases the attempt.                                       *)
ReconcileFound(w) ==
  LET s == worker[w].session
  IN  /\ worker[w].pc = "found"
      /\ IF session[s].status = "expired"
         THEN Release(worker[w].of, s, "expired")
         ELSE Bind(worker[w].of, s)
      /\ worker' = [worker EXCEPT ![w] = IdleWorker]
      /\ UNCHANGED <<clock, cart, session, inflight, processing, fulfilled, claims, tab>>

(* Mutant of ObserveAbsence: the time is rounded up.                       *)
ObserveAbsenceRounded(w) ==
  /\ worker[w].pc = "absent"
  /\ worker' = [worker EXCEPT ![w] =
       IF Overdue(@.of) THEN [@ EXCEPT !.pc = "observed", !.observedAt = clock + 1] ELSE IdleWorker]
  /\ UNCHANGED <<clock, cart, attempt, session, inflight, processing, fulfilled, claims, tab>>

(* The clock is read after the scan: before the deadline nothing happens.  *)
ObserveAbsence(w) ==
  /\ worker[w].pc = "absent"
  /\ worker' = [worker EXCEPT ![w] =
       IF Overdue(@.of) THEN [@ EXCEPT !.pc = "observed", !.observedAt = clock] ELSE IdleWorker]
  /\ UNCHANGED <<clock, cart, attempt, session, inflight, processing, fulfilled, claims, tab>>

(* The candidate's last miss, read before the scan, decides whether a      *)
(* release is tried.                                                       *)
HasOldMiss(w) ==
  worker[w].lastMiss # NoMiss /\ worker[w].lastMiss + Grace <= worker[w].observedAt

WithMiss(a, observed) ==
  IF \E m \in attempt[a].misses : m.observedAt = observed
  THEN attempt[a]
  ELSE [attempt[a] EXCEPT !.misses = @ \cup {[observedAt |-> observed, createdAt |-> clock]}]

RecordMiss(w) ==
  /\ worker[w].pc = "observed"
  /\ IF Unbound(worker[w].of)
     THEN /\ attempt' =
               [attempt EXCEPT ![worker[w].of] = WithMiss(worker[w].of, worker[w].observedAt)]
          /\ worker' = [worker EXCEPT ![w] =
               IF HasOldMiss(w) THEN [@ EXCEPT !.pc = "release"] ELSE IdleWorker]
     ELSE /\ worker' = [worker EXCEPT ![w] = IdleWorker]
          /\ UNCHANGED attempt
  /\ UNCHANGED <<clock, cart, session, inflight, processing, fulfilled, claims, tab>>

ReleaseAbsent(w) ==
  LET a == worker[w].of
  IN  /\ worker[w].pc = "release"
      /\ IF Unbound(a) /\ MissedTwice(a, worker[w].observedAt)
         THEN Release(a, NoSession, "expired")
         ELSE UNCHANGED attempt
      /\ worker' = [worker EXCEPT ![w] = IdleWorker]
      /\ UNCHANGED <<clock, cart, session, inflight, processing, fulfilled, claims, tab>>

(* A scan that is not exhaustive, an error, or the end of the invocation;  *)
(* the pass at MaxTime stands for those that are not cut off.              *)
WorkerStops(w) ==
  /\ worker[w].pc # "idle" /\ clock < MaxTime
  /\ worker' = [worker EXCEPT ![w] = IdleWorker]
  /\ UNCHANGED <<clock, cart, attempt, session, inflight, processing, fulfilled, claims, tab>>

-----------------------------------------------------------------------------
TabNext(t) ==
  \/ StartCheckout(t) \/ ReceiveSession(t) \/ BindSession(t) \/ CancelAttempt(t) \/ GiveUp(t)
  \/ \E a \in Attempts : CreateAttempt(t, a) \/ SendCreate(t, a)
  \/ \E s \in Sessions : CancelAtStripe(t, s)

WorkerNext(w) ==
  \/ \E a \in Attempts : PickCandidate(w, a)
  \/ ListSessions(w) \/ ReconcileFound(w) \/ ObserveAbsence(w) \/ RecordMiss(w)
  \/ ReleaseAbsent(w) \/ WorkerStops(w)

SessionNext(s) ==
  \/ \E a \in Attempts : StripeCreates(a, s)
  \/ CustomerPays(s) \/ StripeExpires(s) \/ ReleaseExpired(s)
  \/ VerifyPaid(s) \/ ReplayPaid(s) \/ ReleaseCompleted(s)

AttemptNext(a) ==
  \/ RequestEnds(a) \/ PayCart(a) \/ Fulfil(a) \/ ProcessorStops(a)
  \/ DeadLetter(a) \/ RequeuePayment(a)

(* Everything but the passing of time.                                     *)
Work ==
  \/ EditCart \/ DeleteCart
  \/ \E t \in Tabs : TabNext(t)
  \/ \E w \in Workers : WorkerNext(w)
  \/ \E s \in Sessions : SessionNext(s)
  \/ \E a \in Attempts : AttemptNext(a)

Next == Work \/ Tick

Spec == Init /\ [][Next]_vars

-----------------------------------------------------------------------------
(* Grace is a unit of the clock, longer than an invocation may last and    *)
(* shorter than the cron's period: no pass outlasts a unit.  The bounded   *)
(* clock advances only when each overdue attempt without a session was     *)
(* missed in this unit; with unbounded time it would be missed later.      *)
PatientTick ==
  /\ Tick
  /\ \A w \in Workers : worker[w].pc = "idle"
  /\ \A a \in Attempts : Unbound(a) /\ Overdue(a) /\ SessionsOf(a) = {} =>
       \E m \in attempt[a].misses : m.createdAt = clock

(* A processor moves on or stops.                                          *)
Process(a) ==
  \/ PayCart(a) \/ Fulfil(a) \/ ProcessorStops(a) \/ DeadLetter(a)
  \/ \E s \in SessionsOf(a) : ReleaseCompleted(s)

(* The cron comes back to every candidate (its cursor moves before each    *)
(* one), and some passes are not cut off; the webhook of an expired        *)
(* session repeats, and a recorded claim is taken while it has a try left; *)
(* an open session expires at Stripe; time passes.  No try is assumed to   *)
(* succeed, and nothing of the customer or an operator.                    *)
Fairness ==
  /\ SF_vars(PatientTick)
  /\ \A w \in Workers :
       /\ \A a \in Attempts : SF_vars(PickCandidate(w, a))
       /\ SF_vars(ListSessions(w)) /\ SF_vars(ReconcileFound(w)) /\ SF_vars(ObserveAbsence(w))
       /\ SF_vars(RecordMiss(w)) /\ SF_vars(ReleaseAbsent(w))
  /\ \A s \in Sessions :
       /\ WF_vars(StripeExpires(s)) /\ WF_vars(ReleaseExpired(s))
       /\ WF_vars(VerifyPaid(s) \/ ReplayPaid(s))
  /\ \A a \in Attempts : WF_vars(Process(a))

FairSpec == Init /\ [][Work \/ PatientTick]_vars /\ Fairness

-----------------------------------------------------------------------------
(* Two attempts never fence one cart, however many tabs check it out at    *)
(* once (getActiveStripeCheckoutAttempt throws on more than one).          *)
OneActiveAttempt ==
  \A a, b \in Attempts : Active(a) /\ Active(b) => a = b

Payable(s) == session[s].status \in {"open", "paid"}

(* At no moment can the customer pay, or have paid, in two sessions for    *)
(* one cart: not when a create answer is lost and asked for again, not     *)
(* when a checkout is cancelled or given up and a new one started.         *)
OnePayableSession ==
  \A s, r \in Sessions : Payable(s) /\ Payable(r) => s = r

(* An attempt released as expired or cancelled has no session the customer *)
(* can still pay or has paid, even if Stripe answered after the release    *)
(* was decided (stripeCheckoutRecovery.ts: "Local time alone cannot prove  *)
(* that no session was created").                                          *)
AbandonedIsUnpayable ==
  \A s \in Sessions : Payable(s) => attempt[session[s].of].status \notin Abandoned

(* What the customer paid can be fulfilled: the attempt of a paid session  *)
(* still fences the cart, which is what the customer saw, until the        *)
(* payment is fulfilled.                                                   *)
PaidMatchesCart ==
  \A s \in Sessions :
    LET a == session[s].of
    IN  session[s].status = "paid" /\ a \notin fulfilled =>
          /\ Active(a) /\ attempt[a].session \in {NoSession, s}
          /\ cart.status \in {"new", "paid"} /\ cart.content = attempt[a].snapshot

(* A binding and a release are final: late and repeated reports of tabs,   *)
(* webhooks and passes never rewrite what an attempt led to.               *)
HistoryHolds ==
  [][\A a \in Attempts :
       /\ attempt[a].session # NoSession => attempt'[a].session = attempt[a].session
       /\ attempt[a].status \notin {"none", "active"} => attempt'[a] = attempt[a]]_vars

(* The cart is charged at most once and for its content, and only what     *)
(* cannot be charged is given up (CartCheckout).                           *)
PaidSessions == {s \in Sessions : session[s].status = "paid"}

Phase ==
  IF fulfilled # {} THEN "settled"
  ELSE IF PaidSessions # {} THEN "charged"
  ELSE IF Fenced THEN "checkout"
  ELSE IF cart.status = "new" THEN "shopping" ELSE "deleted"

Checkout ==
  INSTANCE CartCheckout WITH
    Payments <- Sessions,
    Contents <- Contents,
    phase <- Phase,
    content <- cart.content,
    charges <- {<<s, attempt[session[s].of].snapshot>> : s \in PaidSessions}

ImplementsCartCheckout == Checkout!Spec

(* No cart stays fenced for ever: whatever tab died and whatever answer    *)
(* was lost, the attempt is eventually released, or what was paid in it is *)
(* in an operator's hands.                                                 *)
AttemptsEnd ==
  \A a \in Attempts :
    Active(a) ~> attempt[a].status \in Abandoned \cup {"completed"} \/ a \in review

(* A payment is eventually fulfilled and its attempt released as           *)
(* completed, or an operator has it, even if a processor died between the  *)
(* transaction and the release, however often it was tried or requeued.    *)
PaidIsCompleted ==
  \A s \in Sessions, a \in Attempts :
    session[s].status = "paid" /\ session[s].of = a ~>
      attempt[a].status = "completed" \/ a \in review
=============================================================================
