-------------------- MODULE StripeCheckoutAttemptProofs --------------------
(***************************************************************************)
(* Theorems about StripeCheckoutAttempt for every set of attempts,         *)
(* sessions, tabs and passes and every life, grace and clock lag that      *)
(* Stripe's minimum lifetime allows: a cart has one active attempt, what   *)
(* was abandoned cannot be paid, there is one payable session, and the     *)
(* checkout implements CartCheckout.                                       *)
(***************************************************************************)
EXTENDS StripeCheckoutAttempt, TLAPS

Known(a) == attempt[a].status # "none"

(* A session is created for an attempt, one for each, and an attempt is    *)
(* bound to its own.                                                       *)
Sessionship ==
  /\ \A a \in inflight : Known(a)
  /\ \A s \in Sessions :
       /\ session[s].of = NoAttempt <=> session[s].status = "none"
       /\ session[s].of # NoAttempt => Known(session[s].of)
  /\ \A s, r \in Sessions : session[s].of # NoAttempt /\ session[s].of = session[r].of => s = r
  /\ \A a \in Attempts : attempt[a].session # NoSession => session[attempt[a].session].of = a

(* A miss is recorded after the deadline.                                  *)
MissesAreLate ==
  \A a \in Attempts : \A m \in attempt[a].misses :
    attempt[a].deadline <= m.createdAt /\ m.createdAt <= clock

(* The session of an abandoned attempt has expired; if it has none, it is  *)
(* too late to create one.                                                 *)
AbandonedHasEnded ==
  \A a \in Attempts : attempt[a].status \in Abandoned =>
    /\ \A s \in Sessions : session[s].of = a => session[s].status = "expired"
    /\ SessionsOf(a) = {} => attempt[a].deadline <= clock

(* What can be paid is of an active attempt, and what was paid is either   *)
(* of an active attempt or fulfilled.                                      *)
PayableIsKept ==
  \A s \in Sessions :
    /\ session[s].status = "open" => Active(session[s].of)
    /\ session[s].status = "paid" => Active(session[s].of) \/ session[s].of \in fulfilled

(* Fulfilment follows a payment, and is for the last attempt of the cart.  *)
Fulfilment ==
  /\ \A a \in processing \cup fulfilled :
       \E s \in Sessions : session[s].of = a /\ session[s].status = "paid"
  /\ \A a \in processing : Active(a)
  /\ \A a \in Attempts : attempt[a].status = "completed" => a \in fulfilled
  /\ \A a \in fulfilled : Active(a) \/ attempt[a].status = "completed"
  /\ \A a \in fulfilled, b \in Attempts : Active(b) \/ b \in fulfilled => a = b
  /\ fulfilled # {} => cart.status = "paid"

(* An active attempt holds the cart as it was.                             *)
CartIsHeld ==
  \A a \in Attempts : Active(a) =>
    /\ cart.content = attempt[a].snapshot
    /\ \/ cart.status = "new"
       \/ /\ cart.status = "paid"
          /\ \E s \in Sessions : session[s].of = a /\ session[s].status = "paid"

Durable ==
  /\ OneActiveAttempt /\ Sessionship /\ MissesAreLate /\ AbandonedHasEnded
  /\ PayableIsKept /\ Fulfilment /\ CartIsHeld

(* What a request has read is still true when it uses it.                  *)
TabHolds(x) ==
  /\ x.started <= clock
  /\ x.pc \in {"sent", "bind", "cancel"} => x.of \in Attempts /\ Known(x.of)
  /\ x.pc \in {"bind", "cancel"} => x.session \in Sessions /\ session[x.session].of = x.of
  /\ x.pc = "cancel" => session[x.session].status = "expired"
  /\ x.pc = "build" => x.content \in Contents

(* So it is for a pass; the absence a pass saw lasts if there had been a   *)
(* miss before it.                                                         *)
WorkerHolds(x) ==
  x.pc # "idle" =>
    /\ x.of \in Attempts /\ Known(x.of)
    /\ x.pc = "found" => x.session \in Sessions /\ session[x.session].of = x.of
    /\ x.lastMiss # NoMiss => attempt[x.of].deadline <= x.lastMiss /\ x.lastMiss <= clock
    /\ x.pc \in {"observed", "release"} =>
         attempt[x.of].deadline <= x.observedAt /\ x.observedAt <= clock
    /\ x.pc \in {"absent", "observed", "release"} /\ x.lastMiss # NoMiss => SessionsOf(x.of) = {}
    /\ x.pc = "release" => x.lastMiss # NoMiss

Inv ==
  /\ TypeOK /\ Durable
  /\ \A t \in Tabs : TabHolds(tab[t])
  /\ \A w \in Workers : WorkerHolds(worker[w])
-----------------------------------------------------------------------------
(***************************************************************************)
(* Type correctness.                                                       *)
(***************************************************************************)

(* Replacing one entry of a function keeps its type.                       *)
LEMMA Replaced ==
  ASSUME NEW D, NEW R, NEW f \in [D -> R], NEW d \in D, NEW r \in R
  PROVE  [f EXCEPT ![d] = r] \in [D -> R]
  OBVIOUS

(* The records of tabs.                                                    *)
LEMMA TabRecords ==
  ASSUME NEW x \in TabType
  PROVE  /\ IdleTab \in TabType
         /\ \A c \in Contents, i \in 0..MaxTime :
              [IdleTab EXCEPT !.pc = "build", !.content = c, !.started = i] \in TabType
         /\ \A a \in Attempts : [x EXCEPT !.pc = "sent", !.of = a] \in TabType
         /\ \A s \in Sessions : [x EXCEPT !.pc = "bind", !.session = s] \in TabType
         /\ \A a \in Attempts \cup {NoAttempt}, s \in Sessions :
              [x EXCEPT !.pc = "cancel", !.of = a, !.session = s] \in TabType
<1>1. 0 \in 0..MaxTime
  BY AttemptAssumption DEF AttemptAssumption
<1>2. QED
  BY <1>1 DEF TabType, IdleTab

(* The records of passes.                                                  *)
LEMMA WorkerRecords ==
  ASSUME NEW x \in WorkerType
  PROVE  /\ IdleWorker \in WorkerType
         /\ \A a \in Attempts, i \in {NoMiss} \cup 0..MaxTime :
              [IdleWorker EXCEPT !.pc = "list", !.of = a, !.lastMiss = i] \in WorkerType
         /\ [x EXCEPT !.pc = "absent"] \in WorkerType
         /\ [x EXCEPT !.pc = "release"] \in WorkerType
         /\ \A s \in Sessions : [x EXCEPT !.pc = "found", !.session = s] \in WorkerType
         /\ \A i \in 0..MaxTime : [x EXCEPT !.pc = "observed", !.observedAt = i] \in WorkerType
<1>1. 0 \in 0..MaxTime
  BY AttemptAssumption DEF AttemptAssumption
<1>2. QED
  BY <1>1 DEF WorkerType, IdleWorker

(* The records of attempts.                                                *)
LEMMA AttemptRecords ==
  ASSUME TypeOK, NEW a \in Attempts
  PROVE  /\ \A s \in Sessions : Bound(a, s) \in AttemptType
         /\ \A s \in Sessions \cup {NoSession}, r \in Abandoned \cup {"completed"} :
              ReleasedBy(a, s, r) \in AttemptType
         /\ \A i \in 0..MaxTime : WithMiss(a, i) \in AttemptType
<1>1. attempt[a] \in AttemptType /\ clock \in 0..MaxTime
  BY DEF TypeOK
<1>2. \A i \in 0..MaxTime : [observedAt |-> i, createdAt |-> clock] \in MissType
  BY <1>1 DEF MissType
<1>3. QED
  BY <1>1, <1>2 DEF Bound, ReleasedBy, WithMiss, AttemptType

(* Every step keeps the types: a checkout starts before its attempt is     *)
(* created, so the deadline is in range.                                   *)
LEMMA TypeStep ==
  ASSUME TypeOK, Sessionship,
         \A t \in Tabs : TabHolds(tab[t]), \A w \in Workers : WorkerHolds(worker[w]),
         [Next]_vars
  PROVE  TypeOK'
<1> USE DEF TypeOK, claims
<1>1. ASSUME EditCart \/ DeleteCart PROVE TypeOK'
  <2>1. /\ \A c \in Contents : [cart EXCEPT !.content = c] \in CartType
        /\ [cart EXCEPT !.status = "deleted"] \in CartType
    BY DEF CartType
  <2>2. QED
    BY <1>1, <2>1 DEF EditCart, DeleteCart
<1>2. ASSUME NEW t \in Tabs, StartCheckout(t) PROVE TypeOK'
  <2>1. [IdleTab EXCEPT !.pc = "build", !.content = cart.content, !.started = clock] \in TabType
    BY TabRecords DEF CartType
  <2>2. QED
    BY <1>2, <2>1 DEF StartCheckout
<1>3. ASSUME NEW t \in Tabs, NEW a \in Attempts, CreateAttempt(t, a) PROVE TypeOK'
  <2> DEFINE new == [status |-> "active", snapshot |-> tab[t].content,
                     deadline |-> tab[t].started + Life, session |-> NoSession, misses |-> {}]
  <2>1. tab[t] \in TabType /\ IdleTab \in TabType
    BY TabRecords
  <2>2. tab[t].started + Life \in 0..LastStart + Life
    <3>1. tab[t].started \in 0..MaxTime /\ tab[t].started <= clock
      BY <2>1 DEF TabType, TabHolds
    <3>2. clock <= LastStart
      BY <1>3 DEF CreateAttempt
    <3>3. QED
      BY <3>1, <3>2, AttemptAssumption DEF AttemptAssumption
  <2>3. new \in AttemptType
    BY <2>1, <2>2 DEF AttemptType, TabType
  <2>4. attempt' = [attempt EXCEPT ![a] = new]
    BY <1>3 DEF CreateAttempt
  <2>5. attempt' \in [Attempts -> AttemptType]
    BY <2>3, <2>4, Replaced
  <2>6. QED
    BY <1>3, <2>1, <2>5 DEF CreateAttempt
<1>4. ASSUME NEW t \in Tabs, NEW a \in Attempts, SendCreate(t, a) PROVE TypeOK'
  <2>1. [tab[t] EXCEPT !.pc = "sent", !.of = a] \in TabType
    BY TabRecords
  <2>2. tab' = [tab EXCEPT ![t] = [tab[t] EXCEPT !.pc = "sent", !.of = a]]
    BY <1>4 DEF SendCreate
  <2>3. QED
    BY <1>4, <2>1, <2>2 DEF SendCreate
<1>5. ASSUME NEW t \in Tabs, ReceiveSession(t) PROVE TypeOK'
  <2>1. PICK s \in Sessions : tab' = [tab EXCEPT ![t].pc = "bind", ![t].session = s]
    BY <1>5 DEF ReceiveSession, SessionsOf
  <2>2. tab' = [tab EXCEPT ![t] = [tab[t] EXCEPT !.pc = "bind", !.session = s]]
    BY <2>1
  <2>3. [tab[t] EXCEPT !.pc = "bind", !.session = s] \in TabType
    BY TabRecords
  <2>4. QED
    BY <1>5, <2>2, <2>3 DEF ReceiveSession
<1>6. ASSUME NEW t \in Tabs, BindSession(t) \/ CancelAttempt(t) PROVE TypeOK'
  <2>1. tab[t].of \in Attempts /\ tab[t].session \in Sessions
    BY <1>6 DEF BindSession, CancelAttempt, TabHolds
  <2>2. attempt' \in [Attempts -> AttemptType]
    BY <1>6, <2>1, AttemptRecords DEF BindSession, CancelAttempt, Bind, Release, Abandoned
  <2>3. QED
    BY <1>6, <2>2, TabRecords DEF BindSession, CancelAttempt
<1>7. ASSUME NEW t \in Tabs, GiveUp(t) PROVE TypeOK'
  BY <1>7, TabRecords DEF GiveUp
<1>8. ASSUME NEW t \in Tabs, NEW s \in Sessions, CancelAtStripe(t, s) PROVE TypeOK'
  <2>1. session[s] \in SessionType
    OBVIOUS
  <2>2. [session[s] EXCEPT !.status = "expired"] \in SessionType
    BY <2>1 DEF SessionType
  <2>3. [tab[t] EXCEPT !.pc = "cancel", !.of = session[s].of, !.session = s] \in TabType
    BY <2>1, TabRecords DEF SessionType
  <2>4. /\ session' = [session EXCEPT ![s] = [session[s] EXCEPT !.status = "expired"]]
        /\ tab' = [tab EXCEPT ![t] =
             [tab[t] EXCEPT !.pc = "cancel", !.of = session[s].of, !.session = s]]
    BY <1>8 DEF CancelAtStripe
  <2>5. QED
    BY <1>8, <2>2, <2>3, <2>4 DEF CancelAtStripe
<1>9. ASSUME NEW s \in Sessions, NEW a \in Attempts, StripeCreates(a, s) PROVE TypeOK'
  <2>1. [of |-> a, status |-> "open"] \in SessionType
    BY DEF SessionType
  <2>2. QED
    BY <1>9, <2>1 DEF StripeCreates
<1>10. ASSUME NEW s \in Sessions, CustomerPays(s) \/ StripeExpires(s) PROVE TypeOK'
  <2>1. /\ [session[s] EXCEPT !.status = "paid"] \in SessionType
        /\ [session[s] EXCEPT !.status = "expired"] \in SessionType
    BY DEF SessionType
  <2>2. session' \in [Sessions -> SessionType]
    BY <1>10, <2>1 DEF CustomerPays, StripeExpires
  <2>3. QED
    BY <1>10, <2>2 DEF CustomerPays, StripeExpires
<1>11. ASSUME NEW s \in Sessions,
              ReleaseExpired(s) \/ VerifyPaid(s) \/ ReplayPaid(s) \/ ReleaseCompleted(s)
       PROVE  TypeOK'
  <2>1. session[s].of \in Attempts
    <3>1. session[s] \in SessionType /\ session[s].status # "none"
      BY <1>11 DEF ReleaseExpired, VerifyPaid, ReplayPaid, Claims, ReleaseCompleted
    <3>2. QED
      BY <3>1 DEF SessionType, Sessionship
  <2>2. CASE ReleaseExpired(s) \/ ReleaseCompleted(s)
    BY <2>1, <2>2, AttemptRecords DEF ReleaseExpired, ReleaseCompleted, Release, Abandoned
  <2>3. Claims(s) => /\ processing' \subseteq Attempts
                     /\ tries' \in [Attempts -> 0..MaxTries]
    <3>1. tries[session[s].of] \in 0..MaxTries /\ MaxTries \in Nat
      BY <2>1, AttemptAssumption DEF AttemptAssumption
    <3>2. QED
      BY <2>1, <3>1 DEF Claims
  <2>4. CASE VerifyPaid(s)
    BY <2>1, <2>3, <2>4, AttemptRecords DEF VerifyPaid, Bind
  <2>5. CASE ReplayPaid(s)
    BY <2>3, <2>5 DEF ReplayPaid
  <2>6. QED
    BY <1>11, <2>2, <2>4, <2>5
<1>12. ASSUME NEW a \in Attempts,
              RequestEnds(a) \/ PayCart(a) \/ Fulfil(a) \/ ProcessorStops(a) \/ DeadLetter(a)
                \/ RequeuePayment(a)
       PROVE  TypeOK'
  <2>1. [cart EXCEPT !.status = "paid"] \in CartType
    BY DEF CartType
  <2>2. 0 \in 0..MaxTries
    BY AttemptAssumption DEF AttemptAssumption
  <2>3. QED
    BY <1>12, <2>1, <2>2
       DEF RequestEnds, PayCart, Fulfil, ProcessorStops, DeadLetter, RequeuePayment
<1>13. ASSUME NEW w \in Workers, NEW a \in Attempts, PickCandidate(w, a) PROVE TypeOK'
  <2>1. PICK i \in {NoMiss} \cup 0..MaxTime : worker' = [worker EXCEPT ![w] =
          [IdleWorker EXCEPT !.pc = "list", !.of = a, !.lastMiss = i]]
    BY <1>13 DEF PickCandidate
  <2>2. [IdleWorker EXCEPT !.pc = "list", !.of = a, !.lastMiss = i] \in WorkerType
    BY WorkerRecords
  <2>3. QED
    BY <1>13, <2>1, <2>2 DEF PickCandidate
<1>14. ASSUME NEW w \in Workers, ListSessions(w) PROVE TypeOK'
  <2> DEFINE found(s) == [worker[w] EXCEPT !.pc = "found", !.session = s]
             absent == [worker[w] EXCEPT !.pc = "absent"]
  <2>1. absent \in WorkerType /\ \A s \in Sessions : found(s) \in WorkerType
    BY WorkerRecords
  <2>2. \/ worker' = [worker EXCEPT ![w] = absent]
        \/ \E s \in Sessions : worker' = [worker EXCEPT ![w] = found(s)]
    BY <1>14 DEF ListSessions, SessionsOf
  <2>3. worker' \in [Workers -> WorkerType]
    <3> HIDE DEF found, absent
    <3>1. ASSUME NEW s \in Sessions, worker' = [worker EXCEPT ![w] = found(s)]
          PROVE  worker' \in [Workers -> WorkerType]
      BY <2>1, <3>1
    <3>2. QED
      BY <2>1, <2>2, <3>1
  <2>4. QED
    BY <1>14, <2>3 DEF ListSessions
<1>15. ASSUME NEW w \in Workers, ReconcileFound(w) \/ ReleaseAbsent(w) PROVE TypeOK'
  <2>1. worker[w].of \in Attempts /\ (ReconcileFound(w) => worker[w].session \in Sessions)
    BY <1>15 DEF ReconcileFound, ReleaseAbsent, WorkerHolds
  <2>2. attempt' \in [Attempts -> AttemptType]
    BY <1>15, <2>1, AttemptRecords DEF ReconcileFound, ReleaseAbsent, Bind, Release, Abandoned
  <2>3. QED
    BY <1>15, <2>2, WorkerRecords DEF ReconcileFound, ReleaseAbsent
<1>16. ASSUME NEW w \in Workers, ObserveAbsence(w) PROVE TypeOK'
  <2> DEFINE observed == [worker[w] EXCEPT !.pc = "observed", !.observedAt = clock]
  <2>1. observed \in WorkerType /\ IdleWorker \in WorkerType
    BY WorkerRecords
  <2>2. worker' = [worker EXCEPT ![w] = IF Overdue(worker[w].of) THEN observed ELSE IdleWorker]
    BY <1>16 DEF ObserveAbsence
  <2>3. QED
    BY <1>16, <2>1, <2>2 DEF ObserveAbsence
<1>17. ASSUME NEW w \in Workers, RecordMiss(w) PROVE TypeOK'
  <2>1. worker[w].of \in Attempts /\ worker[w].observedAt \in 0..MaxTime
    BY <1>17 DEF RecordMiss, WorkerHolds, WorkerType
  <2>2. attempt' \in [Attempts -> AttemptType]
    BY <1>17, <2>1, AttemptRecords DEF RecordMiss
  <2>3. worker' \in [Workers -> WorkerType]
    <3> DEFINE releasing == [worker[w] EXCEPT !.pc = "release"]
    <3>1. releasing \in WorkerType /\ IdleWorker \in WorkerType
      BY WorkerRecords
    <3>2. \/ worker' = [worker EXCEPT ![w] = releasing]
          \/ worker' = [worker EXCEPT ![w] = IdleWorker]
      BY <1>17 DEF RecordMiss
    <3>3. QED
      BY <3>1, <3>2
  <2>4. UNCHANGED <<clock, cart, session, inflight, processing, fulfilled, tries, review, tab>>
    BY <1>17 DEF RecordMiss
  <2>5. QED
    BY <2>2, <2>3, <2>4
<1>18. ASSUME NEW w \in Workers, WorkerStops(w) PROVE TypeOK'
  BY <1>18, WorkerRecords DEF WorkerStops
<1>19. ASSUME Tick PROVE TypeOK'
  BY <1>19, AttemptAssumption DEF Tick, AttemptAssumption
<1>20. ASSUME UNCHANGED vars PROVE TypeOK'
  BY <1>20 DEF vars
<1>21. QED
  BY <1>1, <1>2, <1>3, <1>4, <1>5, <1>6, <1>7, <1>8, <1>9, <1>10, <1>11, <1>12, <1>13, <1>14,
     <1>15, <1>16, <1>17, <1>18, <1>19, <1>20
     DEF Next, Work, TabNext, WorkerNext, SessionNext, AttemptNext
-----------------------------------------------------------------------------
(***************************************************************************)
(* The steps by what they do to the durable state.                         *)
(***************************************************************************)

Quiet ==
  /\ UNCHANGED <<cart, attempt, session, processing, fulfilled>>
  /\ clock <= clock'
  /\ \A a \in inflight' : a \in inflight \/ Known(a)

ChangesCart ==
  /\ CartMutable
  /\ cart'.status = "new" \/ (cart'.status = "deleted" /\ cart'.content = cart.content)
  /\ UNCHANGED <<clock, attempt, session, inflight, processing, fulfilled>>

(* Only the attempt a changes, which keeps its snapshot and its deadline.  *)
Only(a) == \A b \in Attempts : b # a => attempt'[b] = attempt[b]

Keeps(a) ==
  /\ attempt'[a].snapshot = attempt[a].snapshot
  /\ attempt'[a].deadline = attempt[a].deadline

Creates(a) ==
  /\ attempt[a].status = "none" /\ CartMutable /\ Only(a)
  /\ attempt'[a].status = "active" /\ attempt'[a].snapshot = cart.content
  /\ attempt'[a].session = NoSession /\ attempt'[a].misses = {}
  /\ UNCHANGED <<clock, cart, session, inflight, processing, fulfilled>>

Binds(a, s) ==
  /\ session[s].of = a
  /\ Unbound(a) /\ Only(a) /\ Keeps(a)
  /\ attempt'[a].status = attempt[a].status /\ attempt'[a].misses = attempt[a].misses
  /\ attempt'[a].session = s
  /\ UNCHANGED <<clock, cart, session, inflight, fulfilled>>
  /\ \/ UNCHANGED processing
     \/ session[s].status = "paid" /\ processing' = processing \cup {a}

Processes(a, s) ==
  /\ session[s].of = a /\ session[s].status = "paid"
  /\ Active(a) /\ processing' = processing \cup {a}
  /\ UNCHANGED <<clock, cart, attempt, session, inflight, fulfilled>>

Misses(a) ==
  /\ Unbound(a) /\ attempt[a].deadline <= clock /\ Only(a) /\ Keeps(a)
  /\ attempt'[a].status = attempt[a].status /\ attempt'[a].session = attempt[a].session
  /\ \A m \in attempt'[a].misses : m \in attempt[a].misses \/ m.createdAt = clock
  /\ UNCHANGED <<clock, cart, session, inflight, processing, fulfilled>>

Releases(a, s) ==
  /\ Active(a) /\ attempt[a].session \in {NoSession, s} /\ Only(a) /\ Keeps(a)
  /\ attempt'[a].misses = attempt[a].misses /\ attempt'[a].session = s
  /\ UNCHANGED <<clock, cart, session, inflight, fulfilled>>

Abandons(a, s) ==
  /\ Releases(a, s) /\ attempt'[a].status \in Abandoned /\ UNCHANGED processing
  /\ \/ s \in Sessions /\ session[s].of = a /\ session[s].status = "expired"
     \/ s = NoSession /\ SessionsOf(a) = {} /\ attempt[a].deadline <= clock

Completes(a, s) ==
  /\ Releases(a, s) /\ attempt'[a].status = "completed"
  /\ session[s].of = a /\ a \in fulfilled /\ processing' = processing \ {a}

(* Only the session s changes; it is Stripe's.                             *)
ChangesSession(s) ==
  /\ \A r \in Sessions : r # s => session'[r] = session[r]
  /\ UNCHANGED <<clock, cart, attempt, inflight, processing, fulfilled>>

Opens(a, s) ==
  /\ a \in inflight /\ SessionsOf(a) = {} /\ clock < attempt[a].deadline
  /\ session[s].status = "none"
  /\ session'[s].of = a /\ session'[s].status = "open"
  /\ ChangesSession(s)

Closes(s) ==
  /\ session[s].status = "open"
  /\ session'[s].of = session[s].of /\ session'[s].status \in {"paid", "expired"}
  /\ ChangesSession(s)

PaysCart(a) ==
  /\ a \in processing /\ cart.status = "new"
  /\ cart'.status = "paid" /\ cart'.content = cart.content
  /\ UNCHANGED <<clock, attempt, session, inflight, processing, fulfilled>>

Fulfils(a) ==
  /\ a \in processing \ fulfilled /\ cart.status = "paid"
  /\ fulfilled' = fulfilled \cup {a}
  /\ UNCHANGED <<clock, cart, attempt, session, inflight, processing>>

StopsProcessing(a) ==
  /\ a \in processing
  /\ processing' = processing \ {a}
  /\ UNCHANGED <<clock, cart, attempt, session, inflight, fulfilled>>

Effect ==
  \/ Quiet \/ ChangesCart
  \/ \E a \in Attempts : Creates(a) \/ Misses(a) \/ PaysCart(a) \/ Fulfils(a) \/ StopsProcessing(a)
  \/ \E s \in Sessions : Closes(s)
  \/ \E a \in Attempts, s \in Sessions :
       Binds(a, s) \/ Processes(a, s) \/ Completes(a, s) \/ Opens(a, s)
  \/ \E a \in Attempts, s \in Sessions \cup {NoSession} : Abandons(a, s)

(* What a binding, a release and a miss do to a record.                    *)
LEMMA BindEffect ==
  ASSUME TypeOK, NEW a \in Attempts, NEW s \in Sessions, Bind(a, s)
  PROVE  \/ attempt' = attempt
         \/ /\ Unbound(a) /\ Only(a) /\ Keeps(a)
            /\ attempt'[a].status = attempt[a].status /\ attempt'[a].misses = attempt[a].misses
            /\ attempt'[a].session = s
<1>1. attempt \in [Attempts -> AttemptType] /\ attempt[a] \in AttemptType
  BY DEF TypeOK
<1>2. CASE Unbound(a)
  BY <1>1, <1>2 DEF Bind, Bound, Only, Keeps, AttemptType
<1>3. CASE ~Unbound(a)
  <2>1. attempt' = [attempt EXCEPT ![a] = attempt[a]]
    BY <1>3 DEF Bind, Bound
  <2>2. QED
    BY <1>1, <2>1
<1>4. QED
  BY <1>2, <1>3

LEMMA ReleaseEffect ==
  ASSUME TypeOK, NEW a \in Attempts, NEW s, NEW reason, Release(a, s, reason)
  PROVE  \/ attempt' = attempt
         \/ /\ Active(a) /\ attempt[a].session \in {NoSession, s} /\ Only(a) /\ Keeps(a)
            /\ attempt'[a].misses = attempt[a].misses /\ attempt'[a].session = s
            /\ attempt'[a].status = reason
<1>1. attempt \in [Attempts -> AttemptType] /\ attempt[a] \in AttemptType
  BY DEF TypeOK
<1>2. CASE Active(a) /\ attempt[a].session \in {NoSession, s}
  BY <1>1, <1>2 DEF Release, ReleasedBy, Only, Keeps, AttemptType
<1>3. CASE ~(Active(a) /\ attempt[a].session \in {NoSession, s})
  <2>1. attempt' = [attempt EXCEPT ![a] = attempt[a]]
    BY <1>3 DEF Release, ReleasedBy
  <2>2. QED
    BY <1>1, <2>1
<1>4. QED
  BY <1>2, <1>3

LEMMA MissEffect ==
  ASSUME TypeOK, NEW a \in Attempts, NEW i, attempt' = [attempt EXCEPT ![a] = WithMiss(a, i)]
  PROVE  /\ Only(a) /\ Keeps(a)
         /\ attempt'[a].status = attempt[a].status /\ attempt'[a].session = attempt[a].session
         /\ \A m \in attempt'[a].misses : m \in attempt[a].misses \/ m.createdAt = clock
  BY DEF TypeOK, WithMiss, Only, Keeps, AttemptType

(* Every step has one of these effects.                                    *)
LEMMA StepEffect ==
  ASSUME Inv, [Next]_vars
  PROVE  Effect
<1> USE DEF Inv, Durable
<1>1. ASSUME EditCart \/ DeleteCart PROVE Effect
  BY <1>1 DEF EditCart, DeleteCart, ChangesCart, Effect, CartMutable, TypeOK, CartType
<1>2. ASSUME NEW t \in Tabs, StartCheckout(t) \/ ReceiveSession(t) \/ GiveUp(t) PROVE Effect
  BY <1>2 DEF StartCheckout, ReceiveSession, GiveUp, Quiet, Effect, TypeOK
<1>3. ASSUME NEW t \in Tabs, NEW a \in Attempts, CreateAttempt(t, a) PROVE Effect
  <2> DEFINE new == [status |-> "active", snapshot |-> tab[t].content,
                     deadline |-> tab[t].started + Life, session |-> NoSession, misses |-> {}]
  <2>1. attempt' = [attempt EXCEPT ![a] = new]
    BY <1>3 DEF CreateAttempt
  <2>2. attempt'[a] = new /\ Only(a)
    BY <2>1 DEF TypeOK, Only
  <2>3. Creates(a)
    BY <1>3, <2>2 DEF CreateAttempt, Creates
  <2>4. QED
    BY <2>3 DEF Effect
<1>4. ASSUME NEW t \in Tabs, NEW a \in Attempts, SendCreate(t, a) PROVE Effect
  <2>1. Quiet
    BY <1>4 DEF SendCreate, Quiet, TypeOK, Unbound, Active, Known
  <2>2. QED
    BY <2>1 DEF Effect
<1>5. ASSUME NEW t \in Tabs, BindSession(t) PROVE Effect
  <2>1. /\ tab[t].of \in Attempts /\ tab[t].session \in Sessions
        /\ session[tab[t].session].of = tab[t].of
    BY <1>5 DEF BindSession, TabHolds
  <2>2. Bind(tab[t].of, tab[t].session)
    BY <1>5 DEF BindSession
  <2>3. UNCHANGED <<clock, cart, session, inflight, processing, fulfilled>>
    BY <1>5 DEF BindSession
  <2>4. Quiet \/ Binds(tab[t].of, tab[t].session)
    BY <2>1, <2>2, <2>3, BindEffect DEF Quiet, Binds, TypeOK
  <2>5. QED
    BY <2>1, <2>4 DEF Effect
<1>6. ASSUME NEW t \in Tabs, NEW s \in Sessions, CancelAtStripe(t, s) PROVE Effect
  <2>1. Closes(s)
    BY <1>6 DEF CancelAtStripe, Closes, ChangesSession, TypeOK, SessionType
  <2>2. QED
    BY <2>1 DEF Effect
<1>7. ASSUME NEW t \in Tabs, CancelAttempt(t) PROVE Effect
  <2>1. /\ tab[t].of \in Attempts /\ tab[t].session \in Sessions
        /\ session[tab[t].session].of = tab[t].of /\ session[tab[t].session].status = "expired"
    BY <1>7 DEF CancelAttempt, TabHolds
  <2>2. Release(tab[t].of, tab[t].session, "cancelled")
    BY <1>7 DEF CancelAttempt
  <2>3. UNCHANGED <<clock, cart, session, inflight, processing, fulfilled>>
    BY <1>7 DEF CancelAttempt
  <2>4. Quiet \/ Abandons(tab[t].of, tab[t].session)
    BY <2>1, <2>2, <2>3, ReleaseEffect DEF Quiet, Abandons, Releases, TypeOK, Abandoned
  <2>5. QED
    BY <2>1, <2>4 DEF Effect
<1>8. ASSUME NEW s \in Sessions, NEW a \in Attempts, StripeCreates(a, s) PROVE Effect
  <2>1. clock < attempt[a].deadline
    <3>1. clock \in Int /\ attempt[a].deadline \in Int
      BY DEF TypeOK, AttemptType
    <3>2. clock - StripeLag + MinLife <= attempt[a].deadline
      BY <1>8 DEF StripeCreates, StripeNow
    <3>3. QED
      BY <3>1, <3>2, AttemptAssumption DEF AttemptAssumption
  <2>2. Opens(a, s)
    BY <1>8, <2>1 DEF StripeCreates, IsNewKey, Opens, ChangesSession, TypeOK
  <2>3. QED
    BY <2>2 DEF Effect
<1>9. ASSUME NEW s \in Sessions, CustomerPays(s) \/ StripeExpires(s) PROVE Effect
  <2>1. Closes(s)
    BY <1>9 DEF CustomerPays, StripeExpires, Closes, ChangesSession, TypeOK, SessionType
  <2>2. QED
    BY <2>1 DEF Effect
<1>10. ASSUME NEW s \in Sessions, session[s].status # "none" PROVE session[s].of \in Attempts
  BY <1>10 DEF TypeOK, SessionType, Sessionship
<1>11. ASSUME NEW s \in Sessions, ReleaseExpired(s) PROVE Effect
  <2>1. session[s].of \in Attempts /\ session[s].status = "expired"
    BY <1>10, <1>11 DEF ReleaseExpired
  <2>2. Release(session[s].of, s, "expired")
    BY <1>11 DEF ReleaseExpired
  <2>3. UNCHANGED <<clock, cart, session, inflight, processing, fulfilled>>
    BY <1>11 DEF ReleaseExpired
  <2>4. Quiet \/ Abandons(session[s].of, s)
    BY <2>1, <2>2, <2>3, ReleaseEffect DEF Quiet, Abandons, Releases, TypeOK, Abandoned
  <2>5. QED
    BY <2>1, <2>4 DEF Effect
<1>12. ASSUME NEW s \in Sessions, VerifyPaid(s) PROVE Effect
  <2>1. /\ session[s].of \in Attempts /\ session[s].status = "paid"
        /\ Active(session[s].of) /\ processing' = processing \cup {session[s].of}
        /\ UNCHANGED <<clock, cart, session, inflight, fulfilled>>
    BY <1>10, <1>12 DEF VerifyPaid, Claims
  <2>2. Bind(session[s].of, s)
    BY <1>12 DEF VerifyPaid
  <2>3. Processes(session[s].of, s) \/ Binds(session[s].of, s)
    BY <2>1, <2>2, BindEffect DEF Processes, Binds
  <2>4. QED
    BY <2>1, <2>3 DEF Effect
<1>13. ASSUME NEW s \in Sessions, ReleaseCompleted(s) PROVE Effect
  <2>1. /\ session[s].of \in Attempts
        /\ session[s].of \in fulfilled /\ session[s].of \in processing
    BY <1>10, <1>13 DEF ReleaseCompleted
  <2>2. Release(session[s].of, s, "completed")
    BY <1>13 DEF ReleaseCompleted
  <2>3. /\ processing' = processing \ {session[s].of}
        /\ UNCHANGED <<clock, cart, session, inflight, fulfilled>>
    BY <1>13 DEF ReleaseCompleted
  <2>4. StopsProcessing(session[s].of) \/ Completes(session[s].of, s)
    BY <2>1, <2>2, <2>3, ReleaseEffect DEF StopsProcessing, Completes, Releases
  <2>5. QED
    BY <2>1, <2>4 DEF Effect
<1>14. ASSUME NEW a \in Attempts,
              RequestEnds(a) \/ ProcessorStops(a) \/ DeadLetter(a) \/ RequeuePayment(a)
       PROVE  Effect
  <2>1. CASE DeadLetter(a) /\ a \notin processing
    <3>1. Quiet
      BY <2>1 DEF DeadLetter, Quiet, TypeOK
    <3>2. QED
      BY <3>1 DEF Effect
  <2>2. CASE RequestEnds(a) \/ RequeuePayment(a)
    <3>1. Quiet
      BY <2>2 DEF RequestEnds, RequeuePayment, Quiet, TypeOK
    <3>2. QED
      BY <3>1 DEF Effect
  <2>3. CASE ProcessorStops(a) \/ (DeadLetter(a) /\ a \in processing)
    <3>1. StopsProcessing(a)
      BY <2>3 DEF ProcessorStops, DeadLetter, StopsProcessing
    <3>2. QED
      BY <3>1 DEF Effect
  <2>4. QED
    BY <1>14, <2>1, <2>2, <2>3
<1>15. ASSUME NEW a \in Attempts, PayCart(a) \/ Fulfil(a) PROVE Effect
  <2>1. PaysCart(a) \/ Fulfils(a)
    BY <1>15 DEF PayCart, PaysCart, Fulfil, Fulfils, TypeOK, CartType
  <2>2. QED
    BY <2>1 DEF Effect
<1>16. ASSUME NEW w \in Workers, NEW a \in Attempts, PickCandidate(w, a) PROVE Effect
  BY <1>16 DEF PickCandidate, Quiet, Effect, TypeOK
<1>17. ASSUME NEW w \in Workers, ListSessions(w) \/ ObserveAbsence(w) \/ WorkerStops(w) PROVE Effect
  BY <1>17 DEF ListSessions, ObserveAbsence, WorkerStops, Quiet, Effect, TypeOK
<1>18. ASSUME NEW w \in Workers, ReconcileFound(w) PROVE Effect
  <2> DEFINE a == worker[w].of
             s == worker[w].session
  <2>1. a \in Attempts /\ s \in Sessions /\ session[s].of = a
    BY <1>18 DEF ReconcileFound, WorkerHolds
  <2>2. UNCHANGED <<clock, cart, session, inflight, processing, fulfilled>>
    BY <1>18 DEF ReconcileFound
  <2>3. \/ session[s].status = "expired" /\ Release(a, s, "expired")
        \/ Bind(a, s)
    BY <1>18 DEF ReconcileFound
  <2> HIDE DEF a, s
  <2>4. CASE Bind(a, s)
    <3>1. Quiet \/ Binds(a, s)
      BY <2>1, <2>2, <2>4, BindEffect DEF Quiet, Binds, TypeOK
    <3>2. QED
      BY <2>1, <3>1 DEF Effect
  <2>5. CASE session[s].status = "expired" /\ Release(a, s, "expired")
    <3>1. Quiet \/ Abandons(a, s)
      BY <2>1, <2>2, <2>5, ReleaseEffect DEF Quiet, Abandons, Releases, TypeOK, Abandoned
    <3>2. QED
      BY <2>1, <3>1 DEF Effect
  <2>6. QED
    BY <2>3, <2>4, <2>5
<1>19. ASSUME NEW w \in Workers, RecordMiss(w) PROVE Effect
  <2> DEFINE a == worker[w].of
  <2>1. /\ a \in Attempts /\ attempt[a].deadline <= worker[w].observedAt
        /\ worker[w].observedAt <= clock
    BY <1>19 DEF RecordMiss, WorkerHolds
  <2>2. attempt[a].deadline <= clock
    <3>1. attempt[a].deadline \in Int /\ clock \in Int /\ worker[w].observedAt \in Int
      BY <2>1 DEF TypeOK, AttemptType, WorkerType
    <3>2. QED
      BY <2>1, <3>1
  <2>3. UNCHANGED <<clock, cart, session, inflight, processing, fulfilled>>
    BY <1>19 DEF RecordMiss
  <2>4. \/ attempt' = attempt
        \/ Unbound(a) /\ attempt' = [attempt EXCEPT ![a] = WithMiss(a, worker[w].observedAt)]
    BY <1>19 DEF RecordMiss
  <2> HIDE DEF a
  <2>5. Quiet \/ Misses(a)
    BY <2>1, <2>2, <2>3, <2>4, MissEffect DEF Quiet, Misses, TypeOK
  <2>6. QED
    BY <2>1, <2>5 DEF Effect
<1>20. ASSUME NEW w \in Workers, ReleaseAbsent(w) PROVE Effect
  <2> DEFINE a == worker[w].of
  <2>1. /\ a \in Attempts /\ attempt[a].deadline <= worker[w].observedAt
        /\ worker[w].observedAt <= clock /\ SessionsOf(a) = {}
    BY <1>20 DEF ReleaseAbsent, WorkerHolds
  <2>2. attempt[a].deadline <= clock
    <3>1. attempt[a].deadline \in Int /\ clock \in Int /\ worker[w].observedAt \in Int
      BY <2>1 DEF TypeOK, AttemptType, WorkerType
    <3>2. QED
      BY <2>1, <3>1
  <2>3. UNCHANGED <<clock, cart, session, inflight, processing, fulfilled>>
    BY <1>20 DEF ReleaseAbsent
  <2>4. attempt' = attempt \/ Release(a, NoSession, "expired")
    BY <1>20 DEF ReleaseAbsent
  <2> HIDE DEF a
  <2>5. Quiet \/ Abandons(a, NoSession)
    BY <2>1, <2>2, <2>3, <2>4, ReleaseEffect DEF Quiet, Abandons, Releases, TypeOK, Abandoned
  <2>6. QED
    BY <2>1, <2>5 DEF Effect
<1>21. ASSUME Tick \/ UNCHANGED vars PROVE Effect
  BY <1>21 DEF Tick, vars, Quiet, Effect, TypeOK
<1>22. ASSUME NEW s \in Sessions, ReplayPaid(s) PROVE Effect
  <2>1. session[s].of \in Attempts /\ Processes(session[s].of, s)
    BY <1>10, <1>22 DEF ReplayPaid, Claims, Processes
  <2>2. QED
    BY <2>1 DEF Effect
<1>23. QED
  BY <1>1, <1>2, <1>3, <1>4, <1>5, <1>6, <1>7, <1>8, <1>9, <1>11, <1>12, <1>13, <1>14, <1>15,
     <1>16, <1>17, <1>18, <1>19, <1>20, <1>21, <1>22
     DEF Next, Work, TabNext, WorkerNext, SessionNext, AttemptNext

(* Durable facts change in one direction only: an attempt keeps what it   *)
(* froze, a session its attempt, and none is created after a deadline.    *)
Stable ==
  /\ clock <= clock'
  /\ \A a \in Attempts : Known(a) => attempt'[a].status # "none" /\ Keeps(a)
  /\ \A s \in Sessions :
       /\ session[s].of # NoAttempt => session'[s].of = session[s].of
       /\ session[s].status = "expired" => session'[s].status = "expired"
       /\ session'[s].of # session[s].of =>
            session'[s].of \in Attempts /\ clock < attempt[session'[s].of].deadline

LEMMA StepStable ==
  ASSUME TypeOK, Durable, TypeOK', Effect
  PROVE  Stable
<1> USE DEF Durable, TypeOK, Stable, Known, Keeps, Sessionship, Abandoned
<1>1. ASSUME Quiet \/ ChangesCart
      PROVE  Stable
  BY <1>1 DEF Quiet, ChangesCart
<1>2. ASSUME NEW a \in Attempts, Creates(a)
      PROVE  Stable
  BY <1>2 DEF Creates, Only
<1>3. ASSUME NEW a \in Attempts, Misses(a) \/ PaysCart(a) \/ Fulfils(a) \/ StopsProcessing(a)
      PROVE  Stable
  BY <1>3 DEF Misses, Only, Keeps, PaysCart, Fulfils, StopsProcessing
<1>4. ASSUME NEW a \in Attempts, NEW s \in Sessions, Binds(a, s)
      PROVE  Stable
  BY <1>4 DEF Binds, Only, Keeps, Unbound
<1>5. ASSUME NEW a \in Attempts, NEW s \in Sessions, Processes(a, s)
      PROVE  Stable
  BY <1>5 DEF Processes
<1>6. ASSUME NEW a \in Attempts, NEW s \in Sessions \cup {NoSession}, Abandons(a, s)
      PROVE  Stable
  BY <1>6 DEF Abandons, Releases, Only, Keeps
<1>7. ASSUME NEW a \in Attempts, NEW s \in Sessions, Completes(a, s)
      PROVE  Stable
  BY <1>7 DEF Completes, Releases, Only, Keeps
<1>8. ASSUME NEW a \in Attempts, NEW s \in Sessions, Opens(a, s)
      PROVE  Stable
  BY <1>8 DEF Opens, ChangesSession
<1>9. ASSUME NEW s \in Sessions, Closes(s)
      PROVE  Stable
  BY <1>9 DEF Closes, ChangesSession
<1>10. QED
  BY <1>1, <1>2, <1>3, <1>4, <1>5, <1>6, <1>7, <1>8, <1>9 DEF Effect

(* A second attempt is not created beside an active one.                  *)
LEMMA StepOneActive ==
  ASSUME TypeOK, Durable, TypeOK', Effect
  PROVE  OneActiveAttempt'
<1> USE DEF Durable, TypeOK, OneActiveAttempt, Active, CartMutable, Fenced
<1>1. ASSUME Quiet \/ ChangesCart
      PROVE  OneActiveAttempt'
  BY <1>1 DEF Quiet, ChangesCart
<1>2. ASSUME NEW a \in Attempts, Creates(a)
      PROVE  OneActiveAttempt'
  BY <1>2 DEF Creates, Only
<1>3. ASSUME NEW a \in Attempts, Misses(a) \/ PaysCart(a) \/ Fulfils(a) \/ StopsProcessing(a)
      PROVE  OneActiveAttempt'
  BY <1>3 DEF Misses, Only, Keeps, PaysCart, Fulfils, StopsProcessing
<1>4. ASSUME NEW a \in Attempts, NEW s \in Sessions, Binds(a, s)
      PROVE  OneActiveAttempt'
  BY <1>4 DEF Binds, Only, Keeps, Unbound
<1>5. ASSUME NEW a \in Attempts, NEW s \in Sessions, Processes(a, s)
      PROVE  OneActiveAttempt'
  BY <1>5 DEF Processes
<1>6. ASSUME NEW a \in Attempts, NEW s \in Sessions \cup {NoSession}, Abandons(a, s)
      PROVE  OneActiveAttempt'
  BY <1>6 DEF Abandons, Releases, Only, Keeps
<1>7. ASSUME NEW a \in Attempts, NEW s \in Sessions, Completes(a, s)
      PROVE  OneActiveAttempt'
  BY <1>7 DEF Completes, Releases, Only, Keeps
<1>8. ASSUME NEW a \in Attempts, NEW s \in Sessions, Opens(a, s)
      PROVE  OneActiveAttempt'
  BY <1>8 DEF Opens, ChangesSession
<1>9. ASSUME NEW s \in Sessions, Closes(s)
      PROVE  OneActiveAttempt'
  BY <1>9 DEF Closes, ChangesSession
<1>10. QED
  BY <1>1, <1>2, <1>3, <1>4, <1>5, <1>6, <1>7, <1>8, <1>9 DEF Effect

(* A session is opened only for a known attempt without one.              *)
LEMMA StepSessionship ==
  ASSUME TypeOK, Durable, TypeOK', Effect
  PROVE  Sessionship'
<1> USE DEF Durable, TypeOK, AttemptType, SessionType, Sessionship, Known
<1>1. ASSUME Quiet \/ ChangesCart
      PROVE  Sessionship'
  BY <1>1 DEF Quiet, ChangesCart
<1>2. ASSUME NEW a \in Attempts, Creates(a)
      PROVE  Sessionship'
  <2>1. \A b \in Attempts : Known(b) => attempt'[b].status # "none"
    BY <1>2 DEF Creates, Only, Known, Active, Unbound, Abandoned
  <2>2. \A b \in Attempts : attempt'[b].session # NoSession =>
          session'[attempt'[b].session].of = b
    BY <1>2 DEF Creates, Only
  <2>3. UNCHANGED <<session, inflight>>
    BY <1>2 DEF Creates, Only
  <2>4. QED
    BY <2>1, <2>2, <2>3
<1>3. ASSUME NEW a \in Attempts, Misses(a)
      PROVE  Sessionship'
  <2>1. \A b \in Attempts : Known(b) => attempt'[b].status # "none"
    BY <1>3 DEF Misses, Only, Keeps, Known, Active, Unbound, Abandoned
  <2>2. \A b \in Attempts : attempt'[b].session # NoSession =>
          session'[attempt'[b].session].of = b
    BY <1>3 DEF Misses, Only, Keeps
  <2>3. UNCHANGED <<session, inflight>>
    BY <1>3 DEF Misses, Only, Keeps
  <2>4. QED
    BY <2>1, <2>2, <2>3
<1>4. ASSUME NEW a \in Attempts, PaysCart(a) \/ Fulfils(a) \/ StopsProcessing(a)
      PROVE  Sessionship'
  BY <1>4 DEF PaysCart, Fulfils, StopsProcessing
<1>5. ASSUME NEW a \in Attempts, NEW s \in Sessions, Binds(a, s)
      PROVE  Sessionship'
  <2>1. \A b \in Attempts : Known(b) => attempt'[b].status # "none"
    BY <1>5 DEF Binds, Only, Keeps, Unbound, Known, Active, Unbound, Abandoned
  <2>2. \A b \in Attempts : attempt'[b].session # NoSession =>
          session'[attempt'[b].session].of = b
    BY <1>5 DEF Binds, Only, Keeps, Unbound
  <2>3. UNCHANGED <<session, inflight>>
    BY <1>5 DEF Binds, Only, Keeps, Unbound
  <2>4. QED
    BY <2>1, <2>2, <2>3
<1>6. ASSUME NEW a \in Attempts, NEW s \in Sessions, Processes(a, s)
      PROVE  Sessionship'
  BY <1>6 DEF Processes
<1>7. ASSUME NEW a \in Attempts, NEW s \in Sessions \cup {NoSession}, Abandons(a, s)
      PROVE  Sessionship'
  <2>1. \A b \in Attempts : Known(b) => attempt'[b].status # "none"
    BY <1>7 DEF Abandons, Releases, Only, Keeps, Known, Active, Unbound, Abandoned
  <2>2. \A b \in Attempts : attempt'[b].session # NoSession =>
          session'[attempt'[b].session].of = b
    BY <1>7 DEF Abandons, Releases, Only, Keeps
  <2>3. UNCHANGED <<session, inflight>>
    BY <1>7 DEF Abandons, Releases, Only, Keeps
  <2>4. QED
    BY <2>1, <2>2, <2>3
<1>8. ASSUME NEW a \in Attempts, NEW s \in Sessions, Completes(a, s)
      PROVE  Sessionship'
  <2>1. \A b \in Attempts : Known(b) => attempt'[b].status # "none"
    BY <1>8 DEF Completes, Releases, Only, Keeps, Known, Active, Unbound, Abandoned
  <2>2. \A b \in Attempts : attempt'[b].session # NoSession =>
          session'[attempt'[b].session].of = b
    BY <1>8 DEF Completes, Releases, Only, Keeps
  <2>3. UNCHANGED <<session, inflight>>
    BY <1>8 DEF Completes, Releases, Only, Keeps
  <2>4. QED
    BY <2>1, <2>2, <2>3
<1>9. ASSUME NEW a \in Attempts, NEW s \in Sessions, Opens(a, s)
      PROVE  Sessionship'
  <2>1. Known(a) /\ session[s].of = NoAttempt /\ session'[s].of # NoAttempt
    BY <1>9, AttemptAssumption DEF Opens, AttemptAssumption
  <2>2. \A r \in Sessions : r # s => session[r].of # a
    BY <1>9 DEF Opens, SessionsOf
  <2>3. \A b \in Attempts : attempt[b].session # NoSession => attempt[b].session # s
    <3>1. SUFFICES ASSUME NEW b \in Attempts, attempt[b].session = s PROVE FALSE
      OBVIOUS
    <3>2. session[s].of = b
      BY <3>1, AttemptAssumption DEF AttemptAssumption
    <3>3. QED
      BY <2>1, <3>2, AttemptAssumption DEF AttemptAssumption
  <2>4. \A b \in Attempts : Known(b)' <=> Known(b)
    BY <1>9 DEF Opens, ChangesSession
  <2>5. \A b \in Attempts : attempt[b].session \in Sessions \cup {NoSession}
    OBVIOUS
  <2>6. /\ \A r \in Sessions : r # s => session'[r] = session[r]
        /\ UNCHANGED <<attempt, inflight>> /\ session'[s].of = a /\ session'[s].status = "open"
    BY <1>9 DEF Opens, ChangesSession
  <2>7. \A r \in Sessions : session'[r].of = NoAttempt <=> session'[r].status = "none"
    BY <2>1, <2>6
  <2>8. \A r \in Sessions : session'[r].of # NoAttempt => Known(session'[r].of)
    BY <2>1, <2>6
  <2>9. \A q, r \in Sessions :
          session'[q].of # NoAttempt /\ session'[q].of = session'[r].of => q = r
    BY <2>2, <2>6
  <2>10. \A b \in Attempts :
           attempt[b].session # NoSession => session'[attempt[b].session].of = b
    BY <2>3, <2>5, <2>6
  <2>11. QED
    BY <2>6, <2>7, <2>8, <2>9, <2>10
<1>10. ASSUME NEW s \in Sessions, Closes(s)
      PROVE  Sessionship'
  <2>1. /\ \A r \in Sessions : session'[r].of = session[r].of
        /\ UNCHANGED <<attempt, inflight>>
    BY <1>10 DEF Closes, ChangesSession
  <2>2. \A r \in Sessions : session'[r].status = "none" <=> session[r].status = "none"
    BY <1>10 DEF Closes, ChangesSession
  <2>3. \A b \in Attempts : attempt[b].session \in Sessions \cup {NoSession}
    OBVIOUS
  <2>4. \A b \in Attempts :
          attempt[b].session # NoSession => session'[attempt[b].session].of = b
    BY <2>1, <2>3
  <2>5. QED
    BY <2>1, <2>2, <2>4
<1>11. QED
  BY <1>1, <1>2, <1>3, <1>4, <1>5, <1>6, <1>7, <1>8, <1>9, <1>10 DEF Effect

(* Misses are recorded at the current time, after the deadline.           *)
LEMMA StepMissesAreLate ==
  ASSUME TypeOK, Durable, TypeOK', Effect
  PROVE  MissesAreLate'
<1> USE DEF Durable, TypeOK, AttemptType, MissType, MissesAreLate
<1>1. ASSUME Quiet
      PROVE  MissesAreLate'
  <2>1. \A b \in Attempts : \A m \in attempt[b].misses : m.createdAt \in Int
    BY DEF AttemptType, MissType
  <2>2. QED
    BY <1>1, <2>1 DEF Quiet
<1>2. ASSUME ChangesCart
      PROVE  MissesAreLate'
  BY <1>2 DEF ChangesCart
<1>3. ASSUME NEW a \in Attempts, Creates(a)
      PROVE  MissesAreLate'
  BY <1>3 DEF Creates, Only
<1>4. ASSUME NEW a \in Attempts, Misses(a) \/ PaysCart(a) \/ Fulfils(a) \/ StopsProcessing(a)
      PROVE  MissesAreLate'
  BY <1>4 DEF Misses, Only, Keeps, PaysCart, Fulfils, StopsProcessing
<1>5. ASSUME NEW a \in Attempts, NEW s \in Sessions, Binds(a, s)
      PROVE  MissesAreLate'
  BY <1>5 DEF Binds, Only, Keeps, Unbound
<1>6. ASSUME NEW a \in Attempts, NEW s \in Sessions, Processes(a, s)
      PROVE  MissesAreLate'
  BY <1>6 DEF Processes
<1>7. ASSUME NEW a \in Attempts, NEW s \in Sessions \cup {NoSession}, Abandons(a, s)
      PROVE  MissesAreLate'
  BY <1>7 DEF Abandons, Releases, Only, Keeps
<1>8. ASSUME NEW a \in Attempts, NEW s \in Sessions, Completes(a, s)
      PROVE  MissesAreLate'
  BY <1>8 DEF Completes, Releases, Only, Keeps
<1>9. ASSUME NEW a \in Attempts, NEW s \in Sessions, Opens(a, s)
      PROVE  MissesAreLate'
  BY <1>9 DEF Opens, ChangesSession
<1>10. ASSUME NEW s \in Sessions, Closes(s)
      PROVE  MissesAreLate'
  BY <1>10 DEF Closes, ChangesSession
<1>11. QED
  BY <1>1, <1>2, <1>3, <1>4, <1>5, <1>6, <1>7, <1>8, <1>9, <1>10 DEF Effect

(* An attempt is abandoned when its session has expired or can no longer  *)
(* be created.                                                            *)
LEMMA StepAbandonedHasEnded ==
  ASSUME TypeOK, Durable, TypeOK', Effect
  PROVE  AbandonedHasEnded'
<1> USE DEF Durable, TypeOK, AttemptType, SessionType, AbandonedHasEnded, SessionsOf, Sessionship, Abandoned, Active
<1>1. ASSUME Quiet
      PROVE  AbandonedHasEnded'
  BY <1>1 DEF Quiet
<1>2. ASSUME ChangesCart
      PROVE  AbandonedHasEnded'
  BY <1>2 DEF ChangesCart
<1>3. ASSUME NEW a \in Attempts, Creates(a)
      PROVE  AbandonedHasEnded'
  BY <1>3 DEF Creates, Only
<1>4. ASSUME NEW a \in Attempts, Misses(a) \/ PaysCart(a) \/ Fulfils(a) \/ StopsProcessing(a)
      PROVE  AbandonedHasEnded'
  BY <1>4 DEF Misses, Only, Keeps, PaysCart, Fulfils, StopsProcessing
<1>5. ASSUME NEW a \in Attempts, NEW s \in Sessions, Binds(a, s)
      PROVE  AbandonedHasEnded'
  BY <1>5 DEF Binds, Only, Keeps, Unbound
<1>6. ASSUME NEW a \in Attempts, NEW s \in Sessions, Processes(a, s)
      PROVE  AbandonedHasEnded'
  BY <1>6 DEF Processes
<1>7. ASSUME NEW a \in Attempts, NEW s \in Sessions \cup {NoSession}, Abandons(a, s)
      PROVE  AbandonedHasEnded'
  BY <1>7 DEF Abandons, Releases, Only, Keeps
<1>8. ASSUME NEW a \in Attempts, NEW s \in Sessions, Completes(a, s)
      PROVE  AbandonedHasEnded'
  BY <1>8 DEF Completes, Releases, Only, Keeps
<1>9. ASSUME NEW a \in Attempts, NEW s \in Sessions, Opens(a, s)
      PROVE  AbandonedHasEnded'
  <2>1. attempt[a].status \notin Abandoned
    BY <1>9 DEF Opens
  <2>2. \A b \in Attempts : b # a => SessionsOf(b)' = SessionsOf(b)
    <3>1. session[s].of = NoAttempt /\ NoAttempt \notin Attempts
      BY <1>9, AttemptAssumption DEF Opens, AttemptAssumption
    <3>2. \A b \in Attempts, r \in Sessions :
            b # a => (session'[r].of = b <=> session[r].of = b)
      BY <1>9, <3>1 DEF Opens, ChangesSession
    <3>3. QED
      BY <3>2
  <2>3. \A b \in Attempts, r \in Sessions : attempt[b].status \in Abandoned /\ session'[r].of = b
          => session'[r] = session[r]
    BY <1>9, <2>1 DEF Opens, ChangesSession
  <2>4. UNCHANGED <<attempt, clock>>
    BY <1>9 DEF Opens, ChangesSession
  <2>5. QED
    BY <2>1, <2>2, <2>3, <2>4
<1>10. ASSUME NEW s \in Sessions, Closes(s)
      PROVE  AbandonedHasEnded'
  <2>1. \A b \in Attempts : SessionsOf(b)' = SessionsOf(b)
    <3>1. \A r \in Sessions : session'[r].of = session[r].of
      BY <1>10 DEF Closes, ChangesSession
    <3>2. QED
      BY <3>1
  <2>2. \A b \in Attempts : attempt[b].status \in Abandoned => session[s].of # b
    BY <1>10 DEF Closes
  <2>3. QED
    BY <1>10, <2>1, <2>2 DEF Closes, ChangesSession
<1>11. QED
  BY <1>1, <1>2, <1>3, <1>4, <1>5, <1>6, <1>7, <1>8, <1>9, <1>10 DEF Effect

(* A release leaves no payable session behind.                            *)
LEMMA StepPayableIsKept ==
  ASSUME TypeOK, Durable, TypeOK', Effect
  PROVE  PayableIsKept'
<1> USE DEF Durable, TypeOK, AttemptType, SessionType, PayableIsKept, Active, Sessionship, AbandonedHasEnded,
           Fulfilment, SessionsOf, Abandoned, Known
<1>1. ASSUME Quiet \/ ChangesCart
      PROVE  PayableIsKept'
  BY <1>1 DEF Quiet, ChangesCart
<1>2. ASSUME NEW a \in Attempts, Creates(a)
      PROVE  PayableIsKept'
  BY <1>2 DEF Creates, Only
<1>3. ASSUME NEW a \in Attempts, Misses(a)
      PROVE  PayableIsKept'
  BY <1>3 DEF Misses, Only, Keeps
<1>4. ASSUME NEW a \in Attempts, PaysCart(a) \/ Fulfils(a) \/ StopsProcessing(a)
      PROVE  PayableIsKept'
  BY <1>4 DEF PaysCart, Fulfils, StopsProcessing
<1>5. ASSUME NEW a \in Attempts, NEW s \in Sessions, Binds(a, s)
      PROVE  PayableIsKept'
  BY <1>5 DEF Binds, Only, Keeps, Unbound
<1>6. ASSUME NEW a \in Attempts, NEW s \in Sessions, Processes(a, s)
      PROVE  PayableIsKept'
  BY <1>6 DEF Processes
<1>7. ASSUME NEW a \in Attempts, NEW s \in Sessions \cup {NoSession}, Abandons(a, s)
      PROVE  PayableIsKept'
  BY <1>7 DEF Abandons, Releases, Only, Keeps
<1>8. ASSUME NEW a \in Attempts, NEW s \in Sessions, Completes(a, s)
      PROVE  PayableIsKept'
  BY <1>8 DEF Completes, Releases, Only, Keeps
<1>9. ASSUME NEW a \in Attempts, NEW s \in Sessions, Opens(a, s)
      PROVE  PayableIsKept'
  BY <1>9 DEF Opens, ChangesSession
<1>10. ASSUME NEW s \in Sessions, Closes(s)
      PROVE  PayableIsKept'
  BY <1>10 DEF Closes, ChangesSession
<1>11. QED
  BY <1>1, <1>2, <1>3, <1>4, <1>5, <1>6, <1>7, <1>8, <1>9, <1>10 DEF Effect

(* Fulfilment is of one attempt, which a release does not take away.      *)
LEMMA StepFulfilment ==
  ASSUME TypeOK, Durable, TypeOK', Effect
  PROVE  Fulfilment'
<1> USE DEF Durable, TypeOK, AttemptType, SessionType, Fulfilment, Active, OneActiveAttempt, Sessionship,
           CartMutable, PayableIsKept, Abandoned, SessionsOf
<1>1. ASSUME Quiet \/ ChangesCart
      PROVE  Fulfilment'
  BY <1>1 DEF Quiet, ChangesCart
<1>2. ASSUME NEW a \in Attempts, Creates(a)
      PROVE  Fulfilment'
  BY <1>2 DEF Creates, Only
<1>3. ASSUME NEW a \in Attempts, Misses(a)
      PROVE  Fulfilment'
  <2>1. \A b \in Attempts : attempt'[b].status = attempt[b].status
    BY <1>3 DEF Misses, Only
  <2>2. UNCHANGED <<cart, session, processing, fulfilled>>
    BY <1>3 DEF Misses
  <2>3. QED
    BY <2>1, <2>2
<1>4. ASSUME NEW a \in Attempts, PaysCart(a)
      PROVE  Fulfilment'
  BY <1>4 DEF PaysCart
<1>5. ASSUME NEW a \in Attempts, Fulfils(a)
      PROVE  Fulfilment'
  BY <1>5 DEF Fulfils
<1>6. ASSUME NEW a \in Attempts, StopsProcessing(a)
      PROVE  Fulfilment'
  BY <1>6 DEF StopsProcessing
<1>7. ASSUME NEW a \in Attempts, NEW s \in Sessions, Binds(a, s)
      PROVE  Fulfilment'
  <2>1. /\ \A b \in Attempts : attempt'[b].status = attempt[b].status
        /\ UNCHANGED <<cart, session, fulfilled>>
    BY <1>7 DEF Binds, Only
  <2>2. Active(a) /\ \A b \in processing' : b \in processing \/ (b = a /\ session[s].status = "paid")
    BY <1>7 DEF Binds, Unbound
  <2>3. session[s].of = a
    BY <1>7 DEF Binds
  <2>4. \A b \in processing' \cup fulfilled' :
          \E r \in Sessions : session[r].of = b /\ session[r].status = "paid"
    BY <2>1, <2>2, <2>3
  <2>5. /\ \A b \in processing' : attempt'[b].status = "active"
        /\ \A b \in fulfilled' : attempt'[b].status \in {"active", "completed"}
        /\ \A b \in fulfilled', d \in Attempts :
             attempt'[d].status = "active" \/ d \in fulfilled' => b = d
    BY <2>1, <2>2
  <2>6. QED
    BY <2>1, <2>4, <2>5
<1>8. ASSUME NEW a \in Attempts, NEW s \in Sessions, Processes(a, s)
      PROVE  Fulfilment'
  BY <1>8 DEF Processes
<1>9. ASSUME NEW a \in Attempts, NEW s \in Sessions \cup {NoSession}, Abandons(a, s)
      PROVE  Fulfilment'
  <2>1. /\ \A b \in Attempts : b # a => attempt'[b] = attempt[b]
        /\ attempt'[a].status \in Abandoned /\ UNCHANGED <<cart, session, processing, fulfilled>>
    BY <1>9 DEF Abandons, Releases, Only
  <2>2. \A r \in Sessions : session[r].of = a => session[r].status # "paid"
    BY <1>9, AttemptAssumption DEF Abandons, AttemptAssumption
  <2>3. a \notin processing /\ a \notin fulfilled
    BY <2>2
  <2>4. /\ \A b \in processing : attempt'[b].status = "active"
        /\ \A b \in fulfilled : attempt'[b].status \in {"active", "completed"}
        /\ \A b \in Attempts : attempt'[b].status = "completed" => b \in fulfilled
    BY <2>1, <2>3
  <2>5. \A b \in fulfilled, d \in Attempts : attempt'[d].status = "active" \/ d \in fulfilled => b = d
    BY <2>1, <2>3
  <2>6. QED
    BY <2>1, <2>4, <2>5
<1>10. ASSUME NEW a \in Attempts, NEW s \in Sessions, Completes(a, s)
      PROVE  Fulfilment'
  <2>1. /\ \A b \in Attempts : b # a => attempt'[b] = attempt[b]
        /\ attempt'[a].status = "completed" /\ UNCHANGED <<cart, session, fulfilled>>
        /\ a \in fulfilled /\ processing' = processing \ {a}
    BY <1>10 DEF Completes, Releases, Only
  <2>2. QED
    BY <2>1
<1>11. ASSUME NEW a \in Attempts, NEW s \in Sessions, Opens(a, s)
      PROVE  Fulfilment'
  BY <1>11 DEF Opens, ChangesSession
<1>12. ASSUME NEW s \in Sessions, Closes(s)
      PROVE  Fulfilment'
  BY <1>12 DEF Closes, ChangesSession
<1>13. QED
  BY <1>1, <1>2, <1>3, <1>4, <1>5, <1>6, <1>7, <1>8, <1>9, <1>10, <1>11, <1>12 DEF Effect

(* The cart changes only without an active attempt, or by fulfilment.     *)
LEMMA StepCartIsHeld ==
  ASSUME TypeOK, Durable, TypeOK', Effect
  PROVE  CartIsHeld'
<1> USE DEF Durable, TypeOK, AttemptType, CartIsHeld, Active, OneActiveAttempt, Fulfilment, SessionType, CartMutable, Fenced
<1>1. ASSUME Quiet \/ ChangesCart
      PROVE  CartIsHeld'
  BY <1>1 DEF Quiet, ChangesCart
<1>2. ASSUME NEW a \in Attempts, Creates(a)
      PROVE  CartIsHeld'
  BY <1>2 DEF Creates, Only
<1>3. ASSUME NEW a \in Attempts, Misses(a) \/ PaysCart(a) \/ Fulfils(a) \/ StopsProcessing(a)
      PROVE  CartIsHeld'
  BY <1>3 DEF Misses, Only, Keeps, PaysCart, Fulfils, StopsProcessing
<1>4. ASSUME NEW a \in Attempts, NEW s \in Sessions, Binds(a, s)
      PROVE  CartIsHeld'
  BY <1>4 DEF Binds, Only, Keeps, Unbound
<1>5. ASSUME NEW a \in Attempts, NEW s \in Sessions, Processes(a, s)
      PROVE  CartIsHeld'
  BY <1>5 DEF Processes
<1>6. ASSUME NEW a \in Attempts, NEW s \in Sessions \cup {NoSession}, Abandons(a, s)
      PROVE  CartIsHeld'
  BY <1>6 DEF Abandons, Releases, Only, Keeps
<1>7. ASSUME NEW a \in Attempts, NEW s \in Sessions, Completes(a, s)
      PROVE  CartIsHeld'
  BY <1>7 DEF Completes, Releases, Only, Keeps
<1>8. ASSUME NEW a \in Attempts, NEW s \in Sessions, Opens(a, s)
      PROVE  CartIsHeld'
  BY <1>8 DEF Opens, ChangesSession
<1>9. ASSUME NEW s \in Sessions, Closes(s)
      PROVE  CartIsHeld'
  BY <1>9 DEF Closes, ChangesSession
<1>10. QED
  BY <1>1, <1>2, <1>3, <1>4, <1>5, <1>6, <1>7, <1>8, <1>9 DEF Effect

(* What a request holds stays true while it waits.                         *)
LEMMA TabStable ==
  ASSUME TypeOK, TypeOK', Stable, NEW x \in TabType, TabHolds(x)
  PROVE  TabHolds(x)'
<1>1. x.started \in Int /\ clock \in Int /\ clock' \in Int
  BY DEF TabType, TypeOK
<1>2. x.started <= clock'
  BY <1>1 DEF Stable, TabHolds
<1>3. QED
  BY <1>2, AttemptAssumption DEF TabHolds, Stable, Known, AttemptAssumption

(* So does what a pass holds: after a deadline no session is created.      *)
LEMMA WorkerStable ==
  ASSUME TypeOK, TypeOK', Stable, NEW x \in WorkerType, WorkerHolds(x)
  PROVE  WorkerHolds(x)'
<1> SUFFICES ASSUME x.pc # "idle" PROVE WorkerHolds(x)'
  BY DEF WorkerHolds
<1>1. /\ x.of \in Attempts /\ Known(x.of)
      /\ attempt'[x.of].deadline = attempt[x.of].deadline
  BY DEF WorkerHolds, Stable, Keeps
<1>2. /\ clock \in Int /\ clock' \in Int /\ clock <= clock' /\ attempt[x.of].deadline \in Int
      /\ x.lastMiss \in Int /\ x.observedAt \in Int
  BY <1>1 DEF TypeOK, AttemptType, WorkerType, Stable, NoMiss
<1>3. x.pc = "found" => x.session \in Sessions /\ session'[x.session].of = x.of
  BY <1>1, AttemptAssumption DEF WorkerHolds, Stable, AttemptAssumption
<1>4. x.lastMiss # NoMiss => attempt'[x.of].deadline <= x.lastMiss /\ x.lastMiss <= clock'
  BY <1>1, <1>2 DEF WorkerHolds
<1>5. x.pc \in {"observed", "release"} =>
        attempt'[x.of].deadline <= x.observedAt /\ x.observedAt <= clock'
  BY <1>1, <1>2 DEF WorkerHolds
<1>6. x.pc \in {"absent", "observed", "release"} /\ x.lastMiss # NoMiss => SessionsOf(x.of)' = {}
  <2>1. SUFFICES ASSUME x.pc \in {"absent", "observed", "release"}, x.lastMiss # NoMiss,
                        NEW s \in Sessions, session'[s].of = x.of
                 PROVE  FALSE
    BY DEF SessionsOf
  <2>2. session[s].of # x.of /\ attempt[x.of].deadline <= clock
    BY <1>2, <2>1 DEF WorkerHolds, SessionsOf
  <2>3. clock < attempt[x.of].deadline
    BY <2>1, <2>2 DEF Stable
  <2>4. QED
    BY <1>2, <2>2, <2>3
<1>7. QED
  BY <1>1, <1>3, <1>4, <1>5, <1>6 DEF WorkerHolds, Stable, Known

(* A request reads what is true.                                           *)
LEMMA StepTabs ==
  ASSUME Inv, TypeOK', Sessionship', Stable, [Next]_vars
  PROVE  \A t \in Tabs : TabHolds(tab[t])'
<1> USE DEF Inv
<1>1. ASSUME NEW t \in Tabs, tab'[t] = tab[t] PROVE TabHolds(tab[t])'
  <2> DEFINE x == tab[t]
  <2>1. x \in TabType /\ TabHolds(x)
    BY DEF TypeOK
  <2>2. ASSUME NEW y \in TabType, TabHolds(y) PROVE TabHolds(y)'
    BY <2>2, TabStable
  <2>3. QED
    BY <1>1, <2>1, <2>2 DEF TabHolds
<1>2. ASSUME NEW t \in Tabs, tab'[t] = IdleTab PROVE TabHolds(tab[t])'
  BY <1>2 DEF TabHolds, IdleTab, TypeOK
<1>3. ASSUME NEW t \in Tabs, NEW new, tab' = [tab EXCEPT ![t] = new],
             tab'[t] = new => TabHolds(tab[t])'
      PROVE  \A u \in Tabs : TabHolds(tab[u])'
  BY <1>1, <1>3 DEF TypeOK
<1>4. ASSUME NEW t \in Tabs, tab' = [tab EXCEPT ![t] = IdleTab]
      PROVE  \A u \in Tabs : TabHolds(tab[u])'
  BY <1>2, <1>3, <1>4
<1>5. ASSUME tab' = tab PROVE \A u \in Tabs : TabHolds(tab[u])'
  BY <1>1, <1>5
<1>6. ASSUME NEW t \in Tabs, StartCheckout(t) PROVE \A u \in Tabs : TabHolds(tab[u])'
  <2> DEFINE new == [IdleTab EXCEPT !.pc = "build", !.content = cart.content, !.started = clock]
  <2>1. new.pc = "build" /\ new.content \in Contents /\ new.started = clock
    BY DEF IdleTab, TypeOK, CartType
  <2>2. tab' = [tab EXCEPT ![t] = new] /\ clock' = clock
    BY <1>6 DEF StartCheckout
  <2> HIDE DEF new
  <2>3. tab'[t] = new => TabHolds(tab[t])'
    BY <2>1, <2>2 DEF TabHolds, TypeOK
  <2>4. QED
    BY <1>3, <2>2, <2>3
<1>7. ASSUME NEW t \in Tabs, NEW a \in Attempts, SendCreate(t, a)
      PROVE  \A u \in Tabs : TabHolds(tab[u])'
  <2> DEFINE new == [tab[t] EXCEPT !.pc = "sent", !.of = a]
  <2>1. new.pc = "sent" /\ new.of = a /\ new.started <= clock
    BY DEF TypeOK, TabType, TabHolds
  <2>2. tab' = [tab EXCEPT ![t] = new] /\ UNCHANGED <<clock, attempt>> /\ Known(a)
    BY <1>7 DEF SendCreate, Unbound, Active, Known
  <2> HIDE DEF new
  <2>3. tab'[t] = new => TabHolds(tab[t])'
    BY <2>1, <2>2 DEF TabHolds, Known
  <2>4. QED
    BY <1>3, <2>2, <2>3
<1>8. ASSUME NEW t \in Tabs, ReceiveSession(t) PROVE \A u \in Tabs : TabHolds(tab[u])'
  <2>1. PICK s \in SessionsOf(tab[t].of) : tab' = [tab EXCEPT ![t].pc = "bind", ![t].session = s]
    BY <1>8 DEF ReceiveSession
  <2> DEFINE new == [tab[t] EXCEPT !.pc = "bind", !.session = s]
  <2>2. /\ new.pc = "bind" /\ new.of = tab[t].of /\ new.session = s /\ new.started <= clock
        /\ tab[t].of \in Attempts /\ Known(tab[t].of) /\ s \in Sessions /\ session[s].of = tab[t].of
    BY <1>8 DEF TypeOK, TabType, TabHolds, ReceiveSession, SessionsOf
  <2>3. tab' = [tab EXCEPT ![t] = new] /\ UNCHANGED <<clock, attempt, session>>
    BY <1>8, <2>1 DEF ReceiveSession
  <2> HIDE DEF new
  <2>4. tab'[t] = new => TabHolds(tab[t])'
    BY <2>2, <2>3 DEF TabHolds, Known
  <2>5. QED
    BY <1>3, <2>3, <2>4
<1>9. ASSUME NEW t \in Tabs, NEW s \in Sessions, CancelAtStripe(t, s)
      PROVE  \A u \in Tabs : TabHolds(tab[u])'
  <2> DEFINE new == [tab[t] EXCEPT !.pc = "cancel", !.of = session[s].of, !.session = s]
  <2>1. /\ new.pc = "cancel" /\ new.of = session[s].of /\ new.session = s /\ new.started <= clock
        /\ session[s].of \in Attempts /\ Known(session[s].of)
    BY <1>9 DEF TypeOK, TabType, TabHolds, CancelAtStripe, Durable, Sessionship, SessionType
  <2>2. /\ tab' = [tab EXCEPT ![t] = new] /\ UNCHANGED <<clock, attempt>>
        /\ session'[s].of = session[s].of /\ session'[s].status = "expired"
    BY <1>9 DEF CancelAtStripe, TypeOK, SessionType
  <2> HIDE DEF new
  <2>3. tab'[t] = new => TabHolds(tab[t])'
    BY <2>1, <2>2 DEF TabHolds, Known
  <2>4. QED
    BY <1>3, <2>2, <2>3
<1>10. ASSUME NEW t \in Tabs,
              BindSession(t) \/ CancelAttempt(t) \/ GiveUp(t) \/ \E a \in Attempts : CreateAttempt(t, a)
       PROVE  \A u \in Tabs : TabHolds(tab[u])'
  BY <1>4, <1>10 DEF BindSession, CancelAttempt, GiveUp, CreateAttempt
<1>11. ASSUME NEW s \in Sessions, SessionNext(s) PROVE tab' = tab
  BY <1>11 DEF SessionNext, StripeCreates, CustomerPays, StripeExpires, ReleaseExpired, VerifyPaid,
               ReplayPaid, ReleaseCompleted
<1>12. ASSUME NEW w \in Workers, WorkerNext(w) PROVE tab' = tab
  BY <1>12 DEF WorkerNext, PickCandidate, ListSessions, ReconcileFound, ObserveAbsence, RecordMiss,
               ReleaseAbsent, WorkerStops
<1>13. ASSUME EditCart \/ DeleteCart \/ Tick \/ UNCHANGED vars PROVE tab' = tab
  BY <1>13 DEF EditCart, DeleteCart, Tick, vars
<1>14. ASSUME NEW a \in Attempts, AttemptNext(a) PROVE tab' = tab
  BY <1>14 DEF AttemptNext, RequestEnds, PayCart, Fulfil, ProcessorStops, DeadLetter,
               RequeuePayment
<1>15. QED
  BY <1>5, <1>6, <1>7, <1>8, <1>9, <1>10, <1>11, <1>12, <1>13, <1>14 DEF Next, Work, TabNext

(* A pass reads what is true.                                              *)
LEMMA StepWorkers ==
  ASSUME Inv, TypeOK', Stable, [Next]_vars
  PROVE  \A w \in Workers : WorkerHolds(worker[w])'
<1> USE DEF Inv
<1>1. ASSUME NEW w \in Workers, worker'[w] = worker[w] PROVE WorkerHolds(worker[w])'
  <2> DEFINE x == worker[w]
  <2>1. x \in WorkerType /\ WorkerHolds(x)
    BY DEF TypeOK
  <2>2. ASSUME NEW y \in WorkerType, WorkerHolds(y) PROVE WorkerHolds(y)'
    BY <2>2, WorkerStable
  <2>3. QED
    BY <1>1, <2>1, <2>2 DEF WorkerHolds, SessionsOf
<1>2. ASSUME NEW w \in Workers, worker'[w] = IdleWorker PROVE WorkerHolds(worker[w])'
  BY <1>2 DEF WorkerHolds, IdleWorker
<1>3. ASSUME NEW w \in Workers, NEW new, worker' = [worker EXCEPT ![w] = new],
             worker'[w] = new => WorkerHolds(worker[w])'
      PROVE  \A v \in Workers : WorkerHolds(worker[v])'
  BY <1>1, <1>3 DEF TypeOK
<1>4. ASSUME NEW w \in Workers, worker' = [worker EXCEPT ![w] = IdleWorker]
      PROVE  \A v \in Workers : WorkerHolds(worker[v])'
  BY <1>2, <1>3, <1>4
<1>5. ASSUME worker' = worker PROVE \A v \in Workers : WorkerHolds(worker[v])'
  BY <1>1, <1>5
<1>6. ASSUME NEW w \in Workers, NEW a \in Attempts, PickCandidate(w, a)
      PROVE  \A v \in Workers : WorkerHolds(worker[v])'
  <2>1. PICK i \in {NoMiss} \cup 0..MaxTime :
          /\ IsLastMiss(a, i)
          /\ worker' = [worker EXCEPT ![w] =
               [IdleWorker EXCEPT !.pc = "list", !.of = a, !.lastMiss = i]]
    BY <1>6 DEF PickCandidate
  <2> DEFINE new == [IdleWorker EXCEPT !.pc = "list", !.of = a, !.lastMiss = i]
  <2>2. i # NoMiss => attempt[a].deadline <= i /\ i <= clock
    BY <2>1 DEF IsLastMiss, Durable, MissesAreLate
  <2>3. new.pc = "list" /\ new.of = a /\ new.lastMiss = i
    BY DEF IdleWorker
  <2>4. worker' = [worker EXCEPT ![w] = new] /\ UNCHANGED <<clock, attempt, session>> /\ Known(a)
    BY <1>6, <2>1 DEF PickCandidate, Unbound, Active, Known
  <2> HIDE DEF new
  <2>5. worker'[w] = new => WorkerHolds(worker[w])'
    BY <2>2, <2>3, <2>4 DEF WorkerHolds, Known
  <2>6. QED
    BY <1>3, <2>4, <2>5
<1>7. ASSUME NEW w \in Workers, ListSessions(w) PROVE \A v \in Workers : WorkerHolds(worker[v])'
  <2> DEFINE x == worker[w]
             absent == [x EXCEPT !.pc = "absent"]
             found(s) == [x EXCEPT !.pc = "found", !.session = s]
  <2>1. x \in WorkerType /\ WorkerHolds(x) /\ x.pc = "list"
    BY <1>7 DEF TypeOK, ListSessions
  <2>2. UNCHANGED <<clock, attempt, session>>
    BY <1>7 DEF ListSessions
  <2>3. \/ SessionsOf(x.of) = {} /\ worker' = [worker EXCEPT ![w] = absent]
        \/ \E s \in SessionsOf(x.of) : worker' = [worker EXCEPT ![w] = found(s)]
    BY <1>7 DEF ListSessions
  <2>4. /\ absent.pc = "absent" /\ absent.of = x.of /\ absent.lastMiss = x.lastMiss
        /\ \A s \in Sessions : /\ found(s).pc = "found" /\ found(s).of = x.of
                               /\ found(s).session = s /\ found(s).lastMiss = x.lastMiss
    BY <2>1 DEF WorkerType
  <2> HIDE DEF x, absent, found
  <2>5. CASE SessionsOf(x.of) = {} /\ worker' = [worker EXCEPT ![w] = absent]
    <3>1. worker'[w] = absent => WorkerHolds(worker[w])'
      BY <2>1, <2>2, <2>4, <2>5 DEF WorkerHolds, Known, SessionsOf
    <3>2. QED
      BY <1>3, <2>5, <3>1
  <2>6. ASSUME NEW s \in SessionsOf(x.of), worker' = [worker EXCEPT ![w] = found(s)]
        PROVE  \A v \in Workers : WorkerHolds(worker[v])'
    <3>1. s \in Sessions /\ session[s].of = x.of
      BY DEF SessionsOf
    <3>2. worker'[w] = found(s) => WorkerHolds(worker[w])'
      BY <2>1, <2>2, <2>4, <3>1 DEF WorkerHolds, Known, SessionsOf
    <3>3. QED
      BY <1>3, <2>6, <3>2
  <2>7. QED
    BY <2>3, <2>5, <2>6
<1>8. ASSUME NEW w \in Workers, ObserveAbsence(w) PROVE \A v \in Workers : WorkerHolds(worker[v])'
  <2> DEFINE x == worker[w]
             new == [x EXCEPT !.pc = "observed", !.observedAt = clock]
  <2>1. x \in WorkerType /\ WorkerHolds(x) /\ x.pc = "absent"
    BY <1>8 DEF TypeOK, ObserveAbsence
  <2>2. UNCHANGED <<clock, attempt, session>> /\ clock \in Int
    BY <1>8 DEF ObserveAbsence, TypeOK
  <2>3. \/ Overdue(x.of) /\ worker' = [worker EXCEPT ![w] = new]
        \/ worker' = [worker EXCEPT ![w] = IdleWorker]
    BY <1>8 DEF ObserveAbsence
  <2>4. /\ new.pc = "observed" /\ new.of = x.of /\ new.lastMiss = x.lastMiss
        /\ new.observedAt = clock
    BY <2>1 DEF WorkerType
  <2> HIDE DEF x, new
  <2>5. CASE Overdue(x.of) /\ worker' = [worker EXCEPT ![w] = new]
    <3>1. worker'[w] = new => WorkerHolds(worker[w])'
      BY <2>1, <2>2, <2>4, <2>5 DEF WorkerHolds, Known, SessionsOf, Overdue
    <3>2. QED
      BY <1>3, <2>5, <3>1
  <2>6. QED
    BY <1>4, <2>3, <2>5
<1>9. ASSUME NEW w \in Workers, RecordMiss(w) PROVE \A v \in Workers : WorkerHolds(worker[v])'
  <2> DEFINE x == worker[w]
             new == [x EXCEPT !.pc = "release"]
  <2>1. x \in WorkerType /\ WorkerHolds(x) /\ x.pc = "observed"
    BY <1>9 DEF TypeOK, RecordMiss
  <2>2. UNCHANGED <<clock, session>>
    BY <1>9 DEF RecordMiss
  <2>3. \/ x.lastMiss # NoMiss /\ worker' = [worker EXCEPT ![w] = new]
        \/ worker' = [worker EXCEPT ![w] = IdleWorker]
    BY <1>9 DEF RecordMiss, HasOldMiss
  <2>4. /\ new.pc = "release" /\ new.of = x.of /\ new.lastMiss = x.lastMiss
        /\ new.observedAt = x.observedAt
    BY <2>1 DEF WorkerType
  <2> HIDE DEF x, new
  <2>5. CASE x.lastMiss # NoMiss /\ worker' = [worker EXCEPT ![w] = new]
    <3>1. attempt'[x.of].status # "none" /\ attempt'[x.of].deadline = attempt[x.of].deadline
      BY <2>1 DEF WorkerHolds, Stable, Keeps
    <3>2. worker'[w] = new => WorkerHolds(worker[w])'
      BY <2>1, <2>2, <2>4, <2>5, <3>1 DEF WorkerHolds, Known, SessionsOf
    <3>3. QED
      BY <1>3, <2>5, <3>2
  <2>6. QED
    BY <1>4, <2>3, <2>5
<1>10. ASSUME NEW w \in Workers, ReconcileFound(w) \/ ReleaseAbsent(w) \/ WorkerStops(w)
       PROVE  \A v \in Workers : WorkerHolds(worker[v])'
  BY <1>4, <1>10 DEF ReconcileFound, ReleaseAbsent, WorkerStops
<1>11. ASSUME NEW s \in Sessions, SessionNext(s) PROVE worker' = worker
  BY <1>11 DEF SessionNext, StripeCreates, CustomerPays, StripeExpires, ReleaseExpired, VerifyPaid,
               ReplayPaid, ReleaseCompleted
<1>12. ASSUME NEW t \in Tabs, TabNext(t) PROVE worker' = worker
  BY <1>12 DEF TabNext, StartCheckout, CreateAttempt, SendCreate, ReceiveSession, BindSession,
               CancelAtStripe, CancelAttempt, GiveUp
<1>13. ASSUME EditCart \/ DeleteCart \/ Tick \/ UNCHANGED vars PROVE worker' = worker
  BY <1>13 DEF EditCart, DeleteCart, Tick, vars
<1>14. ASSUME NEW a \in Attempts, AttemptNext(a) PROVE worker' = worker
  BY <1>14 DEF AttemptNext, RequestEnds, PayCart, Fulfil, ProcessorStops, DeadLetter,
               RequeuePayment
<1>15. QED
  BY <1>5, <1>6, <1>7, <1>8, <1>9, <1>10, <1>11, <1>12, <1>13, <1>14 DEF Next, Work, WorkerNext

-----------------------------------------------------------------------------
(***************************************************************************)
(* The theorems.                                                           *)
(***************************************************************************)

LEMMA InitInv ==
  ASSUME Init
  PROVE  Inv
<1> USE DEF Init
<1>1. TypeOK
  <2>1. 0 \in 0..MaxTime /\ 0 \in 0..LastStart + Life /\ 0 \in 0..MaxTries
    BY AttemptAssumption DEF AttemptAssumption
  <2>2. QED
    BY <2>1 DEF TypeOK, CartType, AttemptType, SessionType, TabType, WorkerType, IdleTab, IdleWorker
<1>2. Durable
  BY DEF Durable, OneActiveAttempt, Sessionship, MissesAreLate, AbandonedHasEnded, PayableIsKept,
         Fulfilment, CartIsHeld, Active, Abandoned
<1>3. \A t \in Tabs : TabHolds(tab[t])
  BY DEF TabHolds, IdleTab
<1>4. \A w \in Workers : WorkerHolds(worker[w])
  BY DEF WorkerHolds, IdleWorker
<1>5. QED
  BY <1>1, <1>2, <1>3, <1>4 DEF Inv

LEMMA StepInv ==
  ASSUME Inv, [Next]_vars
  PROVE  Inv' /\ Effect /\ Stable
<1>1. TypeOK /\ Durable
  BY DEF Inv
<1>2. TypeOK'
  BY TypeStep DEF Inv, Durable
<1>3. Effect
  BY StepEffect
<1>4. Stable
  BY <1>1, <1>2, <1>3, StepStable
<1>5. Durable'
  BY <1>1, <1>2, <1>3, StepOneActive, StepSessionship, StepMissesAreLate, StepAbandonedHasEnded,
     StepPayableIsKept, StepFulfilment, StepCartIsHeld DEF Durable
<1>6. Sessionship'
  BY <1>5 DEF Durable
<1>7. QED
  BY <1>2, <1>3, <1>4, <1>5, <1>6, StepTabs, StepWorkers DEF Inv

LEMMA Invariance ==
  Spec => []Inv
<1>1. Init => Inv
  BY InitInv
<1>2. Inv /\ [Next]_vars => Inv'
  BY StepInv
<1>3. QED
  BY <1>1, <1>2, PTL DEF Spec

(* The state stays within its types: for any number of attempts, tabs and  *)
(* passes no transition writes a value another does not expect.            *)
THEOREM TypeCorrect ==
  Spec => []TypeOK
<1>1. Inv => TypeOK
  BY DEF Inv
<1>2. QED
  BY <1>1, Invariance, PTL

(* However many tabs check a cart out at once, at most one attempt fences  *)
(* it (createStripeCheckoutAttempt under the lock of the cart row).        *)
THEOREM OneFence ==
  Spec => []OneActiveAttempt
<1>1. Inv => OneActiveAttempt
  BY DEF Inv, Durable
<1>2. QED
  BY <1>1, Invariance, PTL

(* Whatever answer of Stripe was lost and whenever the two misses were     *)
(* recorded, an attempt given up has no session that can be paid.          *)
THEOREM NothingAbandonedIsPaid ==
  Spec => []AbandonedIsUnpayable
<1>1. Inv => AbandonedIsUnpayable
  BY DEF Inv, Durable, AbandonedIsUnpayable, Payable, PayableIsKept, Fulfilment, Active, Abandoned
<1>2. QED
  BY <1>1, Invariance, PTL

(* No sequence of retries, cancellations and new checkouts leaves the      *)
(* customer two sessions to pay for one cart.                              *)
THEOREM NoSecondCharge ==
  Spec => []OnePayableSession
<1>1. ASSUME Inv, NEW s \in Sessions, NEW r \in Sessions, Payable(s), Payable(r)
      PROVE  s = r
  <2> USE DEF Inv, Durable
  <2>1. ASSUME NEW q \in Sessions, Payable(q)
        PROVE  /\ session[q].of \in Attempts
               /\ Active(session[q].of) \/ session[q].of \in fulfilled
    <3>1. session[q].of \in Attempts
      BY <1>1, <2>1 DEF Payable, Sessionship, TypeOK, SessionType
    <3>2. QED
      BY <1>1, <2>1, <3>1 DEF Payable, PayableIsKept
  <2>2. session[s].of = session[r].of
    BY <1>1, <2>1 DEF OneActiveAttempt, Fulfilment
  <2>3. session[s].of # NoAttempt
    BY <1>1, <2>1, AttemptAssumption DEF AttemptAssumption
  <2>4. QED
    BY <1>1, <2>2, <2>3 DEF Sessionship
<1>2. Inv => OnePayableSession
  BY <1>1 DEF OnePayableSession
<1>3. QED
  BY <1>2, Invariance, PTL

(* The cart a customer paid for is the cart there still is, fenced by the  *)
(* attempt of the paid session, until it is fulfilled.                     *)
THEOREM PaidCartIsHeld ==
  Spec => []PaidMatchesCart
<1>1. ASSUME Inv, NEW s \in Sessions, session[s].status = "paid", session[s].of \notin fulfilled
      PROVE  /\ Active(session[s].of) /\ attempt[session[s].of].session \in {NoSession, s}
             /\ cart.status \in {"new", "paid"} /\ cart.content = attempt[session[s].of].snapshot
  <2> DEFINE a == session[s].of
  <2> USE DEF Inv, Durable
  <2>1. a \in Attempts /\ a # NoAttempt
    BY <1>1, AttemptAssumption DEF Sessionship, TypeOK, SessionType, AttemptAssumption
  <2>2. Active(a)
    BY <1>1 DEF PayableIsKept
  <2>3. attempt[a].session \in {NoSession, s}
    <3>1. attempt[a].session \in Sessions \cup {NoSession}
      BY <1>1, <2>1 DEF TypeOK, AttemptType
    <3>2. QED
      BY <1>1, <2>1, <3>1 DEF Sessionship
  <2>4. cart.status \in {"new", "paid"} /\ cart.content = attempt[a].snapshot
    BY <1>1, <2>1, <2>2 DEF CartIsHeld
  <2>5. QED
    BY <2>2, <2>3, <2>4
<1>2. Inv => PaidMatchesCart
  BY <1>1 DEF PaidMatchesCart
<1>3. QED
  BY <1>2, Invariance, PTL

(* Late and repeated reports of tabs, webhooks and passes never rewrite    *)
(* the session an attempt was bound to or the reason of its release.       *)
THEOREM HistoryIsFinal ==
  Spec => HistoryHolds
<1> DEFINE Kept(a) ==
      /\ attempt[a].session # NoSession => attempt'[a].session = attempt[a].session
      /\ attempt[a].status \notin {"none", "active"} => attempt'[a] = attempt[a]
<1>1. ASSUME Inv, Effect, NEW b \in Attempts PROVE Kept(b)
  <2>1. CASE attempt'[b] = attempt[b]
    BY <2>1
  <2>2. ASSUME NEW a \in Attempts, Creates(a) PROVE Kept(b)
    <3>1. attempt[a].session = NoSession
      BY <1>1, <2>2, AttemptAssumption
         DEF Inv, Durable, Sessionship, Known, Creates, TypeOK, AttemptType, AttemptAssumption
    <3>2. QED
      BY <2>2, <3>1 DEF Creates, Only
  <2>3. ASSUME NEW a \in Attempts, NEW s \in Sessions, Binds(a, s) PROVE Kept(b)
    BY <2>3 DEF Binds, Only, Unbound, Active
  <2>4. ASSUME NEW a \in Attempts, Misses(a) PROVE Kept(b)
    BY <2>4 DEF Misses, Only, Unbound, Active
  <2>5. ASSUME NEW a \in Attempts, NEW s, Releases(a, s) PROVE Kept(b)
    BY <2>5 DEF Releases, Only, Active
  <2>6. QED
    BY <1>1, <2>1, <2>2, <2>3, <2>4, <2>5
       DEF Effect, Quiet, ChangesCart, Processes, Abandons, Completes, Opens, Closes, ChangesSession,
           PaysCart, Fulfils, StopsProcessing
<1>2. Inv /\ [Next]_vars => [\A a \in Attempts : Kept(a)]_vars
  BY <1>1, StepInv
<1>3. QED
  BY <1>2, Invariance, PTL DEF Spec, HistoryHolds

-----------------------------------------------------------------------------
(***************************************************************************)
(* The refinement of CartCheckout.                                         *)
(***************************************************************************)

Charges == {<<s, attempt[session[s].of].snapshot>> : s \in PaidSessions}

(* While the cart can be edited nothing was paid.                          *)
LEMMA ShoppingIsUnpaid ==
  ASSUME Inv, CartMutable
  PROVE  fulfilled = {} /\ PaidSessions = {} /\ Phase = "shopping"
<1> USE DEF Inv, Durable
<1>1. fulfilled = {}
  BY DEF CartMutable, Fulfilment
<1>2. PaidSessions = {}
  BY <1>1 DEF PaidSessions, PayableIsKept, CartMutable, Fenced, Sessionship, TypeOK, SessionType
<1>3. QED
  BY <1>1, <1>2 DEF Phase, CartMutable

(* While an attempt is active and its session unpaid, so is everything.    *)
LEMMA CheckoutIsUnpaid ==
  ASSUME Inv, NEW a \in Attempts, Active(a),
         \A s \in Sessions : session[s].of = a => session[s].status # "paid"
  PROVE  fulfilled = {} /\ PaidSessions = {} /\ Phase = "checkout" /\ cart.status = "new"
<1> USE DEF Inv, Durable
<1>1. fulfilled = {}
  BY DEF Fulfilment
<1>2. PaidSessions = {}
  BY <1>1 DEF PaidSessions, PayableIsKept, OneActiveAttempt, Sessionship, TypeOK, SessionType
<1>3. QED
  BY <1>1, <1>2 DEF Phase, Fenced, CartIsHeld

(* A step that keeps the snapshots of what was paid keeps the charges.     *)
LEMMA ChargesStay ==
  ASSUME PaidSessions' = PaidSessions,
         \A s \in PaidSessions : /\ session'[s].of = session[s].of
                                 /\ attempt'[session[s].of].snapshot = attempt[session[s].of].snapshot
  PROVE  Charges' = Charges
  BY DEF Charges

(* Every step is one of the abstract checkout, or none.                    *)
LEMMA StepRefines ==
  ASSUME Inv, Inv', Effect, Stable
  PROVE  [Checkout!Next]_Checkout!vars
<1> DEFINE Stutter == Phase' = Phase /\ cart'.content = cart.content /\ Charges' = Charges
<1> USE DEF Checkout!Next, Checkout!Edit, Checkout!Delete, Checkout!Begin, Checkout!Abandon,
            Checkout!Charge, Checkout!Settle, Checkout!vars
<1>1. Stutter => [Checkout!Next]_Checkout!vars
  BY DEF Charges
<1>2. TypeOK /\ TypeOK' /\ Durable /\ Durable'
  BY DEF Inv
<1>3. ASSUME UNCHANGED <<cart, attempt, session, fulfilled>> PROVE Stutter
  BY <1>3 DEF Phase, PaidSessions, Charges, Fenced, Active
<1>4. ASSUME ChangesCart PROVE [Checkout!Next]_Checkout!vars
  <2>1. Phase = "shopping" /\ PaidSessions = {} /\ fulfilled = {} /\ ~Fenced
    BY <1>4, ShoppingIsUnpaid DEF ChangesCart, CartMutable
  <2>2. PaidSessions' = {} /\ fulfilled' = {} /\ ~Fenced'
    BY <1>4, <2>1 DEF ChangesCart, PaidSessions, Fenced, Active
  <2>3. Charges = {} /\ Charges' = {}
    BY <2>1, <2>2 DEF Charges
  <2>4. cart'.content \in Contents
    BY <1>2 DEF TypeOK, CartType
  <2>5. CASE cart'.status = "new"
    <3>1. Phase' = "shopping"
      BY <2>2, <2>5 DEF Phase
    <3>2. QED
      BY <2>1, <2>3, <2>4, <3>1 DEF Charges
  <2>6. CASE cart'.status = "deleted" /\ cart'.content = cart.content
    <3>1. Phase' = "deleted"
      BY <2>2, <2>6 DEF Phase
    <3>2. QED
      BY <2>1, <2>3, <2>6, <3>1 DEF Charges
  <2>7. QED
    BY <1>4, <2>5, <2>6 DEF ChangesCart
<1>5. ASSUME NEW a \in Attempts, Creates(a) PROVE [Checkout!Next]_Checkout!vars
  <2>1. Phase = "shopping" /\ PaidSessions = {} /\ fulfilled = {}
    BY <1>5, ShoppingIsUnpaid DEF Creates
  <2>2. PaidSessions' = {} /\ fulfilled' = {} /\ Fenced' /\ cart' = cart
    BY <1>5, <2>1 DEF Creates, PaidSessions, Fenced, Active
  <2>3. Charges = {} /\ Charges' = {} /\ Phase' = "checkout"
    BY <2>1, <2>2 DEF Charges, Phase
  <2>4. QED
    BY <2>1, <2>2, <2>3 DEF Charges
<1>6. ASSUME NEW a \in Attempts, attempt'[a].status = attempt[a].status, Only(a), Keeps(a),
             UNCHANGED <<cart, session, fulfilled>>
      PROVE  Stutter
  <2>1. \A b \in Attempts : Active(b)' <=> Active(b)
    BY <1>6 DEF Only, Active
  <2>2. Phase' = Phase /\ PaidSessions' = PaidSessions
    BY <1>6, <2>1 DEF Phase, PaidSessions, Fenced
  <2>3. \A s \in PaidSessions : session[s].of \in Attempts
    BY <1>2 DEF PaidSessions, Durable, Sessionship, TypeOK, SessionType
  <2>4. Charges' = Charges
    BY <1>6, <2>2, <2>3, ChargesStay DEF Only, Keeps
  <2>5. QED
    BY <1>6, <2>2, <2>4
<1>7. ASSUME NEW a \in Attempts, NEW s \in Sessions \cup {NoSession}, Abandons(a, s)
      PROVE  [Checkout!Next]_Checkout!vars
  <2>1. Active(a) /\ \A r \in Sessions : session[r].of = a => session[r].status # "paid"
    BY <1>2, <1>7, AttemptAssumption
       DEF Abandons, Releases, Durable, Sessionship, SessionsOf, AttemptAssumption
  <2>2. fulfilled = {} /\ PaidSessions = {} /\ Phase = "checkout" /\ cart.status = "new"
    BY <2>1, CheckoutIsUnpaid
  <2>3. UNCHANGED <<cart, session, fulfilled>> /\ ~Fenced'
    BY <1>2, <1>7, <2>1 DEF Abandons, Releases, Only, Durable, OneActiveAttempt, Fenced, Active, Abandoned
  <2>4. PaidSessions' = {} /\ Phase' = "shopping"
    BY <2>2, <2>3 DEF PaidSessions, Phase
  <2>5. Charges = {} /\ Charges' = {}
    BY <2>2, <2>4 DEF Charges
  <2>6. QED
    BY <2>2, <2>3, <2>4, <2>5 DEF Charges
<1>8. ASSUME NEW a \in Attempts, NEW s \in Sessions, Completes(a, s) PROVE Stutter
  <2>1. /\ fulfilled # {} /\ UNCHANGED <<cart, session, fulfilled>>
        /\ \A b \in Attempts : attempt'[b].snapshot = attempt[b].snapshot
    BY <1>8 DEF Completes, Releases, Only, Keeps
  <2>2. PaidSessions' = PaidSessions /\ Phase' = Phase
    BY <2>1 DEF PaidSessions, Phase
  <2>3. \A r \in PaidSessions : session[r].of \in Attempts
    BY <1>2 DEF PaidSessions, Durable, Sessionship, TypeOK, SessionType
  <2>4. Charges' = Charges
    BY <2>1, <2>2, <2>3, ChargesStay
  <2>5. QED
    BY <2>1, <2>2, <2>4
<1>9. ASSUME NEW s \in Sessions, ChangesSession(s),
             session[s].status # "paid", session'[s].status # "paid"
      PROVE  Stutter
  <2>1. PaidSessions' = PaidSessions
    BY <1>9 DEF ChangesSession, PaidSessions
  <2>2. Phase' = Phase
    BY <1>9, <2>1 DEF ChangesSession, Phase, Fenced, Active
  <2>3. \A r \in PaidSessions : r # s
    BY <1>9 DEF PaidSessions
  <2>4. Charges' = Charges
    BY <1>9, <2>1, <2>3, ChargesStay DEF ChangesSession, PaidSessions
  <2>5. QED
    BY <1>9, <2>2, <2>4 DEF ChangesSession
<1>10. ASSUME NEW s \in Sessions, Closes(s), session'[s].status = "paid"
       PROVE  [Checkout!Next]_Checkout!vars
  <2> DEFINE a == session[s].of
  <2>1. a \in Attempts /\ Active(a)
    BY <1>2, <1>10 DEF Closes, Durable, PayableIsKept, Sessionship, TypeOK, SessionType
  <2>2. \A r \in Sessions : session[r].of = a => session[r].status # "paid"
    BY <1>2, <1>10, <2>1, AttemptAssumption DEF Closes, Durable, Sessionship, AttemptAssumption
  <2>3. fulfilled = {} /\ PaidSessions = {} /\ Phase = "checkout"
    BY <2>1, <2>2, CheckoutIsUnpaid
  <2>4. PaidSessions' = {s}
    BY <1>10, <2>3 DEF Closes, ChangesSession, PaidSessions
  <2>5. Phase' = "charged"
    BY <1>10, <2>3, <2>4 DEF Closes, ChangesSession, Phase
  <2>6. session'[s].of = a /\ attempt' = attempt /\ cart' = cart
    BY <1>10 DEF Closes, ChangesSession
  <2>7. cart.content = attempt[a].snapshot
    BY <1>2, <2>1 DEF Durable, CartIsHeld
  <2>8. Charges' = {<<s, cart.content>>}
    BY <2>4, <2>6, <2>7 DEF Charges
  <2>9. QED
    BY <2>3, <2>5, <2>6, <2>8 DEF Charges
<1>11. ASSUME NEW a \in Attempts, Fulfils(a) PROVE [Checkout!Next]_Checkout!vars
  <2>1. fulfilled = {} /\ PaidSessions # {}
    BY <1>2, <1>11 DEF Fulfils, Durable, Fulfilment, PaidSessions
  <2>2. Phase = "charged" /\ Phase' = "settled"
    BY <1>11, <2>1 DEF Fulfils, Phase
  <2>3. PaidSessions' = PaidSessions /\ Charges' = Charges /\ cart' = cart
    BY <1>11 DEF Fulfils, PaidSessions, Charges
  <2>4. QED
    BY <2>2, <2>3 DEF Charges
<1>12. QED
  <2>1. ASSUME NEW a \in Attempts, NEW s \in Sessions, Opens(a, s) PROVE Stutter
    BY <1>9, <2>1 DEF Opens
  <2>2. ASSUME NEW s \in Sessions, Closes(s) PROVE [Checkout!Next]_Checkout!vars
    BY <1>1, <1>9, <1>10, <2>2 DEF Closes
  <2>3. ASSUME NEW a \in Attempts, Misses(a) PROVE Stutter
    BY <1>6, <2>3 DEF Misses
  <2>4. ASSUME NEW a \in Attempts, NEW s \in Sessions, Binds(a, s) PROVE Stutter
    BY <1>6, <2>4 DEF Binds
  <2>5. ASSUME Quiet PROVE Stutter
    BY <1>3, <2>5 DEF Quiet
  <2>6. ASSUME NEW a \in Attempts, StopsProcessing(a) PROVE Stutter
    BY <1>3, <2>6 DEF StopsProcessing
  <2>7. ASSUME NEW a \in Attempts, PaysCart(a) PROVE Stutter
    <3>1. PaidSessions # {}
      BY <1>2, <2>7 DEF PaysCart, Durable, Fulfilment, PaidSessions
    <3>2. QED
      BY <2>7, <3>1 DEF PaysCart, Phase, PaidSessions, Charges
  <2>8. ASSUME NEW a \in Attempts, NEW s \in Sessions, Processes(a, s) PROVE Stutter
    BY <1>3, <2>8 DEF Processes
  <2> HIDE DEF Stutter, Checkout!Next, Checkout!vars
  <2>9. QED
    BY <1>1, <1>4, <1>5, <1>7, <1>8, <1>11, <2>1, <2>2, <2>3, <2>4, <2>5, <2>6, <2>7, <2>8 DEF Effect

(* Through every race of tabs, webhooks and passes the customer is charged *)
(* at most once, for the cart as it is, and only what cannot be charged is *)
(* given up (CartCheckout).                                                *)
THEOREM Refinement ==
  Spec => ImplementsCartCheckout
<1>1. Init => Checkout!Init
  <2>1. SUFFICES ASSUME Init PROVE Checkout!Init
    OBVIOUS
  <2>2. PaidSessions = {} /\ Phase = "shopping" /\ cart.content \in Contents
    BY <2>1 DEF Init, PaidSessions, Phase, Fenced, Active
  <2>3. QED
    BY <2>2 DEF Checkout!Init
<1>2. Inv /\ Inv' /\ [Next]_vars => [Checkout!Next]_Checkout!vars
  BY StepInv, StepRefines
<1>3. QED
  BY <1>1, <1>2, Invariance, PTL DEF Spec, ImplementsCartCheckout, Checkout!Spec
=============================================================================
