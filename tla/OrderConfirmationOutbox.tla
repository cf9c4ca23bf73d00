----------------------- MODULE OrderConfirmationOutbox -----------------------
(***************************************************************************)
(* The outbox of order-confirmation e-mails: rows of email_messages that   *)
(* the invocations of a minutely cron claim, submit to the e-mail provider *)
(* and close.  The provider does not recognise a repeated submission, so   *)
(* a row crosses a fence before the request and returns to the queue only  *)
(* on proof that the request was not accepted; an invocation that dies     *)
(* behind the fence leaves the row to a reconciliation, which only asks    *)
(* the provider what became of the message.                                *)
(*                                                                         *)
(* A row has one deadline at a time (next attempt, lease, staleness, next  *)
(* check, lease of the check): `elapsed` says whether it has passed.  Time *)
(* passes at any moment, and an invocation may compare the deadline with a *)
(* clock it read before it had the row.  A claim id is the worker that     *)
(* took the claim; a worker has one claim at a time.                       *)
(***************************************************************************)
EXTENDS Naturals

CONSTANTS
  Messages,     \* rows
  Malformed,    \* those with a payload that cannot be read
  Workers,      \* concurrent invocations of the cron
  NoWorker,
  NoMessage,
  MaxAttempts   \* orderConfirmationEmailMaxAttempts

ASSUME OutboxAssumption ==
  /\ Malformed \subseteq Messages /\ NoMessage \notin Messages
  /\ NoWorker \notin Workers
  /\ MaxAttempts \in Nat \ {0}

VARIABLES
  row,         \* the rows of email_messages
  proc,        \* the invocations
  provider,    \* per message: requests under way, accepted, and the outcome
  configured,  \* ACS_CONNECTION_STRING is set
  posts        \* requests sent per message (history)

vars == <<row, proc, provider, configured, posts>>

(* What a row records of its message.                                      *)
Recorded(r) ==
  IF r.stage = "sent" THEN "delivered"
  ELSE IF r.stage = "failed" THEN "undelivered" ELSE "open"

Submission ==
  INSTANCE AtMostOnceSubmission WITH
    provider <- provider,
    outcome <- [m \in Messages |-> Recorded(row[m])]

(* status and provider_status of a row; what stands behind the fence is    *)
(* "sending" and never claimed for a submission.                           *)
Fenced == {"started", "uncertain", "reconciling", "pending"}

Stages == {"absent", "queued", "claimed", "sent", "failed"} \cup Fenced

RowType ==
  [stage : Stages, attempt : 0..MaxAttempts, claim : Workers \cup {NoWorker},
   check : Workers \cup {NoWorker}, elapsed : BOOLEAN]

NoRow == [stage |-> "absent", attempt |-> 0, claim |-> NoWorker, check |-> NoWorker,
          elapsed |-> FALSE]

(* What sendEmail ends in: the provider's terminal status, a refusal that  *)
(* may be retried or not, uncertainty, or an error before the request.     *)
Answers == {"succeeded", "failed", "refused", "rejected", "uncertain", "error", "configuration"}

LookupAnswers == {"succeeded", "failed", "unknown"}

ProcType ==
  [pc : {"idle", "render", "post", "posting", "polling", "mark", "lookup", "finalize"},
   id : Messages \cup {NoMessage}, answer : Answers \cup LookupAnswers \cup {"none"}]

Idle == [pc |-> "idle", id |-> NoMessage, answer |-> "none"]

At(pc, m) == [pc |-> pc, id |-> m, answer |-> "none"]

Init ==
  /\ row = [m \in Messages |-> NoRow]
  /\ proc = [w \in Workers |-> Idle]
  /\ provider = [m \in Messages |-> Submission!Untouched]
  /\ configured \in BOOLEAN
  /\ posts = [m \in Messages |-> 0]
-----------------------------------------------------------------------------
(* The transitions of a row, each under its lock.                          *)

(* Mutant: a claim whose invocation died is not due again. *)
DueQueued(r) == r.stage = "queued" /\ r.elapsed

(* Due for a submission: queued, or claimed by an invocation that never    *)
(* reached the fence.                                                      *)
Due(r) == r.stage \in {"queued", "claimed"} /\ r.elapsed

Claimed(r, w) ==
  [r EXCEPT !.stage = "claimed", !.attempt = @ + 1, !.claim = w, !.elapsed = FALSE]

Started(r) == [r EXCEPT !.stage = "started", !.elapsed = FALSE]

Requeued(r, attempt) ==
  [r EXCEPT !.stage = "queued", !.attempt = attempt, !.claim = NoWorker, !.elapsed = FALSE]

(* Mutant: the claim id is not compared. *)
HoldsAny(r, w, stages) == r.stage \in stages

Holds(r, w, stages) == r.claim = w /\ r.stage \in stages

(* markOrderConfirmationEmailSent                                          *)
MarkedSent(r, w) ==
  IF Holds(r, w, {"started"}) THEN [r EXCEPT !.stage = "sent"] ELSE r

(* markOrderConfirmationEmailFailed                                        *)
MarkedFailed(r, w, answer) ==
  IF answer = "uncertain"
  THEN IF Holds(r, w, {"started"}) THEN [r EXCEPT !.stage = "uncertain", !.elapsed = FALSE] ELSE r
  ELSE IF ~Holds(r, w, {"claimed", "started"}) THEN r
  ELSE IF answer = "configuration" /\ r.stage = "claimed"
  THEN Requeued(r, IF r.attempt = 0 THEN 0 ELSE r.attempt - 1)
  ELSE IF answer \in {"refused", "error"} /\ r.attempt < MaxAttempts
  THEN Requeued(r, r.attempt)
  ELSE [r EXCEPT !.stage = "failed"]

Marked(r, w, answer) ==
  IF answer = "succeeded" THEN MarkedSent(r, w) ELSE MarkedFailed(r, w, answer)

(* Mutant: a message the provider does not know counts as undelivered. *)
FinalizedUnknownFails(r, answer) ==
  IF answer = "succeeded" THEN [r EXCEPT !.stage = "sent", !.check = NoWorker]
  ELSE [r EXCEPT !.stage = "failed", !.check = NoWorker]

(* finalizeOrderConfirmationEmailReconciliation                            *)
Finalized(r, answer) ==
  IF answer = "succeeded" THEN [r EXCEPT !.stage = "sent", !.check = NoWorker]
  ELSE IF answer = "failed" THEN [r EXCEPT !.stage = "failed", !.check = NoWorker]
  ELSE [r EXCEPT !.stage = "pending", !.check = NoWorker, !.elapsed = FALSE]
-----------------------------------------------------------------------------
(* The cart turns paid, or the completion outputs of a Stripe payment are  *)
(* written: the row is due at once.                                        *)
Enqueue(m) ==
  /\ row[m].stage = "absent"
  /\ row' = [row EXCEPT ![m].stage = "queued", ![m].elapsed = TRUE]
  /\ UNCHANGED <<proc, provider, configured, posts>>

(* Mutant: the attempts are not compared. *)
ClaimUnbounded(w, m) ==
  /\ proc[w].pc = "idle"
  /\ Due(row[m])
  /\ m \notin Malformed
  /\ row' = [row EXCEPT ![m] = Claimed(@, w)]
  /\ proc' = [proc EXCEPT ![w] = At("render", m)]
  /\ UNCHANGED <<provider, configured, posts>>

Claim(w, m) ==
  /\ proc[w].pc = "idle"
  /\ Due(row[m])
  /\ row[m].attempt < MaxAttempts /\ m \notin Malformed
  /\ row' = [row EXCEPT ![m] = Claimed(@, w)]
  /\ proc' = [proc EXCEPT ![w] = At("render", m)]
  /\ UNCHANGED <<provider, configured, posts>>

(* A due row with no attempt left, or an unreadable one, is closed; the    *)
(* invocation goes on.                                                     *)
ClaimRefused(w, m) ==
  /\ proc[w].pc = "idle"
  /\ Due(row[m])
  /\ row[m].attempt >= MaxAttempts \/ m \in Malformed
  /\ row' = [row EXCEPT ![m].stage = "failed"]
  /\ UNCHANGED <<proc, provider, configured, posts>>

(* Rendering, the client, a lookup or the time budget fails.  Without a    *)
(* connection string there is no client, and no way past this point.       *)
FailBefore(w) ==
  /\ proc[w].pc = "render"
  /\ proc' = [proc EXCEPT ![w] =
                [@ EXCEPT !.pc = "mark",
                          !.answer = IF configured THEN "error" ELSE "configuration"]]
  /\ UNCHANGED <<row, provider, configured, posts>>

(* The fence, for the current claim before its lease has run out.          *)
Start(w) ==
  LET m == proc[w].id IN
  /\ proc[w].pc = "render" /\ configured
  /\ Holds(row[m], w, {"claimed"})
  /\ row' = [row EXCEPT ![m] = Started(@)]
  /\ \/ proc' = [proc EXCEPT ![w] = At("post", m)]
     \/ proc' = [proc EXCEPT ![w] = [@ EXCEPT !.pc = "mark", !.answer = "error"]]  \* answer of the database lost
  /\ UNCHANGED <<provider, configured, posts>>

StartUnavailable(w) ==
  LET m == proc[w].id IN
  /\ proc[w].pc = "render" /\ configured
  /\ ~Holds(row[m], w, {"claimed"}) \/ row[m].elapsed
  /\ proc' = [proc EXCEPT ![w] = Idle]
  /\ UNCHANGED <<row, provider, configured, posts>>

Post(w) ==
  LET m == proc[w].id IN
  /\ proc[w].pc = "post"
  /\ provider' = [provider EXCEPT ![m].offered = @ + 1]
  /\ posts' = [posts EXCEPT ![m] = @ + 1]
  /\ proc' = [proc EXCEPT ![w] = At("posting", m)]
  /\ UNCHANGED <<row, configured>>

(* The request of m reaches the provider, or does not.                     *)
Accepts(m) ==
  /\ provider[m].offered > 0
  /\ provider' = [provider EXCEPT ![m] = [offered |-> @.offered - 1, accepted |-> @.accepted + 1,
                                          status |-> "running"]]

Refuses(m) ==
  /\ provider[m].offered > 0
  /\ provider' = [provider EXCEPT ![m].offered = @ - 1]

Accepted(w) ==
  LET m == proc[w].id IN
  /\ proc[w].pc = "posting"
  /\ Accepts(m)
  /\ proc' = [proc EXCEPT ![w] = At("polling", m)]
  /\ UNCHANGED <<row, configured, posts>>

(* A 4xx answer other than 408 proves that the message was not accepted;   *)
(* only 429 is retried.                                                    *)
Refused(w) ==
  LET m == proc[w].id IN
  /\ proc[w].pc = "posting"
  /\ Refuses(m)
  /\ \E answer \in {"refused", "rejected"} :
       proc' = [proc EXCEPT ![w] = [@ EXCEPT !.pc = "mark", !.answer = answer]]
  /\ UNCHANGED <<row, configured, posts>>

Polled(w) ==
  LET m == proc[w].id IN
  /\ proc[w].pc = "polling"
  /\ provider[m].status \in {"succeeded", "failed"}
  /\ proc' = [proc EXCEPT ![w] = [@ EXCEPT !.pc = "mark", !.answer = provider[m].status]]
  /\ UNCHANGED <<row, provider, configured, posts>>

(* Any other end of the request or of the polling: timeout, abort, 5xx.    *)
Uncertain(w) ==
  /\ proc[w].pc \in {"posting", "polling"}
  /\ proc' = [proc EXCEPT ![w] = [@ EXCEPT !.pc = "mark", !.answer = "uncertain"]]
  /\ UNCHANGED <<row, provider, configured, posts>>

Mark(w) ==
  LET m == proc[w].id IN
  /\ proc[w].pc = "mark"
  /\ row' = [row EXCEPT ![m] = Marked(@, w, proc[w].answer)]
  /\ proc' = [proc EXCEPT ![w] = Idle]
  /\ UNCHANGED <<provider, configured, posts>>

(* Mutant: a check whose invocation died is not due again. *)
ClaimReconciliationOnce(w, m) ==
  /\ proc[w].pc = "idle"
  /\ row[m].stage \in Fenced \ {"reconciling"} /\ row[m].elapsed
  /\ row' = [row EXCEPT ![m] = [@ EXCEPT !.stage = "reconciling", !.check = w, !.elapsed = FALSE]]
  /\ proc' = [proc EXCEPT ![w] = At("lookup", m)]
  /\ UNCHANGED <<provider, configured, posts>>

(* Stale submissions, due checks, and checks whose lease ran out.          *)
ClaimReconciliation(w, m) ==
  /\ proc[w].pc = "idle"
  /\ row[m].stage \in Fenced /\ row[m].elapsed
  /\ row' = [row EXCEPT ![m] = [@ EXCEPT !.stage = "reconciling", !.check = w, !.elapsed = FALSE]]
  /\ proc' = [proc EXCEPT ![w] = At("lookup", m)]
  /\ UNCHANGED <<provider, configured, posts>>

(* The status of the operation, or none: not terminal, not found, no       *)
(* answer in time, or one that cannot be read.                             *)
Lookup(w) ==
  LET m == proc[w].id IN
  /\ proc[w].pc = "lookup"
  /\ \E answer \in LookupAnswers :
       /\ answer # "unknown" => configured /\ provider[m].status = answer
       /\ proc' = [proc EXCEPT ![w] = [@ EXCEPT !.pc = "finalize", !.answer = answer]]
  /\ UNCHANGED <<row, provider, configured, posts>>

Finalize(w) ==
  LET m == proc[w].id IN
  /\ proc[w].pc = "finalize"
  /\ row[m].stage = "reconciling" /\ row[m].check = w
  /\ row' = [row EXCEPT ![m] = Finalized(@, proc[w].answer)]
  /\ proc' = [proc EXCEPT ![w] = Idle]
  /\ UNCHANGED <<provider, configured, posts>>

FinalizeUnavailable(w) ==
  LET m == proc[w].id IN
  /\ proc[w].pc = "finalize"
  /\ row[m].stage # "reconciling" \/ row[m].check # w \/ row[m].elapsed
  /\ proc' = [proc EXCEPT ![w] = Idle]
  /\ UNCHANGED <<row, provider, configured, posts>>

(* The platform ends the invocation, or a write of its result fails.       *)
Crash(w) ==
  /\ proc[w].pc # "idle"
  /\ proc' = [proc EXCEPT ![w] = Idle]
  /\ UNCHANGED <<row, provider, configured, posts>>
-----------------------------------------------------------------------------
(* A request nobody waits for any more still arrives, or is lost; the      *)
(* provider finishes with what it accepted; time passes; the connection    *)
(* string is set in a deployment.                                          *)
Arrive(m) == Accepts(m) /\ UNCHANGED <<row, proc, configured, posts>>

Lose(m) == Refuses(m) /\ UNCHANGED <<row, proc, configured, posts>>

Finish(m) ==
  /\ provider[m].status = "running"
  /\ \E s \in {"succeeded", "failed"} : provider' = [provider EXCEPT ![m].status = s]
  /\ UNCHANGED <<row, proc, configured, posts>>

Elapse(m) ==
  /\ row[m].stage \in {"queued", "claimed"} \cup Fenced /\ ~row[m].elapsed
  /\ row' = [row EXCEPT ![m].elapsed = TRUE]
  /\ UNCHANGED <<proc, provider, configured, posts>>

Configure ==
  /\ ~configured
  /\ configured' = TRUE
  /\ UNCHANGED <<row, proc, provider, posts>>
-----------------------------------------------------------------------------
Submit(w) ==
  FailBefore(w) \/ Start(w) \/ StartUnavailable(w) \/ Post(w) \/ Accepted(w) \/ Refused(w)
    \/ Polled(w) \/ Uncertain(w) \/ Mark(w)

Reconcile(w) == Lookup(w) \/ Finalize(w) \/ FinalizeUnavailable(w)

Next ==
  \/ \E w \in Workers : Submit(w) \/ Reconcile(w) \/ Crash(w)
  \/ \E w \in Workers, m \in Messages : Claim(w, m) \/ ClaimRefused(w, m) \/ ClaimReconciliation(w, m)
  \/ \E m \in Messages : Enqueue(m) \/ Arrive(m) \/ Lose(m) \/ Finish(m) \/ Elapse(m)
  \/ Configure

Spec == Init /\ [][Next]_vars

(* The invocation w holds the current check of m.                          *)
Checks(w, m) == proc[w].id = m /\ row[m].stage = "reconciling" /\ row[m].check = w

(* Fairness: time passes, the configuration is completed, requests do not  *)
(* travel for ever and the provider ends what it accepted; an invocation   *)
(* moves on or is ended; the cron, oldest row first, keeps claiming what   *)
(* is due; and a lookup under a current lease (of minutes, for seconds of  *)
(* work) is not for ever unanswered, or its answer for ever cut off before *)
(* it is recorded.  Nothing says that a submission works.                  *)
Fairness ==
  /\ WF_vars(Configure)
  /\ \A w \in Workers : WF_vars(Submit(w) \/ Reconcile(w) \/ Crash(w))
  /\ \A m \in Messages :
       /\ WF_vars(Elapse(m)) /\ WF_vars(Arrive(m) \/ Lose(m)) /\ WF_vars(Finish(m))
       /\ SF_vars(\E w \in Workers : Claim(w, m) \/ ClaimRefused(w, m))
       /\ SF_vars(\E w \in Workers : ClaimReconciliation(w, m))
       /\ SF_vars(\E w \in Workers : Checks(w, m) /\ Lookup(w) /\ proc'[w].answer # "unknown")
       /\ SF_vars(\E w \in Workers : Checks(w, m) /\ Finalize(w) /\ proc[w].answer # "unknown")

FairSpec == Spec /\ Fairness
-----------------------------------------------------------------------------
(* Type invariant; in particular no row exceeds its attempts.              *)
TypeOK ==
  /\ row \in [Messages -> RowType]
  /\ proc \in [Workers -> ProcType]
  /\ provider \in [Messages -> Submission!ProviderType]
  /\ configured \in BOOLEAN
  /\ posts \in [Messages -> Nat]

(* A customer never gets a confirmation twice: no request is under way or  *)
(* accepted besides another, whoever crashed, whichever lease ran out and  *)
(* however late a request arrives (startOrderConfirmationEmailSubmission). *)
AtMostOneSubmission ==
  \A m \in Messages : provider[m].offered + provider[m].accepted <= 1

(* A closed row tells the truth: "sent" is delivered, and "failed" was not *)
(* delivered and never will be, though requests arrive late and an         *)
(* invocation and a reconciliation report on the same row.                 *)
ClosedRowsAreTrue ==
  \A m \in Messages :
    /\ row[m].stage = "sent" => provider[m].status = "succeeded"
    /\ row[m].stage = "failed" => provider[m].offered = 0 /\ provider[m].status \in {"none", "failed"}

(* The provider is asked at most MaxAttempts times for one message.        *)
AttemptsAreBounded == \A m \in Messages : posts[m] <= MaxAttempts

(* The outbox implements the abstract promise.                             *)
ImplementsAtMostOnceSubmission == Submission!Spec

(* What the provider accepted is recorded, though every invocation that    *)
(* had to do with it died.                                                 *)
AcceptedIsRecorded ==
  \A m \in Messages : provider[m].accepted > 0 ~> row[m].stage \in {"sent", "failed"}

(* A queued message does not wait for ever: it is closed or reaches the    *)
(* fence, though invocations die with its claim and the configuration may  *)
(* be missing at first.                                                    *)
QueuedIsTried ==
  \A m \in Messages : row[m].stage = "queued" ~> row[m].stage \in Fenced \cup {"sent", "failed"}
=============================================================================
