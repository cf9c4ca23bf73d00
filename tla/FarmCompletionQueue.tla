------------------------ MODULE FarmCompletionQueue ------------------------
(***************************************************************************)
(* The completion of one scheduled operation from one device of a farmer:  *)
(* the draft and the queue record in IndexedDB                             *)
(* (apps/farm/lib/offline), the coordinators that send the queued command  *)
(* from every open tab, the forms that send it directly, and the server    *)
(* (apps/farm/app/schedule/actions.ts and scheduleTaskSubmissionsRepo.ts). *)
(*                                                                         *)
(* Every function of the two stores is one IndexedDB transaction and one   *)
(* action.  A request to complete outlives the tab that sent it; it is     *)
(* resolved, validated and submitted in three steps, as the server action  *)
(* does.  Times are left out: a claim or a record expires, and an answer   *)
(* is lost, at any moment.  Web Locks are left out: a browser may lack     *)
(* them.                                                                   *)
(***************************************************************************)
EXTENDS Naturals, FiniteSets

CONSTANTS
  Drains,       \* coordinators of the queue, one in every open tab
  Forms,        \* open completion forms
  Ids,          \* submission ids not given out yet
  Contents,     \* what a farmer may report; every report has one photograph
  None,
  MaxVersion,   \* bound on the changes of the task by others
  MaxFaults     \* bound on closed tabs, claims that end early and logouts,
                \* and on failures of the network

ASSUME FarmAssumption ==
  /\ Drains \cap Forms = {}
  /\ None \notin Drains \cup Forms
  /\ MaxVersion \in Nat /\ MaxFaults \in Nat

VARIABLES
  version, status,   \* of the task on the server
  log,               \* completion events of the task
  stored,            \* submissions whose photograph is stored
  requests,          \* completion requests under way
  draft, item,       \* the draft and the queue record of the device
  proc,              \* of every coordinator and form: what it is doing
  page,              \* of every form: the version of the task it shows
  known,             \* of every form: what it takes for the revision of the draft
  uploaded,          \* of every form: submissions whose photograph it has sent
  leased,            \* coordinators and forms of the current session
  used,              \* submission ids given out
  faults,
  owed               \* history: submissions queued, and not given up since

server == <<version, status, log>>
form == <<page, known, uploaded>>
device == <<draft, item, used, owed>>
vars == <<version, status, log, stored, requests, draft, item, proc, page, known,
          uploaded, leased, used, faults, owed>>

Actors == Drains \cup Forms

Command == [id : Ids, content : Contents, version : 0..MaxVersion]

Closed == [pc |-> "closed", command |-> None, answer |-> "retry"]
Idle == [Closed EXCEPT !.pc = "idle"]

ProcType ==
  [pc : {"closed", "idle", "photo", "upload", "again", "send", "waiting", "report"},
   command : Command \cup {None},
   answer : {"stored", "retry", "refused"}]

Answers == {"ok", "refused", "missing"}

RequestType ==
  [command : Command, from : Actors \cup {None},
   stage : {"sent", "new", "checked"} \cup Answers]

ItemType ==
  [command : Command, photo : BOOLEAN, holder : Drains \cup {None}, live : BOOLEAN,
   state : {"queued", "syncing", "failed", "expired", "server_confirmed"}]

\* The absence of a command or of a record is none of them.
ASSUME NoneAssumption == None \notin Command \cup ItemType

TypeOK ==
  /\ version \in 0..(MaxVersion + 1)
  /\ status \in {"open", "blocked", "canceled", "done"}
  /\ log \subseteq [command : Command \cup {None}, at : 0..MaxVersion]
  /\ stored \subseteq Ids
  /\ requests \subseteq RequestType
  /\ draft \in [id : Ids, version : 0..MaxVersion, confirmed : BOOLEAN] \cup {None}
  /\ item \in ItemType \cup {None}
  /\ item # None => (item.state = "syncing" <=> item.holder # None)
  /\ proc \in [Actors -> ProcType]
  /\ page \in [Forms -> 0..MaxVersion]
  /\ known \in [Forms -> {"null", "current", "old"}]
  /\ uploaded \in [Forms -> SUBSET Ids]
  /\ leased \subseteq Actors
  /\ used \subseteq Ids /\ owed \subseteq used
  /\ faults \in [{"tab", "network"} -> 0..MaxFaults]

Init ==
  /\ version = 0 /\ status = "open" /\ log = {} /\ stored = {}
  /\ requests = {}
  /\ draft = None /\ item = None
  /\ proc = [a \in Actors |-> Closed]
  /\ page = [f \in Forms |-> 0]
  /\ known = [f \in Forms |-> "null"]
  /\ uploaded = [f \in Forms |-> {}]
  /\ leased = {} /\ used = {} /\ owed = {}
  /\ faults = [kind \in {"tab", "network"} |-> 0]

Fault(kind) == faults[kind] < MaxFaults /\ faults' = [faults EXCEPT ![kind] = @ + 1]

----------------------------------------------------------------------------
(* The server.                                                             *)

\* The task still is what the command was written for.
Available(c) == status = "open" /\ version = c.version

\* Mutant of Replay: any content under a known submission id is a repetition.
ReplayAnyContent(c) ==
  IF \E e \in log : e.command # None /\ e.command.id = c.id
    THEN "ok" ELSE IF status \in {"done", "blocked"} THEN "refused" ELSE "none"

\* What an earlier completion event, or another end of the task, makes of a command.
Replay(c) ==
  IF \E e \in log : e.command # None /\ e.command.id = c.id
    THEN IF \E e \in log : e.command = c THEN "ok" ELSE "refused"
    ELSE IF status \in {"done", "blocked"} THEN "refused" ELSE "none"

\* A request moves on; the answer to one nobody waits for is dropped.
Becomes(r, stage) ==
  requests' = (requests \ {r}) \cup
    IF r.from = None /\ stage \in Answers
      THEN {} ELSE {[r EXCEPT !.stage = stage]}

\* The submission id is looked up under the lock of the task.
Resolve(r) ==
  /\ r.stage = "sent"
  /\ Becomes(r, IF Replay(r.command) = "none" THEN "new" ELSE Replay(r.command))
  /\ UNCHANGED server

\* The task and the photograph are read without the lock.
Validate(r) ==
  /\ r.stage = "new"
  /\ Becomes(r, IF ~Available(r.command) THEN "refused"
                ELSE IF r.command.id \notin stored THEN "missing" ELSE "checked")
  /\ UNCHANGED server

\* Mutant of Verdict: the version was compared before the lock.
VerdictOfValidated(c) ==
  IF Replay(c) # "none" THEN Replay(c) ELSE IF status = "canceled" THEN "refused" ELSE "append"

\* Under the lock: the id again, the version, then the completion event.
Verdict(c) ==
  IF Replay(c) # "none" THEN Replay(c)
  ELSE IF version # c.version \/ status = "canceled" THEN "refused" ELSE "append"

Submit(r) ==
  /\ r.stage = "checked"
  /\ IF Verdict(r.command) = "append"
       THEN /\ log' = log \cup {[command |-> r.command, at |-> version]}
            /\ status' = "done" /\ version' = version + 1
            /\ Becomes(r, "ok")
       ELSE Becomes(r, Verdict(r.command)) /\ UNCHANGED server

Serve(r) ==
  /\ Resolve(r) \/ Validate(r) \/ Submit(r)
  /\ UNCHANGED <<stored, device, form, proc, leased, faults>>

\* Administrators and other farmers: every event of the task is a new version.
Reschedule == status \in {"open", "blocked"} /\ status' = "open" /\ UNCHANGED log
BlockTask == status = "open" /\ status' = "blocked" /\ UNCHANGED log
CancelTask == status \in {"open", "blocked"} /\ status' = "canceled" /\ UNCHANGED log

CompleteElsewhere ==
  /\ status = "open" /\ status' = "done"
  /\ log' = log \cup {[command |-> None, at |-> version]}

OthersChange ==
  /\ version < MaxVersion /\ version' = version + 1
  /\ Reschedule \/ BlockTask \/ CancelTask \/ CompleteElsewhere
  /\ UNCHANGED <<stored, requests, device, form, proc, leased, faults>>

\* A stored photograph is not found any more.
LosePhoto(i) ==
  /\ Fault("network")
  /\ i \in stored /\ stored' = stored \ {i}
  /\ UNCHANGED <<server, requests, device, form, proc, leased>>

----------------------------------------------------------------------------
(* What a tab does to complete the task, for the queue or for a form.      *)

At(a, pcs) == proc[a].pc \in pcs
Busy(a) == ~At(a, {"closed", "idle"})
Turns(a, pc) == proc' = [proc EXCEPT ![a].pc = pc, ![a].answer = "retry"]
Tells(a, answer) == proc' = [proc EXCEPT ![a].pc = "report", ![a].answer = answer]

\* The server is asked for the photograph of this submission.
AskPhoto(a) ==
  /\ At(a, {"photo", "again"}) /\ a \in leased
  /\ \/ /\ IF ~Available(proc[a].command) THEN Tells(a, "refused")
           ELSE IF proc[a].command.id \in stored THEN Tells(a, "stored")
           ELSE IF At(a, {"again"}) THEN Tells(a, "retry") ELSE Turns(a, "upload")
        /\ UNCHANGED faults
     \/ Fault("network") /\ Tells(a, "retry")
  /\ UNCHANGED <<server, stored, requests, device, form, leased>>

\* After an upload that failed the photograph may be there all the same.
Upload(a) ==
  /\ At(a, {"upload"})
  /\ LET photo == proc[a].command.id IN
     \/ /\ Available(proc[a].command) /\ stored' = stored \cup {photo}
        /\ Tells(a, "stored") /\ UNCHANGED faults
     \/ ~Available(proc[a].command) /\ Turns(a, "again") /\ UNCHANGED <<stored, faults>>
     \/ Fault("network") /\ stored' \in {stored, stored \cup {photo}} /\ Turns(a, "again")
  /\ UNCHANGED <<server, requests, device, form, leased>>

Send(a) ==
  /\ At(a, {"send"}) /\ a \in leased /\ Turns(a, "waiting")
  /\ requests' = requests \cup {[command |-> proc[a].command, from |-> a, stage |-> "sent"]}
  /\ UNCHANGED <<server, stored, device, form, leased, faults>>

\* Nobody waits for the requests of this tab any more; the server goes on with them.
Orphaned(a) ==
  {[r EXCEPT !.from = None] : r \in {q \in requests : q.from = a /\ q.stage \notin Answers}}
    \cup {q \in requests : q.from # a}

\* The connection breaks, or the server fails, before the answer is here.
LoseAnswer(a) ==
  /\ At(a, {"waiting"}) /\ a \in leased
  /\ Fault("network") /\ requests' = Orphaned(a) /\ Tells(a, "retry")
  /\ UNCHANGED <<server, stored, device, form, leased>>

\* The answer the tab has: to its request, or what came of the photograph.
Answered(a, answer) ==
  \/ At(a, {"report"}) /\ answer = proc[a].answer /\ UNCHANGED requests
  \/ /\ At(a, {"waiting"})
     /\ \E r \in requests :
          r.from = a /\ r.stage \in Answers /\ answer = r.stage /\ requests' = requests \ {r}

Closes(a) == proc' = [proc EXCEPT ![a] = Closed] /\ leased' = leased \ {a}

\* A form that closes forgets what it showed, took for the draft and uploaded.
Forgets(a) ==
  /\ page' = [f \in Forms |-> IF f = a THEN 0 ELSE page[f]]
  /\ uploaded' = [f \in Forms |-> IF f = a THEN {} ELSE uploaded[f]]

\* A tab is closed or crashes.
Close(a) ==
  /\ ~At(a, {"closed"})
  /\ IF a \in Forms /\ (At(a, {"idle"}) \/ a \notin leased) THEN UNCHANGED faults ELSE Fault("tab")
  /\ Closes(a) /\ Forgets(a)
  /\ known' = [f \in Forms |-> IF f = a THEN "null" ELSE known[f]]
  /\ requests' = Orphaned(a)
  /\ UNCHANGED <<server, stored, device>>

----------------------------------------------------------------------------
(* The coordinator of the queue in a tab.                                  *)

OpenDrain(d) ==
  /\ At(d, {"closed"})
  /\ proc' = [proc EXCEPT ![d] = Idle] /\ leased' = leased \cup {d}
  /\ UNCHANGED <<server, stored, requests, device, form, faults>>

\* Mutant of Claimable: an expired claim is left alone.
ClaimableQueued == item # None /\ item.state = "queued"

\* A record whose claim has expired goes back to the queue and is claimed at once.
Claimable == item # None /\ (item.state = "queued" \/ (item.state = "syncing" /\ ~item.live))

Claim(d) ==
  /\ At(d, {"idle"}) /\ d \in leased /\ Claimable
  /\ item' = [item EXCEPT !.state = "syncing", !.holder = d, !.live = TRUE]
  /\ proc' = [proc EXCEPT ![d] = [pc |-> IF item.photo THEN "send" ELSE "photo",
                command |-> item.command, answer |-> "retry"]]
  /\ UNCHANGED <<server, stored, requests, draft, used, owed, form, leased, faults>>

\* Mutant of Mine: the claim is not compared.
MineBySubmission(d) ==
  /\ d \in leased /\ item # None
  /\ item.command.id = proc[d].command.id /\ item.state = "syncing"

\* Every change of a claimed record compares the session, the submission and the claim.
Mine(d) ==
  /\ d \in leased /\ item # None
  /\ item.command.id = proc[d].command.id /\ item.state = "syncing" /\ item.holder = d

\* The session is over, or a heartbeat finds the claim lost or expired: the work
\* on it ends.  It may go on as long as no heartbeat tells.
Abandon(d) ==
  /\ \/ d \notin leased /\ ~At(d, {"closed"})
     \/ Busy(d) /\ ~(Mine(d) /\ item.live)
  /\ proc' = [proc EXCEPT ![d] = IF d \in leased THEN Idle ELSE Closed]
  /\ requests' = Orphaned(d)
  /\ UNCHANGED <<server, stored, device, form, leased, faults>>

\* Mutant of Released: the claim stays on the record.
ReleasedHeld(r, state) ==
  [r EXCEPT !.state = state, !.live = FALSE, !.photo = @ /\ state \in {"queued", "failed"}]

\* Nobody holds the record any more; a receipt and an expired record keep no content.
Released(r, state) ==
  [r EXCEPT !.state = state, !.holder = None, !.live = FALSE,
            !.photo = @ /\ state \in {"queued", "failed"}]

\* Mutant of StateAfter: the content of a refused command is deleted at once.
StateAfterForgetting(answer) ==
  CASE answer \in {"retry", "missing"} -> "queued"
    [] answer = "refused" -> "expired"
    [] answer = "ok" -> "server_confirmed"

StateAfter(answer) ==
  CASE answer \in {"retry", "missing"} -> "queued"
    [] answer = "refused" -> "failed"
    [] answer = "ok" -> "server_confirmed"

\* What a coordinator makes of its record after an answer.
Outcome(r, answer) ==
  IF answer = "stored" THEN [r EXCEPT !.photo = TRUE]
  ELSE [Released(r, StateAfter(answer)) EXCEPT !.photo = @ /\ answer # "missing"]

ReportToQueue(d) ==
  \E answer \in Answers \cup {"stored", "retry"} :
    /\ Answered(d, answer)
    /\ IF Mine(d) THEN item' = Outcome(item, answer) ELSE UNCHANGED item
    /\ proc' = [proc EXCEPT ![d] = IF Mine(d) /\ answer = "stored"
                 THEN [@ EXCEPT !.pc = "send", !.answer = "retry"] ELSE Idle]
    /\ UNCHANGED <<server, stored, draft, used, owed, form, leased, faults>>

\* The claim of a coordinator that is gone runs out.
ClaimRunsOut ==
  /\ item # None /\ item.live /\ ~Busy(item.holder)
  /\ item' = [item EXCEPT !.live = FALSE]
  /\ UNCHANGED <<server, stored, requests, draft, used, owed, form, proc, leased, faults>>

\* The heartbeats of a tab stop long enough for its claim to end.
ClaimLapses ==
  /\ item # None /\ item.live /\ Busy(item.holder)
  /\ Fault("tab") /\ item' = [item EXCEPT !.live = FALSE]
  /\ UNCHANGED <<server, stored, requests, draft, used, owed, form, proc, leased>>

----------------------------------------------------------------------------
(* The form of the task.                                                   *)

\* The draft changed: what every form takes for its revision is out of date.
Outdated == [f \in Forms |-> IF known[f] = "current" THEN "old" ELSE known[f]]
Seen == IF draft = None THEN "null" ELSE "current"

OpenForm(f) ==
  /\ At(f, {"closed"}) /\ status = "open"
  /\ item = None /\ (draft # None => ~draft.confirmed)
  /\ proc' = [proc EXCEPT ![f] = Idle] /\ leased' = leased \cup {f}
  /\ page' = [page EXCEPT ![f] = version] /\ known' = [known EXCEPT ![f] = Seen]
  /\ UNCHANGED <<server, stored, requests, device, uploaded, faults>>

\* The draft has not been changed from elsewhere, and is for what the page shows.
MaySave(f) ==
  /\ f \in leased /\ At(f, {"idle"}) /\ known[f] = Seen
  /\ draft # None => ~draft.confirmed /\ draft.version = page[f]
  /\ draft = None => Ids \ used # {}

SubmissionId == IF draft # None THEN draft.id ELSE CHOOSE i \in Ids \ used : TRUE

\* Nothing is queued for the task.
MayQueue == item = None

SaveDraft(f) ==
  /\ MaySave(f) /\ MayQueue
  /\ draft' = [id |-> SubmissionId, version |-> page[f], confirmed |-> FALSE]
  /\ known' = [Outdated EXCEPT ![f] = "current"]
  /\ used' = used \cup {SubmissionId}
  /\ UNCHANGED <<server, stored, requests, item, owed, page, uploaded, leased, faults>>

CommandOf(f, content) == [id |-> SubmissionId, content |-> content, version |-> page[f]]

Edit(f) == SaveDraft(f) /\ UNCHANGED proc

\* Online, the form saves the draft and sends its content itself.
SubmitForm(f) ==
  \E content \in Contents :
    /\ SaveDraft(f)
    /\ proc' = [proc EXCEPT ![f] = [pc |-> IF SubmissionId \in uploaded[f] THEN "send" ELSE "photo",
                  command |-> CommandOf(f, content), answer |-> "retry"]]

\* Offline, the draft becomes the record of the queue, with its submission id.
Handoff(f) ==
  \E content \in Contents :
    /\ MaySave(f) /\ MayQueue
    /\ item' = [command |-> CommandOf(f, content), photo |-> FALSE, holder |-> None,
                live |-> FALSE, state |-> "queued"]
    /\ draft' = None /\ known' = Outdated
    /\ used' = used \cup {SubmissionId} /\ owed' = owed \cup {SubmissionId}
    /\ UNCHANGED <<server, stored, requests, proc, page, uploaded, leased, faults>>

\* A save or a handoff that was refused shows the form the draft there is.
Reload(f) ==
  /\ f \in leased /\ At(f, {"idle"}) /\ item = None /\ known[f] # Seen
  /\ draft # None => ~draft.confirmed
  /\ known' = [known EXCEPT ![f] = Seen]
  /\ UNCHANGED <<server, stored, requests, device, proc, page, uploaded, leased, faults>>

DiscardDraft(f) ==
  /\ f \in leased /\ At(f, {"idle"})
  /\ draft # None /\ ~draft.confirmed /\ known[f] = "current"
  /\ draft' = None /\ known' = [Outdated EXCEPT ![f] = "null"]
  /\ UNCHANGED <<server, stored, requests, item, used, owed, proc, page, uploaded, leased, faults>>

\* The form is told that the photograph is stored, or that the task is not completed.
ReportToForm(f) ==
  \E answer \in {"stored", "retry", "refused", "missing"} :
    /\ Answered(f, answer)
    /\ LET photo == proc[f].command.id IN
       uploaded' = [uploaded EXCEPT ![f] = CASE answer = "stored"  -> @ \cup {photo}
                                             [] answer = "missing" -> @ \ {photo}
                                             [] OTHER -> @]
    /\ proc' = [proc EXCEPT ![f] = IF answer = "stored"
                 THEN [@ EXCEPT !.pc = "send", !.answer = "retry"] ELSE Idle]
    /\ UNCHANGED <<server, stored, device, page, known, leased, faults>>

\* The draft becomes a receipt and keeps its id, unless the queue has a record
\* of the task.  Without a draft the receipt has a new id, which nothing uses.
ConfirmDraft(f) ==
  /\ Answered(f, "ok")
  /\ IF f \in leased /\ MayQueue
       THEN /\ draft' = [id |-> IF draft = None THEN proc[f].command.id ELSE draft.id,
                         version |-> page[f], confirmed |-> TRUE]
            /\ known' = [Outdated EXCEPT ![f] = "null"]
       ELSE known' = [known EXCEPT ![f] = "null"] /\ UNCHANGED draft
  /\ Closes(f) /\ Forgets(f)
  /\ UNCHANGED <<server, stored, item, used, owed, faults>>

----------------------------------------------------------------------------
(* The farmer, and time.                                                   *)

GivenUp == owed' = owed \ {item.command.id}

DiscardItem ==
  /\ leased \cap Drains # {} /\ item # None /\ item.state # "syncing"
  /\ item' = None /\ GivenUp
  /\ UNCHANGED <<server, stored, requests, draft, used, form, proc, leased, faults>>

\* The content of an old record is deleted; an old record without content goes.
ExpireItem ==
  /\ leased # {} /\ item # None
  /\ item' = IF item.state \in {"server_confirmed", "expired"} THEN None
             ELSE Released(item, "expired")
  /\ GivenUp
  /\ UNCHANGED <<server, stored, requests, draft, used, form, proc, leased, faults>>

ExpireDraft ==
  /\ leased # {} /\ draft # None
  /\ draft' = None /\ known' = Outdated
  /\ UNCHANGED <<server, stored, requests, item, used, owed, proc, page, uploaded, leased, faults>>

Logout ==
  /\ Fault("tab") /\ leased # {} /\ leased' = {}
  /\ item' = None /\ draft' = None /\ owed' = {} /\ known' = Outdated
  /\ UNCHANGED <<server, stored, requests, used, proc, page, uploaded>>

----------------------------------------------------------------------------
Attempt(a) == AskPhoto(a) \/ Upload(a) \/ Send(a)

Work(d) == OpenDrain(d) \/ Claim(d) \/ Attempt(d) \/ Abandon(d) \/ ReportToQueue(d)

FillIn(f) ==
  \/ OpenForm(f) \/ Edit(f) \/ SubmitForm(f) \/ Handoff(f) \/ Reload(f) \/ DiscardDraft(f)
  \/ Attempt(f) \/ ReportToForm(f) \/ ConfirmDraft(f)

Next ==
  \/ \E d \in Drains : Work(d)
  \/ \E f \in Forms : FillIn(f)
  \/ \E a \in Actors : LoseAnswer(a) \/ Close(a)
  \/ \E r \in requests : Serve(r)
  \/ \E i \in Ids : LosePhoto(i)
  \/ ClaimRunsOut \/ ClaimLapses \/ OthersChange
  \/ DiscardItem \/ ExpireItem \/ ExpireDraft \/ Logout

Spec == Init /\ [][Next]_vars

\* A tab is opened again and again until the queue is empty, and works; the
\* server handles what is sent to it; claims nobody renews run out.
Fairness ==
  /\ \A d \in Drains : WF_vars(Work(d)) /\ WF_vars(\E r \in requests : r.from = d /\ Serve(r))
  /\ WF_vars(ClaimRunsOut)

FairSpec == Spec /\ Fairness

----------------------------------------------------------------------------
(* What the queue promises.                                                *)

\* The task is completed once, by whoever was first, and by a command of this
\* device only in the version the farmer saw (submitOperationTaskCompletion).
CompletedOnce ==
  /\ Cardinality(log) <= 1
  /\ \A e \in log : e.command # None => e.at = e.command.version

\* A receipt on the device stands for exactly the completion the server has
\* (markOperationCompletionQueueServerConfirmed, markOperationCompletionDraftServerConfirmed).
ReceiptIsTrue ==
  /\ item # None /\ item.state = "server_confirmed" => \E e \in log : e.command = item.command
  /\ draft # None /\ draft.confirmed => \E e \in log : e.command # None

\* What the farmer left to the queue stays on the device until the server has
\* it, the farmer is told it failed, or it was given up: discarded, expired,
\* logged out (handoffOperationCompletionDraftToQueue and every later change).
NoWorkIsLost ==
  \A i \in owed :
    \/ item # None /\ item.command.id = i /\ item.state \in {"queued", "syncing", "failed"}
    \/ \E e \in log : e.command # None /\ e.command.id = i

\* While a claim is live, its holder alone changes the record, and only while
\* it works on that very command; otherwise the claim or the record ends
\* (mutateQueueItem, claimNextOperationCompletionQueueItem).
OnlyTheHolderReports ==
  [][item # None /\ item.live /\ item' # item =>
       \/ proc[item.holder].command = item.command /\ proc'[item.holder] # proc[item.holder]
       \/ item' = [item EXCEPT !.live = FALSE]
       \/ item' # None /\ item'.state = "expired"
       \/ leased' = {}]_vars

\* What is queued does not stay so: whatever tabs were closed and answers lost
\* on the way, it is confirmed or refused, or given up (drainOwnedQueue).
QueuedIsResolved ==
  item # None /\ item.state \in {"queued", "syncing"}
    ~> item = None \/ item.state \in {"failed", "expired", "server_confirmed"}

\* A command the queue reports as failed has not completed the task: as the
\* documentation has it, the same command sent again gets the first receipt.
FailedIsNotCompleted ==
  item # None /\ item.state = "failed" => \A e \in log : e.command # item.command
=============================================================================
