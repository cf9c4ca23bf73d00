---------------------- MODULE FarmCompletionQueueProofs ----------------------
(***************************************************************************)
(* Theorems about FarmCompletionQueue for any tabs, forms, submission ids, *)
(* contents and bounds: the task is completed once and in the version the  *)
(* farmer saw, a receipt on the device is true, what was queued is not     *)
(* lost, and a live claim is its holder's.                                 *)
(***************************************************************************)
EXTENDS FarmCompletionQueue, FiniteSetTheorems, TLAPS

(* The completion event is the task's last and only one, and the version   *)
(* runs past the bound only with it.                                       *)
ServerOK ==
  /\ version > MaxVersion => status = "done"
  /\ log # {} => status = "done"
  /\ \A e, o \in log : e = o
  /\ \A e \in log : e.command # None => e.at = e.command.version

(* A request that was granted has its event, and one that is waited for is *)
(* the only one of its tab and carries the command the tab works on.       *)
Granted(r) == r.stage = "ok" => \E e \in log : e.command = r.command

Awaited(r) ==
  r.from # None =>
    /\ proc[r.from].pc = "waiting" /\ proc[r.from].command = r.command
    /\ \A s \in requests : s.from = r.from => s = r

RequestsOK == \A r \in requests : Granted(r) /\ Awaited(r)

ProcsOK == \A a \in Actors : Busy(a) => proc[a].command \in Command

(* A live claim is a record under way, and a coordinator that holds the    *)
(* record and works, works on its command.                                 *)
HolderOK ==
  item # None =>
    /\ item.live => item.state = "syncing"
    /\ item.holder # None /\ Busy(item.holder) => proc[item.holder].command = item.command

Inv ==
  TypeOK /\ ServerOK /\ RequestsOK /\ ProcsOK /\ HolderOK /\ ReceiptIsTrue /\ NoWorkIsLost
-----------------------------------------------------------------------------
(* What a tab does, for itself and for the requests.  Its new state is y.  *)
Steps == {"closed", "idle", "photo", "upload", "again", "send", "waiting", "report"}
Idling == {"closed", "idle"}
Told == {"stored", "retry", "refused"}

RequestAfter(a, y, r) ==
  \/ r \in requests /\ r.from # a
  \/ r \in RequestType /\ r.from = None /\ r.stage \notin Answers
  \/ y.pc = "waiting" /\ r = [command |-> y.command, from |-> a, stage |-> "sent"]

CommandAfter(a, y) ==
  y.pc \notin Idling =>
    /\ y.command \in Command
    /\ a \in Drains =>
         \/ Busy(a) /\ y.command = proc[a].command
         \/ item' # None /\ item'.holder = a /\ item'.command = y.command

ActorStep(a) ==
  \E y \in ProcType :
    /\ proc' = [proc EXCEPT ![a] = y]
    /\ CommandAfter(a, y)
    /\ \A r \in requests' : RequestAfter(a, y, r)
    /\ log' = log

LEMMA Nones ==
  /\ None \notin Actors /\ None \notin Command /\ None \notin ItemType
  /\ \A d \in Drains : d \notin Forms
  BY FarmAssumption, NoneAssumption DEF FarmAssumption, NoneAssumption, Actors

(* Closed and idle, and the next step on the same command. *)
LEMMA Resting ==
  /\ Closed \in ProcType /\ Closed.pc \in Idling
  /\ Idle \in ProcType /\ Idle.pc \in Idling
  BY DEF Closed, Idle, ProcType, Idling

LEMMA TurnsStep ==
  ASSUME TypeOK, NEW a \in Actors, NEW pc \in Steps, Turns(a, pc)
  PROVE  \E y \in ProcType : /\ proc' = [proc EXCEPT ![a] = y]
                             /\ y.pc = pc /\ y.command = proc[a].command
<1>1. proc \in [Actors -> ProcType] /\ proc[a] \in ProcType
  BY DEF TypeOK
<1>2. PICK y : y = [proc[a] EXCEPT !.pc = pc, !.answer = "retry"]
  OBVIOUS
<1>3. y \in ProcType /\ y.pc = pc /\ y.command = proc[a].command
  BY <1>1, <1>2 DEF ProcType, Steps
<1>4. proc' = [proc EXCEPT ![a] = y]
  BY <1>1, <1>2 DEF Turns
<1>5. QED
  BY <1>3, <1>4

LEMMA TellsStep ==
  ASSUME TypeOK, NEW a \in Actors, NEW answer \in Told, Tells(a, answer)
  PROVE  \E y \in ProcType : /\ proc' = [proc EXCEPT ![a] = y]
                             /\ y.pc = "report" /\ y.command = proc[a].command
<1>1. proc \in [Actors -> ProcType] /\ proc[a] \in ProcType
  BY DEF TypeOK
<1>2. PICK y : y = [proc[a] EXCEPT !.pc = "report", !.answer = answer]
  OBVIOUS
<1>3. y \in ProcType /\ y.pc = "report" /\ y.command = proc[a].command
  BY <1>1, <1>2 DEF ProcType, Told
<1>4. proc' = [proc EXCEPT ![a] = y]
  BY <1>1, <1>2 DEF Tells
<1>5. QED
  BY <1>3, <1>4

(* Requests after a tab does not wait, has its answer, or is gone. *)
LEMMA NotWaiting ==
  ASSUME TypeOK, RequestsOK, NEW a \in Actors, proc[a].pc # "waiting", NEW r \in requests
  PROVE  r.from # a
  BY Nones DEF RequestsOK, Awaited

LEMMA AnswerTaken ==
  ASSUME TypeOK, RequestsOK, ProcsOK, NEW a \in Actors, NEW answer, Answered(a, answer)
  PROVE  /\ \A r \in requests' : r \in requests /\ r.from # a
         /\ Busy(a) /\ proc[a].command \in Command
         /\ proc[a].pc \in {"report", "waiting"}
         /\ answer \in Answers \cup {"stored", "retry"}
         /\ answer = "ok" => \E e \in log : e.command = proc[a].command
<1>1. CASE At(a, {"report"}) /\ answer = proc[a].answer /\ UNCHANGED requests
  <2>1. proc[a] \in ProcType /\ answer # "ok"
    BY <1>1 DEF TypeOK, ProcType
  <2>2. Busy(a) /\ proc[a].pc = "report"
    BY <1>1 DEF At, Busy
  <2>3. QED
    BY <1>1, <2>1, <2>2, NotWaiting DEF ProcsOK, ProcType, Answers
<1>2. ASSUME At(a, {"waiting"}), NEW r \in requests, r.from = a, r.stage \in Answers,
             answer = r.stage, requests' = requests \ {r}
      PROVE  /\ \A s \in requests' : s \in requests /\ s.from # a
             /\ Busy(a) /\ proc[a].pc = "waiting" /\ answer \in Answers
             /\ answer = "ok" => \E e \in log : e.command = proc[a].command
  <2>1. Busy(a) /\ proc[a].pc = "waiting"
    BY <1>2 DEF At, Busy
  <2>2. Granted(r) /\ Awaited(r) /\ r.from # None
    BY <1>2, Nones DEF RequestsOK
  <2>3. QED
    BY <1>2, <2>1, <2>2 DEF Granted, Awaited
<1>3. QED
  BY <1>1, <1>2 DEF Answered, ProcsOK

LEMMA NobodyWaits ==
  ASSUME TypeOK, NEW a \in Actors, NEW r \in Orphaned(a)
  PROVE  \/ r \in requests /\ r.from # a
         \/ r \in RequestType /\ r.from = None /\ r.stage \notin Answers
<1>1. ASSUME NEW q \in requests, q.stage \notin Answers, r = [q EXCEPT !.from = None]
      PROVE  r \in RequestType /\ r.from = None /\ r.stage \notin Answers
  <2>1. q \in RequestType
    BY DEF TypeOK
  <2>2. QED
    BY <1>1, <2>1 DEF RequestType
<1>2. QED
  BY <1>1 DEF Orphaned

LEMMA GoesOn ==
  ASSUME ProcsOK, NEW a \in Actors, NEW y \in ProcType, proc' = [proc EXCEPT ![a] = y], log' = log,
         y.pc \in Idling \/ (Busy(a) /\ y.command = proc[a].command),
         \A r \in requests' : RequestAfter(a, y, r)
  PROVE  ActorStep(a)
<1>1. CommandAfter(a, y)
  BY DEF CommandAfter, ProcsOK
<1>2. QED
  BY <1>1 DEF ActorStep

LEMMA NothingSent ==
  ASSUME TypeOK, RequestsOK, NEW a \in Actors, proc[a].pc # "waiting", requests' = requests, NEW y
  PROVE  \A r \in requests' : RequestAfter(a, y, r)
  BY NotWaiting DEF RequestAfter

LEMMA Orphans ==
  ASSUME TypeOK, NEW a \in Actors, requests' = Orphaned(a), NEW y
  PROVE  \A r \in requests' : RequestAfter(a, y, r)
  BY NobodyWaits DEF RequestAfter

(* The attempts of a coordinator or a form. *)
LEMMA AttemptStep ==
  ASSUME TypeOK, RequestsOK, ProcsOK, NEW a \in Actors, Attempt(a)
  PROVE  ActorStep(a)
<1>1. ASSUME AskPhoto(a) \/ Upload(a)
      PROVE  ActorStep(a)
  <2>1. /\ proc[a].pc # "waiting" /\ Busy(a) /\ UNCHANGED <<log, requests>>
        /\ \/ \E answer \in Told : Tells(a, answer)
           \/ \E pc \in Steps : Turns(a, pc)
    BY <1>1 DEF AskPhoto, Upload, At, Busy, server, Told, Steps
  <2>2. PICK y \in ProcType : proc' = [proc EXCEPT ![a] = y] /\ y.command = proc[a].command
    BY <2>1, TellsStep, TurnsStep
  <2>3. QED
    BY <2>1, <2>2, NothingSent, GoesOn
<1>2. ASSUME Send(a)
      PROVE  ActorStep(a)
  <2>1. /\ proc[a].pc # "waiting" /\ Busy(a) /\ UNCHANGED log /\ Turns(a, "waiting")
        /\ requests' = requests \cup
             {[command |-> proc[a].command, from |-> a, stage |-> "sent"]}
    BY <1>2 DEF Send, At, Busy, server
  <2>2. "waiting" \in Steps
    BY DEF Steps
  <2>3. PICK y \in ProcType : /\ proc' = [proc EXCEPT ![a] = y]
                              /\ y.pc = "waiting" /\ y.command = proc[a].command
    BY <2>1, <2>2, TurnsStep
  <2>4. \A r \in requests' : RequestAfter(a, y, r)
    BY <2>1, <2>3, NotWaiting DEF RequestAfter
  <2>5. QED
    BY <2>1, <2>3, <2>4, GoesOn
<1>3. QED
  BY <1>1, <1>2 DEF Attempt

LEMMA LeavesStep ==
  ASSUME TypeOK, ProcsOK, NEW a \in Actors, LoseAnswer(a) \/ Close(a)
  PROVE  ActorStep(a)
<1>1. CASE LoseAnswer(a)
  <2>1. Busy(a) /\ log' = log /\ requests' = Orphaned(a) /\ Tells(a, "retry")
    BY <1>1 DEF LoseAnswer, At, Busy, server
  <2>2. PICK y \in ProcType : proc' = [proc EXCEPT ![a] = y] /\ y.command = proc[a].command
    BY <2>1, TellsStep DEF Told
  <2>3. QED
    BY <2>1, <2>2, Orphans, GoesOn
<1>2. CASE Close(a)
  <2>1. log' = log /\ requests' = Orphaned(a) /\ proc' = [proc EXCEPT ![a] = Closed]
    BY <1>2 DEF Close, Closes, server
  <2>2. QED
    BY <2>1, Resting, Orphans, GoesOn
<1>3. QED
  BY <1>1, <1>2

(* An answer is taken: the tab rests or goes on to send. *)
LEMMA TakesAnswer ==
  ASSUME TypeOK, RequestsOK, ProcsOK, NEW a \in Actors, NEW answer, Answered(a, answer), log' = log,
         \/ proc' = [proc EXCEPT ![a] = Idle]
         \/ proc' = [proc EXCEPT ![a] = Closed]
         \/ proc' = [proc EXCEPT ![a] = [@ EXCEPT !.pc = "send", !.answer = "retry"]]
  PROVE  ActorStep(a)
<1>1. Busy(a) /\ \A y : \A r \in requests' : RequestAfter(a, y, r)
  BY AnswerTaken DEF RequestAfter
<1>2. ASSUME NEW y \in {Idle, Closed}, proc' = [proc EXCEPT ![a] = y]
      PROVE  ActorStep(a)
  BY <1>1, <1>2, Resting, GoesOn
<1>3. CASE proc' = [proc EXCEPT ![a] = [@ EXCEPT !.pc = "send", !.answer = "retry"]]
  <2>1. Turns(a, "send") /\ "send" \in Steps
    <3>1. proc \in [Actors -> ProcType] /\ proc[a] \in ProcType
      BY DEF TypeOK
    <3>2. QED
      BY <1>3, <3>1 DEF Turns, Steps
  <2>2. PICK y \in ProcType : proc' = [proc EXCEPT ![a] = y] /\ y.command = proc[a].command
    BY <2>1, TurnsStep
  <2>3. QED
    BY <1>1, <2>2, GoesOn
<1>4. QED
  BY <1>2, <1>3

LEMMA WorkStep ==
  ASSUME TypeOK, RequestsOK, ProcsOK, NEW d \in Drains, Work(d)
  PROVE  ActorStep(d)
<1>1. d \in Actors
  BY DEF Actors
<1>2. CASE OpenDrain(d)
  <2>1. /\ proc[d].pc # "waiting" /\ UNCHANGED <<log, requests>>
        /\ proc' = [proc EXCEPT ![d] = Idle]
    BY <1>2 DEF OpenDrain, At, server
  <2>2. QED
    BY <1>1, <2>1, Resting, NothingSent, GoesOn
<1>3. CASE Claim(d)
  <2>1. PICK y : y = [pc |-> IF item.photo THEN "send" ELSE "photo",
                      command |-> item.command, answer |-> "retry"]
    OBVIOUS
  <2>2. /\ item \in ItemType /\ item.command \in Command
        /\ item' = [item EXCEPT !.state = "syncing", !.holder = d, !.live = TRUE]
    BY <1>3 DEF Claim, Claimable, TypeOK, ItemType
  <2>3. item' \in ItemType /\ item'.holder = d /\ item'.command = item.command
    BY <2>2 DEF ItemType
  <2>4. y \in ProcType /\ y.pc # "waiting" /\ y.command = item.command
    BY <2>1, <2>2 DEF ProcType
  <2>5. /\ proc[d].pc # "waiting" /\ UNCHANGED <<log, requests>>
        /\ proc' = [proc EXCEPT ![d] = y]
    BY <1>3, <2>1 DEF Claim, At, server
  <2>6. CommandAfter(d, y)
    BY <2>2, <2>3, <2>4, Nones DEF CommandAfter
  <2>7. QED
    BY <1>1, <2>4, <2>5, <2>6, NothingSent DEF ActorStep
<1>4. CASE Attempt(d)
  BY <1>1, <1>4, AttemptStep
<1>5. CASE Abandon(d)
  <2>1. /\ log' = log /\ requests' = Orphaned(d)
        /\ \E y \in {Idle, Closed} : proc' = [proc EXCEPT ![d] = y]
    BY <1>5 DEF Abandon, server
  <2>2. QED
    BY <1>1, <2>1, Resting, Orphans, GoesOn
<1>6. CASE ReportToQueue(d)
  <2>1. PICK answer :
          /\ Answered(d, answer) /\ log' = log
          /\ \/ proc' = [proc EXCEPT ![d] = Idle]
             \/ proc' = [proc EXCEPT ![d] = [@ EXCEPT !.pc = "send", !.answer = "retry"]]
    BY <1>6 DEF ReportToQueue, server
  <2>2. QED
    BY <1>1, <2>1, TakesAnswer
<1>7. QED
  BY <1>2, <1>3, <1>4, <1>5, <1>6 DEF Work

(* The form's command is a command, whether the draft gives the id or not. *)
LEMMA SavedId ==
  ASSUME TypeOK, NEW f \in Forms, MaySave(f)
  PROVE  SubmissionId \in Ids /\ \A content \in Contents : CommandOf(f, content) \in Command
<1>1. CASE draft = None
  BY <1>1 DEF MaySave, SubmissionId, CommandOf, Command, TypeOK
<1>2. CASE draft # None
  BY <1>2 DEF SubmissionId, CommandOf, Command, TypeOK
<1>3. QED
  BY <1>1, <1>2

LEMMA FillInStep ==
  ASSUME TypeOK, RequestsOK, ProcsOK, NEW f \in Forms, FillIn(f)
  PROVE  ActorStep(f) \/ UNCHANGED <<log, requests, proc>>
<1>1. f \in Actors /\ f \notin Drains
  BY Nones DEF Actors
<1>2. CASE OpenForm(f)
  <2>1. /\ proc[f].pc # "waiting" /\ UNCHANGED <<log, requests>>
        /\ proc' = [proc EXCEPT ![f] = Idle]
    BY <1>2 DEF OpenForm, At, server
  <2>2. QED
    BY <1>1, <2>1, Resting, NothingSent, GoesOn
<1>3. CASE SubmitForm(f)
  <2>1. PICK content \in Contents :
          /\ SaveDraft(f)
          /\ proc' = [proc EXCEPT ![f] = [pc |-> IF SubmissionId \in uploaded[f] THEN "send" ELSE "photo",
                        command |-> CommandOf(f, content), answer |-> "retry"]]
    BY <1>3 DEF SubmitForm
  <2>2. PICK y : y = [pc |-> IF SubmissionId \in uploaded[f] THEN "send" ELSE "photo",
                      command |-> CommandOf(f, content), answer |-> "retry"]
    OBVIOUS
  <2>3. CommandOf(f, content) \in Command
    BY <2>1, SavedId DEF SaveDraft
  <2>4. y \in ProcType /\ y.pc # "waiting" /\ y.command \in Command
    BY <2>2, <2>3 DEF ProcType
  <2>5. proc[f].pc # "waiting" /\ UNCHANGED <<log, requests>>
    BY <2>1 DEF SaveDraft, MaySave, At, server
  <2>6. CommandAfter(f, y)
    BY <1>1, <2>4 DEF CommandAfter
  <2>7. proc' = [proc EXCEPT ![f] = y]
    BY <2>1, <2>2
  <2>8. QED
    BY <1>1, <2>4, <2>5, <2>6, <2>7, NothingSent DEF ActorStep
<1>4. CASE Attempt(f)
  BY <1>1, <1>4, AttemptStep
<1>5. CASE ReportToForm(f)
  <2>1. PICK answer :
          /\ Answered(f, answer) /\ log' = log
          /\ \/ proc' = [proc EXCEPT ![f] = Idle]
             \/ proc' = [proc EXCEPT ![f] = [@ EXCEPT !.pc = "send", !.answer = "retry"]]
    BY <1>5 DEF ReportToForm, server
  <2>2. QED
    BY <1>1, <2>1, TakesAnswer
<1>6. CASE ConfirmDraft(f)
  BY <1>1, <1>6, TakesAnswer DEF ConfirmDraft, Closes, server
<1>7. CASE Edit(f) \/ Handoff(f) \/ Reload(f) \/ DiscardDraft(f)
  BY <1>7 DEF Edit, SaveDraft, Handoff, Reload, DiscardDraft, server
<1>8. QED
  BY <1>2, <1>3, <1>4, <1>5, <1>6, <1>7 DEF FillIn

(* What a request becomes on the server, where nothing else moves. *)
ServeStep == \E r \in requests : Serve(r)

LEMMA EveryStep ==
  ASSUME Inv, [Next]_vars
  PROVE  \/ \E a \in Actors : ActorStep(a)
         \/ ServeStep
         \/ UNCHANGED <<requests, proc>> /\ log \subseteq log'
<1> USE DEF Inv
<1>1. ASSUME NEW d \in Drains, Work(d)
      PROVE  \E a \in Actors : ActorStep(a)
  BY <1>1, WorkStep DEF Actors
<1>2. ASSUME NEW f \in Forms, FillIn(f)
      PROVE  (\E a \in Actors : ActorStep(a)) \/ UNCHANGED <<log, requests, proc>>
  BY <1>2, FillInStep DEF Actors
<1>3. ASSUME NEW a \in Actors, LoseAnswer(a) \/ Close(a)
      PROVE  ActorStep(a)
  BY <1>3, LeavesStep
<1>4. ASSUME NEW i \in Ids, LosePhoto(i)
      PROVE  UNCHANGED <<log, requests, proc>>
  BY <1>4 DEF LosePhoto, server
<1>5. CASE ClaimRunsOut \/ ClaimLapses \/ DiscardItem \/ ExpireItem \/ ExpireDraft \/ Logout
  BY <1>5 DEF ClaimRunsOut, ClaimLapses, DiscardItem, ExpireItem, ExpireDraft, Logout, server
<1>6. CASE OthersChange
  BY <1>6 DEF OthersChange, Reschedule, BlockTask, CancelTask, CompleteElsewhere
<1>7. CASE UNCHANGED vars
  BY <1>7 DEF vars
<1>8. QED
  BY <1>1, <1>2, <1>3, <1>4, <1>5, <1>6, <1>7 DEF Next, ServeStep
-----------------------------------------------------------------------------
(* Requests and tabs.                                                      *)
RequestsTyped == requests \subseteq RequestType /\ proc \in [Actors -> ProcType]

LEMMA ActorRequests ==
  ASSUME Inv, NEW a \in Actors, ActorStep(a)
  PROVE  RequestsTyped' /\ RequestsOK' /\ ProcsOK'
<1>1. PICK y \in ProcType : /\ proc' = [proc EXCEPT ![a] = y] /\ CommandAfter(a, y)
                            /\ \A r \in requests' : RequestAfter(a, y, r) /\ log' = log
  BY DEF ActorStep
<1>2. /\ proc \in [Actors -> ProcType] /\ requests \subseteq RequestType
      /\ RequestsOK /\ ProcsOK
  BY DEF Inv, TypeOK
<1>3. /\ proc' \in [Actors -> ProcType] /\ proc'[a] = y
      /\ \A b \in Actors \ {a} : proc'[b] = proc[b]
  BY <1>1, <1>2
<1>4. ProcsOK'
  <2>1. Busy(a)' => y.command \in Command
    BY <1>1, <1>3 DEF Busy, At, CommandAfter, Idling
  <2>2. \A b \in Actors \ {a} : Busy(b)' => proc'[b].command \in Command
    BY <1>2, <1>3 DEF Busy, At, ProcsOK
  <2>3. QED
    BY <1>3, <2>1, <2>2 DEF ProcsOK
<1>5. a # None
  BY Nones
<1>6. ASSUME NEW r \in requests'
      PROVE  r \in RequestType /\ Granted(r)' /\ Awaited(r)'
  <2>1. RequestAfter(a, y, r) /\ log' = log
    BY <1>1, <1>6
  <2>2. \A s \in requests' : RequestAfter(a, y, s)
    BY <1>1
  <2>3. CASE r \in requests /\ r.from # a
    <3>1. r \in RequestType /\ Granted(r) /\ Awaited(r)
      BY <1>2, <2>3 DEF RequestsOK
    <3>2. Granted(r)'
      BY <2>1, <3>1 DEF Granted
    <3>3. r.from # None => r.from \in Actors \ {a}
      BY <2>3, <3>1 DEF RequestType
    <3>4. \A s \in requests' : r.from # None /\ s.from = r.from => s \in requests
      BY <2>2, <2>3 DEF RequestAfter
    <3>5. Awaited(r)'
      BY <1>3, <3>1, <3>3, <3>4 DEF Awaited
    <3>6. QED
      BY <3>1, <3>2, <3>5
  <2>4. CASE r \in RequestType /\ r.from = None /\ r.stage \notin Answers
    BY <2>4 DEF Granted, Awaited, Answers
  <2>5. CASE /\ y.pc = "waiting"
             /\ r = [command |-> y.command, from |-> a, stage |-> "sent"]
    <3>1. y.command \in Command
      BY <1>1, <2>5 DEF CommandAfter, Idling
    <3>2. r \in RequestType /\ r.from = a /\ r.command = y.command /\ r.stage = "sent"
      BY <2>5, <3>1 DEF RequestType
    <3>3. \A s \in requests' : s.from = a => s = r
      BY <1>5, <2>2, <2>5 DEF RequestAfter
    <3>4. QED
      BY <1>3, <2>5, <3>2, <3>3 DEF Granted, Awaited
  <2>6. QED
    BY <2>1, <2>3, <2>4, <2>5 DEF RequestAfter
<1>7. QED
  BY <1>3, <1>4, <1>6 DEF RequestsTyped, RequestsOK

(* The server turns a request to a stage, and grants it with its event. *)
LEMMA Replays ==
  ASSUME NEW c
  PROVE  /\ Replay(c) \in {"ok", "refused", "none"}
         /\ Replay(c) = "ok" => \E e \in log : e.command = c
         /\ Replay(c) = "none" => status # "done"
  BY DEF Replay

LEMMA ServeTurns ==
  ASSUME TypeOK, NEW r \in requests, Serve(r)
  PROVE  \E stage \in {"new", "checked"} \cup Answers :
           /\ Becomes(r, stage)
           /\ stage = "ok" => \E e \in log' : e.command = r.command
           /\ log \subseteq log' /\ proc' = proc
<1> DEFINE Stages == {"new", "checked"} \cup Answers
<1>1. proc' = proc
  BY DEF Serve
<1>2. CASE Resolve(r)
  <2>1. PICK stage \in Stages : /\ Becomes(r, stage)
                                /\ stage = "ok" => Replay(r.command) = "ok"
    BY <1>2, Replays DEF Resolve, Answers
  <2>2. log' = log
    BY <1>2 DEF Resolve, server
  <2>3. QED
    BY <1>1, <2>1, <2>2, Replays
<1>3. CASE Validate(r)
  <2>1. PICK stage \in Stages : Becomes(r, stage) /\ stage # "ok"
    BY <1>3 DEF Validate, Answers
  <2>2. log' = log
    BY <1>3 DEF Validate, server
  <2>3. QED
    BY <1>1, <2>1, <2>2
<1>4. CASE Submit(r)
  <2>1. CASE Verdict(r.command) = "append"
    <3>1. /\ log' = log \cup {[command |-> r.command, at |-> version]}
          /\ Becomes(r, "ok")
      BY <1>4, <2>1 DEF Submit
    <3>2. PICK e : e = [command |-> r.command, at |-> version]
      OBVIOUS
    <3>3. e \in log' /\ e.command = r.command /\ log \subseteq log'
      BY <3>1, <3>2
    <3>4. "ok" \in Stages
      BY DEF Answers
    <3>5. QED
      BY <1>1, <3>1, <3>3, <3>4
  <2>2. CASE Verdict(r.command) # "append"
    <3>1. Becomes(r, Verdict(r.command)) /\ log' = log
      BY <1>4, <2>2 DEF Submit, server
    <3>2. /\ Verdict(r.command) \in {"ok", "refused"}
          /\ Verdict(r.command) = "ok" => Replay(r.command) = "ok"
      BY <2>2, Replays DEF Verdict
    <3>3. PICK stage \in Stages : stage = Verdict(r.command)
      BY <3>2 DEF Answers
    <3>4. QED
      BY <1>1, <3>1, <3>2, <3>3, Replays
  <2>3. QED
    BY <2>1, <2>2
<1>5. QED
  BY <1>2, <1>3, <1>4 DEF Serve

LEMMA ServeRequests ==
  ASSUME Inv, NEW r \in requests, Serve(r)
  PROVE  RequestsTyped' /\ RequestsOK' /\ ProcsOK'
<1>1. PICK stage \in {"new", "checked"} \cup Answers :
        /\ Becomes(r, stage)
        /\ stage = "ok" => \E e \in log' : e.command = r.command
        /\ log \subseteq log' /\ proc' = proc
  BY ServeTurns DEF Inv
<1>2. /\ proc \in [Actors -> ProcType] /\ requests \subseteq RequestType
      /\ RequestsOK /\ ProcsOK
  BY DEF Inv, TypeOK
<1>3. PICK n : n = [r EXCEPT !.stage = stage]
  OBVIOUS
<1>4. /\ n \in RequestType /\ n.stage = stage
      /\ n.from = r.from /\ n.command = r.command
  BY <1>2, <1>3 DEF RequestType
<1>5. \A q \in requests' : (q \in requests /\ q # r) \/ q = n
  BY <1>1, <1>3 DEF Becomes
<1>6. ASSUME NEW q \in requests'
      PROVE  q \in RequestType /\ Granted(q)' /\ Awaited(q)'
  <2>1. PICK o \in requests : /\ o.from = q.from /\ o.command = q.command
                              /\ (o # r /\ q = o) \/ (o = r /\ q = n)
    BY <1>4, <1>5
  <2>2. Granted(o) /\ Awaited(o)
    BY <1>2 DEF RequestsOK
  <2>3. Granted(q)'
    BY <1>1, <1>4, <2>1, <2>2 DEF Granted
  <2>4. ASSUME NEW s \in requests', s.from = q.from, q.from # None
        PROVE  s = q
    BY <1>4, <1>5, <2>1, <2>2, <2>4 DEF Awaited
  <2>5. Awaited(q)'
    BY <1>1, <2>1, <2>2, <2>4 DEF Awaited
  <2>6. QED
    BY <1>2, <1>4, <2>1, <2>3, <2>5
<1>7. ProcsOK'
  BY <1>1, <1>2 DEF ProcsOK, Busy, At
<1>8. QED
  BY <1>1, <1>2, <1>6, <1>7 DEF RequestsTyped, RequestsOK

LEMMA NextRequests ==
  ASSUME Inv, [Next]_vars
  PROVE  RequestsTyped' /\ RequestsOK' /\ ProcsOK' /\ log \subseteq log'
<1>1. CASE \E a \in Actors : ActorStep(a)
  BY <1>1, ActorRequests DEF ActorStep
<1>2. CASE ServeStep
  BY <1>2, ServeRequests, ServeTurns DEF ServeStep, Inv
<1>3. CASE UNCHANGED <<requests, proc>> /\ log \subseteq log'
  BY <1>3 DEF Inv, TypeOK, RequestsTyped, RequestsOK, Granted, Awaited, ProcsOK, Busy, At
<1>4. QED
  BY <1>1, <1>2, <1>3, EveryStep
-----------------------------------------------------------------------------
(* The task and the stored photographs on the server.                      *)
ServerTyped ==
  /\ version \in 0..(MaxVersion + 1)
  /\ status \in {"open", "blocked", "canceled", "done"}
  /\ log \subseteq [command : Command \cup {None}, at : 0..MaxVersion]
  /\ stored \subseteq Ids

Kept == UNCHANGED server /\ stored' \subseteq Ids

LEMMA AttemptServer ==
  ASSUME TypeOK, ProcsOK, NEW a \in Actors, Attempt(a)
  PROVE  Kept
<1>1. CASE Upload(a)
  <2>1. proc[a].command.id \in Ids
    BY <1>1 DEF Upload, ProcsOK, Busy, At, Command
  <2>2. QED
    BY <1>1, <2>1 DEF Upload, TypeOK, Kept
<1>2. CASE AskPhoto(a) \/ Send(a)
  BY <1>2 DEF AskPhoto, Send, TypeOK, Kept
<1>3. QED
  BY <1>1, <1>2 DEF Attempt

LEMMA WhoMovesTheTask ==
  ASSUME Inv, [Next]_vars
  PROVE  \/ Kept
         \/ stored' = stored /\ (OthersChange \/ \E r \in requests : Submit(r))
<1> USE DEF Inv
<1>1. ASSUME NEW d \in Drains, Work(d)
      PROVE  Kept
  BY <1>1, AttemptServer
     DEF Work, OpenDrain, Claim, Abandon, ReportToQueue, Kept, TypeOK, Actors
<1>2. ASSUME NEW f \in Forms, FillIn(f)
      PROVE  Kept
  <2>1. CASE Attempt(f)
    BY <2>1, AttemptServer DEF Actors
  <2>2. CASE OpenForm(f) \/ Edit(f) \/ SubmitForm(f) \/ Handoff(f) \/ Reload(f)
    BY <2>2 DEF OpenForm, Edit, SubmitForm, SaveDraft, Handoff, Reload, Kept, TypeOK
  <2>3. CASE DiscardDraft(f) \/ ReportToForm(f) \/ ConfirmDraft(f)
    BY <2>3 DEF DiscardDraft, ReportToForm, ConfirmDraft, Kept, TypeOK
  <2>4. QED
    BY <1>2, <2>1, <2>2, <2>3 DEF FillIn
<1>3. ASSUME NEW a \in Actors, LoseAnswer(a) \/ Close(a)
      PROVE  Kept
  BY <1>3 DEF LoseAnswer, Close, Kept, TypeOK
<1>4. ASSUME NEW i \in Ids, LosePhoto(i)
      PROVE  Kept
  BY <1>4 DEF LosePhoto, Kept, TypeOK
<1>5. CASE ClaimRunsOut \/ ClaimLapses \/ DiscardItem \/ ExpireItem \/ ExpireDraft \/ Logout
  BY <1>5 DEF ClaimRunsOut, ClaimLapses, DiscardItem, ExpireItem, ExpireDraft, Logout, Kept, TypeOK
<1>6. ASSUME NEW r \in requests, Serve(r)
      PROVE  Kept \/ (stored' = stored /\ Submit(r))
  BY <1>6 DEF Serve, Resolve, Validate, Kept, TypeOK
<1>7. CASE OthersChange
  BY <1>7 DEF OthersChange
<1>8. CASE UNCHANGED vars
  BY <1>8 DEF vars, server, Kept, TypeOK
<1>9. QED
  BY <1>1, <1>2, <1>3, <1>4, <1>5, <1>6, <1>7, <1>8 DEF Next

(* The event that completes the task. *)
LEMMA Completed ==
  ASSUME ServerTyped, ServerOK, status # "done", NEW c \in Command \cup {None},
         version \in 0..MaxVersion, c # None => version = c.version,
         log' = log \cup {[command |-> c, at |-> version]},
         status' = "done", version' = version + 1, stored' = stored
  PROVE  ServerTyped' /\ ServerOK'
<1>1. PICK n : n = [command |-> c, at |-> version]
  OBVIOUS
<1>2. log = {}
  BY DEF ServerOK
<1>3. log' = {n}
  BY <1>1, <1>2
<1>4. n.command = c /\ n.at = version /\ n \in [command : Command \cup {None}, at : 0..MaxVersion]
  BY <1>1
<1>5. ServerTyped'
  <2>1. version + 1 \in 0..(MaxVersion + 1)
    BY FarmAssumption DEF FarmAssumption
  <2>2. QED
    BY <1>3, <1>4, <2>1 DEF ServerTyped
<1>6. ServerOK'
  BY <1>3, <1>4 DEF ServerOK
<1>7. QED
  BY <1>5, <1>6

LEMMA NextServer ==
  ASSUME Inv, [Next]_vars
  PROVE  ServerTyped' /\ ServerOK'
<1>1. ServerTyped /\ ServerOK /\ requests \subseteq RequestType
  BY DEF Inv, TypeOK, ServerTyped
<1>2. CASE Kept
  BY <1>1, <1>2 DEF Kept, server, ServerTyped, ServerOK
<1>3. ASSUME NEW r \in requests, Submit(r), stored' = stored
      PROVE  ServerTyped' /\ ServerOK'
  <2>1. r.command \in Command /\ r.command.version \in 0..MaxVersion
    BY <1>1 DEF RequestType, Command
  <2>2. CASE Verdict(r.command) = "append"
    <3>1. status # "done" /\ version = r.command.version
      BY <2>2, Replays DEF Verdict
    <3>2. /\ log' = log \cup {[command |-> r.command, at |-> version]}
          /\ status' = "done" /\ version' = version + 1
      BY <1>3, <2>2 DEF Submit
    <3>3. QED
      BY <1>1, <1>3, <2>1, <3>1, <3>2, Completed
  <2>3. CASE Verdict(r.command) # "append"
    BY <1>1, <1>3, <2>3 DEF Submit, server, ServerTyped, ServerOK
  <2>4. QED
    BY <2>2, <2>3
<1>4. CASE OthersChange /\ stored' = stored
  <2>1. version < MaxVersion /\ version' = version + 1 /\ version \in 0..MaxVersion
    BY <1>1, <1>4, FarmAssumption DEF OthersChange, ServerTyped, FarmAssumption
  <2>2. CASE CompleteElsewhere
    <3>1. /\ status # "done" /\ status' = "done"
          /\ log' = log \cup {[command |-> None, at |-> version]}
      BY <2>2 DEF CompleteElsewhere
    <3>2. None \in Command \cup {None}
      OBVIOUS
    <3>3. QED
      BY <1>1, <1>4, <2>1, <3>1, <3>2, Completed
  <2>3. CASE Reschedule \/ BlockTask \/ CancelTask
    <3>1. /\ status # "done" /\ log' = log
          /\ status' \in {"open", "blocked", "canceled"}
      BY <2>3 DEF Reschedule, BlockTask, CancelTask
    <3>2. log = {} /\ version + 1 \in 0..(MaxVersion + 1) /\ ~(version + 1 > MaxVersion)
      BY <1>1, <2>1, <3>1, FarmAssumption DEF ServerOK, FarmAssumption
    <3>3. QED
      BY <1>1, <1>4, <2>1, <3>1, <3>2 DEF ServerTyped, ServerOK
  <2>4. QED
    BY <1>4, <2>2, <2>3 DEF OthersChange
<1>5. QED
  BY <1>2, <1>3, <1>4, WhoMovesTheTask
-----------------------------------------------------------------------------
(* The record of the queue.                                                *)
Resolved == {"queued", "failed", "expired", "server_confirmed"}

RecordTyped ==
  /\ item \in ItemType \cup {None}
  /\ item # None => (item.state = "syncing" <=> item.holder # None)

RecordTrue ==
  item # None /\ item.state = "server_confirmed" => \E e \in log : e.command = item.command

Pending(i) == item # None /\ item.command.id = i /\ item.state \in {"queued", "syncing", "failed"}
Confirmed(i) == \E e \in log : e.command # None /\ e.command.id = i

RecordOK == RecordTyped /\ HolderOK /\ RecordTrue /\ NoWorkIsLost

LEMMA ReleasedFields ==
  ASSUME NEW r \in ItemType, NEW state \in Resolved
  PROVE  \E q \in ItemType : /\ q = Released(r, state)
                             /\ q.command = r.command /\ q.state = state
                             /\ q.holder = None /\ q.live = FALSE
<1>0. PICK q : q = Released(r, state)
  OBVIOUS
<1>1. q = [r EXCEPT !.state = state, !.holder = None, !.live = FALSE,
                    !.photo = r.photo /\ state \in {"queued", "failed"}]
  BY <1>0 DEF Released
<1>2. (r.photo /\ state \in {"queued", "failed"}) \in BOOLEAN
  OBVIOUS
<1>3. /\ q \in ItemType /\ q.command = r.command
      /\ q.state = state /\ q.holder = None /\ q.live = FALSE
  BY <1>1, <1>2 DEF ItemType, Resolved
<1>4. QED
  BY <1>0, <1>3

OutcomeOK(r, answer, q) ==
  /\ q \in ItemType /\ q.command = r.command
  /\ answer = "stored" =>
       q.state = r.state /\ q.holder = r.holder /\ q.live = r.live
  /\ answer # "stored" =>
       /\ q.holder = None /\ q.live = FALSE
       /\ q.state \in {"queued", "failed", "server_confirmed"}
       /\ q.state = "server_confirmed" => answer = "ok"

LEMMA OutcomeFields ==
  ASSUME NEW r \in ItemType, NEW answer \in Answers \cup {"stored", "retry"},
         NEW q, q = Outcome(r, answer)
  PROVE  OutcomeOK(r, answer, q)
<1>1. CASE answer = "stored"
  <2>1. q = [r EXCEPT !.photo = TRUE]
    BY <1>1 DEF Outcome
  <2>2. QED
    BY <1>1, <2>1 DEF ItemType, OutcomeOK
<1>2. CASE answer # "stored"
  <2>1. /\ StateAfter(answer) \in {"queued", "failed", "server_confirmed"}
        /\ StateAfter(answer) = "server_confirmed" => answer = "ok"
    BY <1>2 DEF StateAfter, Answers
  <2>2. PICK state \in Resolved : state = StateAfter(answer)
    BY <2>1 DEF Resolved
  <2>3. state \in Resolved
    BY <2>2
  <2>4. PICK o \in ItemType : /\ o = Released(r, state)
                            /\ o.command = r.command /\ o.state = state
                            /\ o.holder = None /\ o.live = FALSE
    BY <2>3, ReleasedFields
  <2>5. q = [o EXCEPT !.photo = o.photo /\ answer # "missing"]
    BY <1>2, <2>2, <2>4 DEF Outcome
  <2>6. (o.photo /\ answer # "missing") \in BOOLEAN
    OBVIOUS
  <2>7. /\ q \in ItemType /\ q.command = o.command
        /\ q.state = o.state /\ q.holder = o.holder /\ q.live = o.live
    BY <2>4, <2>5, <2>6 DEF ItemType
  <2>8. QED
    BY <1>2, <2>1, <2>2, <2>4, <2>7 DEF OutcomeOK
<1>3. QED
  BY <1>1, <1>2

LEMMA WhoMovesTheRecord ==
  ASSUME [Next]_vars
  PROVE  \/ UNCHANGED <<item, owed>>
         \/ \E d \in Drains : Claim(d) \/ ReportToQueue(d)
         \/ \E f \in Forms : Handoff(f)
         \/ ClaimRunsOut \/ ClaimLapses \/ DiscardItem \/ ExpireItem \/ Logout
<1>1. ASSUME NEW d \in Drains, Work(d)
      PROVE  UNCHANGED <<item, owed>> \/ Claim(d) \/ ReportToQueue(d)
  BY <1>1 DEF Work, OpenDrain, Attempt, AskPhoto, Upload, Send, Abandon, device
<1>2. ASSUME NEW f \in Forms, FillIn(f)
      PROVE  UNCHANGED <<item, owed>> \/ Handoff(f)
  <2>1. CASE Attempt(f)
    BY <2>1 DEF Attempt, AskPhoto, Upload, Send, device
  <2>2. CASE OpenForm(f) \/ Edit(f) \/ SubmitForm(f) \/ Reload(f)
    BY <2>2 DEF OpenForm, Edit, SubmitForm, SaveDraft, Reload, device
  <2>3. CASE DiscardDraft(f) \/ ReportToForm(f) \/ ConfirmDraft(f)
    BY <2>3 DEF DiscardDraft, ReportToForm, ConfirmDraft, device
  <2>4. QED
    BY <1>2, <2>1, <2>2, <2>3 DEF FillIn
<1>3. ASSUME NEW a \in Actors, LoseAnswer(a) \/ Close(a)
      PROVE  UNCHANGED <<item, owed>>
  BY <1>3 DEF LoseAnswer, Close, device
<1>4. ASSUME NEW r \in requests, Serve(r)
      PROVE  UNCHANGED <<item, owed>>
  BY <1>4 DEF Serve, device
<1>5. ASSUME NEW i \in Ids, LosePhoto(i)
      PROVE  UNCHANGED <<item, owed>>
  BY <1>5 DEF LosePhoto, device
<1>6. CASE OthersChange \/ ExpireDraft
  BY <1>6 DEF OthersChange, ExpireDraft, device
<1>7. CASE UNCHANGED vars
  BY <1>7 DEF vars
<1>8. QED
  BY <1>1, <1>2, <1>3, <1>4, <1>5, <1>6, <1>7 DEF Next

(* A coordinator that works took its command up now, with the record, or   *)
(* works on it since before.                                               *)
LEMMA WorksOn ==
  ASSUME Inv, [Next]_vars, NEW h \in Drains, Busy(h)'
  PROVE  \/ Busy(h) /\ proc'[h].command = proc[h].command
         \/ item' # None /\ item'.holder = h /\ item'.command = proc'[h].command
<1>1. proc \in [Actors -> ProcType] /\ h \in Actors
  BY DEF Inv, TypeOK, Actors
<1>2. CASE proc' = proc
  BY <1>2 DEF Busy, At
<1>3. ASSUME NEW a \in Actors, ActorStep(a)
      PROVE  \/ Busy(h) /\ proc'[h].command = proc[h].command
             \/ item' # None /\ item'.holder = h /\ item'.command = proc'[h].command
  <2>1. PICK y \in ProcType : proc' = [proc EXCEPT ![a] = y] /\ CommandAfter(a, y)
    BY <1>3 DEF ActorStep
  <2>2. CASE h = a
    <3>1. proc'[h] = y /\ y.pc \notin Idling
      BY <1>1, <2>1, <2>2 DEF Busy, At, Idling
    <3>2. QED
      BY <2>1, <2>2, <3>1 DEF CommandAfter
  <2>3. CASE h # a
    BY <1>1, <2>1, <2>3 DEF Busy, At
  <2>4. QED
    BY <2>2, <2>3
<1>4. CASE ServeStep
  BY <1>2, <1>4 DEF ServeStep, Serve
<1>5. QED
  BY <1>2, <1>3, <1>4, EveryStep

LEMMA SameCommand ==
  ASSUME Inv, [Next]_vars, item # None, item' \in ItemType, item'.command = item.command,
         item'.holder \in {None, item.holder}, item'.live => item'.state = "syncing"
  PROVE  HolderOK'
<1>1. item \in ItemType /\ HolderOK
  BY DEF Inv, TypeOK
<1>2. PICK h : h = item'.holder
  OBVIOUS
<1>3. ASSUME h # None, Busy(h)'
      PROVE  proc'[h].command = item'.command
  <2>1. h = item.holder /\ h \in Drains
    BY <1>1, <1>2, <1>3 DEF ItemType
  <2>2. QED
    BY <1>1, <1>2, <1>3, <2>1, WorksOn DEF HolderOK
<1>4. QED
  BY <1>2, <1>3 DEF HolderOK, Busy, At

(* A record given up, or never there, leaves only what the server has. *)
LEMMA NoRecordOwed ==
  ASSUME Inv, log \subseteq log', NEW i \in owed,
         item = None \/ i # item.command.id \/ item.state \notin {"queued", "syncing", "failed"}
  PROVE  Confirmed(i)'
  BY DEF Inv, NoWorkIsLost, Confirmed

(* The record changes its state but not its command.                       *)
LEMMA SameRecord ==
  ASSUME Inv, [Next]_vars, item # None, item' \in ItemType, item'.command = item.command,
         item'.holder \in {None, item.holder}, item'.live => item'.state = "syncing",
         item'.state = "syncing" <=> item'.holder # None,
         item'.state = "server_confirmed" => \E e \in log' : e.command = item.command,
         owed' \subseteq owed,
         item.command.id \in owed' /\ item'.state = "expired" =>
           item.state \in {"expired", "server_confirmed"}
  PROVE  RecordOK'
<1>1. item \in ItemType /\ item' # None /\ item.command \in Command /\ log \subseteq log'
  BY Nones, NextRequests DEF Inv, TypeOK, ItemType
<1>2. RecordTyped' /\ HolderOK' /\ RecordTrue'
  BY <1>1, SameCommand DEF RecordTyped, RecordTrue
<1>3. ASSUME NEW i \in owed'
      PROVE  Pending(i)' \/ Confirmed(i)'
  <2>1. i \in owed
    BY <1>3
  <2>2. CASE i = item.command.id
    <3>1. CASE item'.state \in {"queued", "syncing", "failed"}
      BY <1>1, <2>2, <3>1 DEF Pending
    <3>2. CASE item'.state = "server_confirmed"
      BY <1>1, <2>2, <3>2, Nones DEF Confirmed
    <3>3. CASE item'.state = "expired"
      BY <1>1, <1>3, <2>1, <2>2, <3>3, NoRecordOwed
    <3>4. QED
      BY <3>1, <3>2, <3>3 DEF ItemType
  <2>3. CASE i # item.command.id
    BY <1>1, <2>1, <2>3, NoRecordOwed
  <2>4. QED
    BY <2>2, <2>3
<1>4. NoWorkIsLost'
  BY <1>3 DEF NoWorkIsLost, Pending, Confirmed
<1>5. QED
  BY <1>2, <1>4 DEF RecordOK

LEMMA NoRecord ==
  ASSUME Inv, [Next]_vars, item' = None,
         \A i \in owed' : i \in owed /\ item # None /\
           (i # item.command.id \/ item.state \notin {"queued", "syncing", "failed"})
  PROVE  RecordOK'
<1>1. log \subseteq log'
  BY NextRequests
<1>2. RecordTyped' /\ HolderOK' /\ RecordTrue'
  BY DEF RecordTyped, HolderOK, RecordTrue
<1>3. \A i \in owed' : Confirmed(i)'
  BY <1>1, NoRecordOwed
<1>4. QED
  BY <1>2, <1>3 DEF RecordOK, NoWorkIsLost, Confirmed

LEMMA ReportedRecord ==
  ASSUME Inv, [Next]_vars, NEW d \in Drains, ReportToQueue(d), Mine(d)
  PROVE  RecordOK' /\ item.holder = d /\ proc[d].command = item.command /\ proc'[d] # proc[d]
<1>1. PICK answer \in Answers \cup {"stored", "retry"} :
        /\ Answered(d, answer) /\ item' = Outcome(item, answer) /\ owed' = owed /\ log' = log
        /\ proc' = [proc EXCEPT ![d] = IF answer = "stored"
                     THEN [@ EXCEPT !.pc = "send", !.answer = "retry"] ELSE Idle]
  BY DEF ReportToQueue, server
<1>2. /\ item # None /\ item \in ItemType /\ item.holder = d /\ item.state = "syncing"
      /\ d \in Actors /\ HolderOK /\ proc \in [Actors -> ProcType]
  BY DEF Mine, Inv, TypeOK, Actors
<1>3. /\ Busy(d) /\ proc[d].pc \in {"report", "waiting"}
      /\ answer = "ok" => \E e \in log : e.command = proc[d].command
  BY <1>1, <1>2, AnswerTaken DEF Inv
<1>4. proc[d].command = item.command
  BY <1>2, <1>3, Nones DEF HolderOK, Actors
<1>5. /\ item' \in ItemType /\ item'.command = item.command
      /\ answer = "stored" =>
           item'.state = item.state /\ item'.holder = item.holder /\ item'.live = item.live
      /\ answer # "stored" =>
           /\ item'.holder = None /\ item'.live = FALSE
           /\ item'.state \in {"queued", "failed", "server_confirmed"}
           /\ item'.state = "server_confirmed" => answer = "ok"
  <2>1. PICK q : q = item'
    OBVIOUS
  <2>2. PICK r : r = item
    OBVIOUS
  <2>3. OutcomeOK(r, answer, q)
    BY <1>1, <1>2, <2>1, <2>2, OutcomeFields
  <2>4. QED
    BY <2>1, <2>2, <2>3 DEF OutcomeOK
<1>6. RecordOK'
  <2>1. CASE answer = "stored"
    BY <1>1, <1>2, <1>5, <2>1, SameRecord, Nones DEF Actors
  <2>2. CASE answer # "stored"
    BY <1>1, <1>2, <1>3, <1>4, <1>5, <2>2, SameRecord
  <2>3. QED
    BY <2>1, <2>2
<1>7. proc'[d] # proc[d]
  <2>1. proc[d] \in ProcType
    BY <1>2
  <2>2. [proc[d] EXCEPT !.pc = "send", !.answer = "retry"].pc = "send" /\ Idle.pc = "idle"
    BY <2>1 DEF ProcType, Idle, Closed
  <2>3. QED
    BY <1>1, <1>2, <1>3, <2>2
<1>8. QED
  BY <1>2, <1>4, <1>6, <1>7

LEMMA ClaimedRecord ==
  ASSUME Inv, [Next]_vars, NEW d \in Drains, Claim(d)
  PROVE  RecordOK'
<1>1. /\ item # None /\ item \in ItemType /\ item.state \in {"queued", "syncing"}
      /\ item.command \in Command /\ log \subseteq log'
  BY NextRequests DEF Claim, Claimable, Inv, TypeOK, ItemType
<1>2. /\ item' = [item EXCEPT !.state = "syncing", !.holder = d, !.live = TRUE]
      /\ owed' = owed
  BY DEF Claim
<1>3. /\ item' \in ItemType /\ item'.state = "syncing" /\ item'.holder = d
      /\ item'.command = item.command
  BY <1>1, <1>2 DEF ItemType
<1>4. d \in Actors /\ d # None /\ item' # None
  BY <1>3, Nones DEF Actors
<1>5. proc'[d].command = item.command
  <2>1. proc \in [Actors -> ProcType]
    BY DEF Inv, TypeOK
  <2>2. QED
    BY <1>4, <2>1 DEF Claim
<1>6. RecordTyped' /\ HolderOK' /\ RecordTrue'
  BY <1>3, <1>4, <1>5 DEF RecordTyped, HolderOK, RecordTrue
<1>7. ASSUME NEW i \in owed'
      PROVE  Pending(i)' \/ Confirmed(i)'
  <2>1. i = item.command.id => Pending(i)'
    BY <1>3, <1>4 DEF Pending
  <2>2. i # item.command.id => Confirmed(i)'
    BY <1>1, <1>2, <1>7, NoRecordOwed
  <2>3. QED
    BY <2>1, <2>2
<1>8. QED
  BY <1>6, <1>7 DEF RecordOK, NoWorkIsLost, Pending, Confirmed

LEMMA QueuedRecord ==
  ASSUME Inv, [Next]_vars, NEW f \in Forms, Handoff(f)
  PROVE  RecordOK'
<1>1. PICK content \in Contents :
        /\ MaySave(f) /\ item = None
        /\ item' = [command |-> CommandOf(f, content), photo |-> FALSE, holder |-> None,
                    live |-> FALSE, state |-> "queued"]
        /\ owed' = owed \cup {SubmissionId}
  BY DEF Handoff, MayQueue
<1>2. CommandOf(f, content) \in Command /\ CommandOf(f, content).id = SubmissionId
  BY <1>1, SavedId DEF Inv, CommandOf
<1>3. /\ item' \in ItemType /\ item'.state = "queued" /\ item'.holder = None
      /\ item'.live = FALSE /\ item'.command.id = SubmissionId
  BY <1>1, <1>2 DEF ItemType
<1>4. item' # None /\ log \subseteq log'
  BY <1>3, Nones, NextRequests
<1>5. RecordTyped' /\ HolderOK' /\ RecordTrue'
  BY <1>3, <1>4 DEF RecordTyped, HolderOK, RecordTrue
<1>6. ASSUME NEW i \in owed'
      PROVE  Pending(i)' \/ Confirmed(i)'
  <2>1. i = SubmissionId => Pending(i)'
    <3>1. PICK id : id = SubmissionId
      OBVIOUS
    <3>2. i = id => Pending(i)'
      BY <1>3, <1>4, <3>1 DEF Pending
    <3>3. QED
      BY <3>1, <3>2
  <2>2. i \in owed => Confirmed(i)'
    BY <1>1, <1>4, NoRecordOwed
  <2>3. QED
    BY <1>1, <1>6, <2>1, <2>2
<1>7. QED
  BY <1>5, <1>6 DEF RecordOK, NoWorkIsLost, Pending, Confirmed

LEMMA EndedClaim ==
  ASSUME Inv, [Next]_vars, ClaimRunsOut \/ ClaimLapses
  PROVE  RecordOK' /\ item' = [item EXCEPT !.live = FALSE]
<1>1. /\ item # None /\ item \in ItemType /\ HolderOK
      /\ item.state = "syncing" <=> item.holder # None
      /\ RecordTrue /\ log \subseteq log'
  BY NextRequests DEF ClaimRunsOut, ClaimLapses, Inv, TypeOK, ReceiptIsTrue, RecordTrue
<1>2. item' = [item EXCEPT !.live = FALSE] /\ owed' = owed
  BY DEF ClaimRunsOut, ClaimLapses
<1>3. /\ item' \in ItemType /\ item'.command = item.command /\ item'.live = FALSE
      /\ item'.state = item.state /\ item'.holder = item.holder
  BY <1>1, <1>2 DEF ItemType
<1>4. item'.state = "server_confirmed" => \E e \in log' : e.command = item.command
  BY <1>1, <1>3 DEF RecordTrue
<1>5. RecordOK'
  BY <1>1, <1>2, <1>3, <1>4, SameRecord
<1>6. QED
  BY <1>2, <1>5

LEMMA ExpiredRecord ==
  ASSUME Inv, [Next]_vars, ExpireItem
  PROVE  RecordOK' /\ (item' # None => item'.state = "expired")
<1>1. /\ item # None /\ item \in ItemType
      /\ owed' = owed \ {item.command.id}
  BY DEF ExpireItem, GivenUp, Inv, TypeOK
<1>2. CASE item' = None
  BY <1>1, <1>2, NoRecord
<1>3. CASE item' = Released(item, "expired")
  <2>1. PICK r \in ItemType : r = item
    BY <1>1
  <2>2. "expired" \in Resolved
    BY DEF Resolved
  <2>3. PICK q \in ItemType : /\ q = Released(r, "expired")
                              /\ q.command = r.command /\ q.state = "expired"
                              /\ q.holder = None /\ q.live = FALSE
    BY <2>1, <2>2, ReleasedFields
  <2>4. /\ item' \in ItemType /\ item'.command = item.command /\ item'.state = "expired"
        /\ item'.holder = None /\ item'.live = FALSE
    BY <1>3, <2>1, <2>3
  <2>5. QED
    BY <1>1, <2>4, SameRecord
<1>4. QED
  BY <1>2, <1>3 DEF ExpireItem

LEMMA KeptRecord ==
  ASSUME Inv, [Next]_vars, UNCHANGED <<item, owed>>
  PROVE  RecordOK'
<1>1. /\ RecordTyped /\ HolderOK /\ RecordTrue /\ NoWorkIsLost /\ log \subseteq log'
  BY NextRequests DEF RecordTyped, Inv, TypeOK, ReceiptIsTrue, RecordTrue
<1>2. CASE item = None
  BY <1>1, <1>2 DEF RecordOK, RecordTyped, HolderOK, RecordTrue, NoWorkIsLost
<1>3. CASE item # None
  <2>1. /\ item' \in ItemType
        /\ item'.state = "syncing" <=> item'.holder # None
        /\ item'.live => item'.state = "syncing"
        /\ item'.state = "server_confirmed" => \E e \in log' : e.command = item.command
    BY <1>1, <1>3 DEF RecordTyped, HolderOK, RecordTrue
  <2>2. QED
    BY <1>3, <2>1, SameRecord
<1>4. QED
  BY <1>2, <1>3

LEMMA NextRecord ==
  ASSUME Inv, [Next]_vars
  PROVE  RecordOK'
<1>1. ASSUME NEW d \in Drains, ReportToQueue(d)
      PROVE  RecordOK'
  <2>1. CASE Mine(d)
    BY <1>1, <2>1, ReportedRecord
  <2>2. CASE ~Mine(d)
    BY <1>1, <2>2, KeptRecord DEF ReportToQueue
  <2>3. QED
    BY <2>1, <2>2
<1>2. CASE DiscardItem
  <2>1. item' = None /\ item # None /\ owed' = owed \ {item.command.id}
    BY <1>2 DEF DiscardItem, GivenUp
  <2>2. QED
    BY <2>1, NoRecord
<1>3. CASE Logout
  <2>1. item' = None /\ owed' = {}
    BY <1>3 DEF Logout
  <2>2. QED
    BY <2>1, NoRecord
<1>4. QED
  BY <1>1, <1>2, <1>3, ClaimedRecord, QueuedRecord, EndedClaim, ExpiredRecord, KeptRecord,
     WhoMovesTheRecord
-----------------------------------------------------------------------------
(* The draft, and the submission ids given out.                            *)
DraftType == [id : Ids, version : 0..MaxVersion, confirmed : BOOLEAN]

DraftTrue == draft # None /\ draft.confirmed => \E e \in log : e.command # None

DraftOK == draft \in DraftType \cup {None} /\ DraftTrue /\ used \subseteq Ids /\ owed \subseteq used

LEMMA DraftStays ==
  ASSUME Inv, log \subseteq log', draft' \in {draft, None}, used' = used, owed' \subseteq owed
  PROVE  DraftOK'
<1>1. draft \in DraftType \cup {None} /\ DraftTrue /\ used \subseteq Ids /\ owed \subseteq used
  BY DEF Inv, TypeOK, DraftType, ReceiptIsTrue, DraftTrue
<1>2. QED
  BY <1>1 DEF DraftOK, DraftTrue

LEMMA SavedDraft ==
  ASSUME Inv, NEW f \in Forms, SaveDraft(f)
  PROVE  DraftOK'
<1>1. MaySave(f) /\ page \in [Forms -> 0..MaxVersion]
  BY DEF SaveDraft, Inv, TypeOK
<1>2. SubmissionId \in Ids
  BY <1>1, SavedId DEF Inv
<1>3. /\ draft' = [id |-> SubmissionId, version |-> page[f], confirmed |-> FALSE]
      /\ used' = used \cup {SubmissionId} /\ owed' = owed
  BY DEF SaveDraft
<1>4. draft' \in DraftType /\ draft'.confirmed = FALSE
  BY <1>1, <1>2, <1>3 DEF DraftType
<1>5. used \subseteq Ids /\ owed \subseteq used
  BY DEF Inv, TypeOK
<1>6. QED
  BY <1>2, <1>3, <1>4, <1>5 DEF DraftOK, DraftTrue

LEMMA ConfirmedDraft ==
  ASSUME Inv, [Next]_vars, NEW f \in Forms, ConfirmDraft(f)
  PROVE  DraftOK'
<1>1. log \subseteq log' /\ used' = used /\ owed' = owed
  BY NextRequests DEF ConfirmDraft
<1>2. CASE draft' = draft
  BY <1>1, <1>2, DraftStays
<1>3. CASE draft' = [id |-> IF draft = None THEN proc[f].command.id ELSE draft.id,
                     version |-> page[f], confirmed |-> TRUE]
  <2>1. Answered(f, "ok") /\ TypeOK /\ RequestsOK /\ ProcsOK /\ f \in Actors
    BY DEF ConfirmDraft, Inv, Actors
  <2>2. proc[f].command \in Command /\ \E e \in log : e.command = proc[f].command
    BY <2>1, AnswerTaken
  <2>3. draft' \in DraftType
    <3>1. (IF draft = None THEN proc[f].command.id ELSE draft.id) \in Ids
      BY <2>1, <2>2 DEF TypeOK, Command
    <3>2. page[f] \in 0..MaxVersion
      BY <2>1 DEF TypeOK
    <3>3. QED
      BY <1>3, <3>1, <3>2 DEF DraftType
  <2>4. \E e \in log' : e.command # None
    BY <1>1, <2>2, Nones
  <2>5. used \subseteq Ids /\ owed \subseteq used
    BY <2>1 DEF TypeOK
  <2>6. QED
    BY <1>1, <2>3, <2>4, <2>5 DEF DraftOK, DraftTrue
<1>4. QED
  BY <1>2, <1>3 DEF ConfirmDraft

LEMMA NextDraft ==
  ASSUME Inv, [Next]_vars
  PROVE  DraftOK'
<1>1. log \subseteq log'
  BY NextRequests
<1>2. CASE UNCHANGED device
  BY <1>1, <1>2, DraftStays DEF device
<1>3. ASSUME NEW d \in Drains, Work(d)
      PROVE  DraftOK'
  <2>1. draft' = draft /\ used' = used /\ owed' = owed
    BY <1>3 DEF Work, OpenDrain, Claim, Attempt, AskPhoto, Upload, Send, Abandon, ReportToQueue,
                device
  <2>2. QED
    BY <1>1, <2>1, DraftStays
<1>4. ASSUME NEW f \in Forms, FillIn(f)
      PROVE  DraftOK'
  <2>1. CASE OpenForm(f) \/ Reload(f) \/ Attempt(f) \/ ReportToForm(f)
    BY <1>2, <2>1 DEF OpenForm, Reload, Attempt, AskPhoto, Upload, Send, ReportToForm
  <2>2. CASE Edit(f) \/ SubmitForm(f)
    BY <2>2, SavedDraft DEF Edit, SubmitForm
  <2>3. CASE Handoff(f)
    <3>1. SubmissionId \in Ids
      BY <2>3, SavedId DEF Handoff, Inv
    <3>2. /\ draft' = None
          /\ used' = used \cup {SubmissionId} /\ owed' = owed \cup {SubmissionId}
      BY <2>3 DEF Handoff
    <3>3. used \subseteq Ids /\ owed \subseteq used
      BY DEF Inv, TypeOK
    <3>4. QED
      BY <3>1, <3>2, <3>3 DEF DraftOK, DraftTrue
  <2>4. CASE DiscardDraft(f)
    BY <1>1, <2>4, DraftStays DEF DiscardDraft
  <2>5. CASE ConfirmDraft(f)
    BY <2>5, ConfirmedDraft
  <2>6. QED
    BY <1>4, <2>1, <2>2, <2>3, <2>4, <2>5 DEF FillIn
<1>5. ASSUME NEW a \in Actors, LoseAnswer(a) \/ Close(a)
      PROVE  UNCHANGED device
  BY <1>5 DEF LoseAnswer, Close
<1>6. ASSUME NEW r \in requests, Serve(r)
      PROVE  UNCHANGED device
  BY <1>6 DEF Serve
<1>7. ASSUME NEW i \in Ids, LosePhoto(i)
      PROVE  UNCHANGED device
  BY <1>7 DEF LosePhoto
<1>8. CASE OthersChange \/ UNCHANGED vars
  BY <1>2, <1>8 DEF OthersChange, vars, device
<1>9. CASE ClaimRunsOut \/ ClaimLapses \/ DiscardItem \/ ExpireItem \/ ExpireDraft \/ Logout
  <2>1. draft' \in {draft, None} /\ used' = used /\ owed' \subseteq owed
    BY <1>9 DEF ClaimRunsOut, ClaimLapses, DiscardItem, ExpireItem, GivenUp, ExpireDraft, Logout
  <2>2. QED
    BY <1>1, <2>1, DraftStays
<1>10. QED
  BY <1>2, <1>3, <1>4, <1>5, <1>6, <1>7, <1>8, <1>9 DEF Next
-----------------------------------------------------------------------------
(* What the forms show, the session, and the faults there were.            *)
FormTyped ==
  /\ page \in [Forms -> 0..MaxVersion]
  /\ known \in [Forms -> {"null", "current", "old"}]
  /\ uploaded \in [Forms -> SUBSET Ids]

SessionTyped == leased \subseteq Actors /\ faults \in [{"tab", "network"} -> 0..MaxFaults]

LEMMA FaultTyped ==
  ASSUME SessionTyped, NEW kind \in {"tab", "network"}, Fault(kind)
  PROVE  faults' \in [{"tab", "network"} -> 0..MaxFaults]
<1>1. faults[kind] \in 0..MaxFaults /\ faults[kind] < MaxFaults
  BY DEF SessionTyped, Fault
<1>2. faults[kind] + 1 \in 0..MaxFaults
  BY <1>1, FarmAssumption DEF FarmAssumption
<1>3. QED
  BY <1>2 DEF SessionTyped, Fault

LEMMA RevisionTyped ==
  ASSUME FormTyped, NEW f \in Forms
  PROVE  /\ Outdated \in [Forms -> {"null", "current", "old"}]
         /\ Seen \in {"null", "current", "old"}
         /\ \A k \in {"null", "current", "old"} :
              /\ [Outdated EXCEPT ![f] = k] \in [Forms -> {"null", "current", "old"}]
              /\ [known EXCEPT ![f] = k] \in [Forms -> {"null", "current", "old"}]
<1>1. Outdated \in [Forms -> {"null", "current", "old"}]
  BY DEF Outdated, FormTyped
<1>2. QED
  BY <1>1 DEF Seen, FormTyped

LEMMA ForgottenTyped ==
  ASSUME FormTyped, NEW a, Forgets(a)
  PROVE  page' \in [Forms -> 0..MaxVersion] /\ uploaded' \in [Forms -> SUBSET Ids]
  BY FarmAssumption DEF FarmAssumption, FormTyped, Forgets

LEMMA AttemptForms ==
  ASSUME FormTyped, SessionTyped, NEW a \in Actors, Attempt(a)
  PROVE  FormTyped' /\ SessionTyped'
<1>1. UNCHANGED form /\ leased' = leased /\ (faults' = faults \/ Fault("network"))
  BY DEF Attempt, AskPhoto, Upload, Send
<1>2. faults' \in [{"tab", "network"} -> 0..MaxFaults]
  BY <1>1, FaultTyped DEF SessionTyped
<1>3. QED
  BY <1>1, <1>2 DEF form, FormTyped, SessionTyped

LEMMA WorkForms ==
  ASSUME FormTyped, SessionTyped, NEW d \in Drains, Work(d)
  PROVE  FormTyped' /\ SessionTyped'
<1>1. CASE Attempt(d)
  BY <1>1, AttemptForms DEF Actors
<1>2. CASE OpenDrain(d) \/ Claim(d) \/ Abandon(d) \/ ReportToQueue(d)
  <2>1. UNCHANGED <<form, faults>> /\ leased' \subseteq Actors
    BY <1>2 DEF OpenDrain, Claim, Abandon, ReportToQueue, SessionTyped, Actors
  <2>2. QED
    BY <2>1 DEF form, FormTyped, SessionTyped
<1>3. QED
  BY <1>1, <1>2 DEF Work

LEMMA FillInForms ==
  ASSUME FormTyped, SessionTyped, TypeOK, ServerOK, RequestsOK, ProcsOK, NEW f \in Forms, FillIn(f)
  PROVE  FormTyped' /\ SessionTyped'
<1>1. f \in Actors
  BY DEF Actors
<1>2. CASE OpenForm(f)
  <2>1. version \in 0..MaxVersion
    BY <1>2, FarmAssumption DEF OpenForm, ServerOK, TypeOK, FarmAssumption
  <2>2. /\ page' = [page EXCEPT ![f] = version] /\ known' = [known EXCEPT ![f] = Seen]
        /\ UNCHANGED <<uploaded, faults>> /\ leased' = leased \cup {f}
    BY <1>2 DEF OpenForm
  <2>3. QED
    BY <1>1, <2>1, <2>2, RevisionTyped DEF FormTyped, SessionTyped
<1>3. CASE Edit(f) \/ SubmitForm(f) \/ Handoff(f) \/ Reload(f) \/ DiscardDraft(f)
  <2>1. /\ UNCHANGED <<page, uploaded, leased, faults>>
        /\ \/ known' = Outdated
           \/ \E k \in {"null", "current", Seen} :
                known' = [Outdated EXCEPT ![f] = k] \/ known' = [known EXCEPT ![f] = k]
    BY <1>3 DEF Edit, SubmitForm, SaveDraft, Handoff, Reload, DiscardDraft
  <2>2. QED
    BY <2>1, RevisionTyped DEF FormTyped, SessionTyped
<1>4. CASE Attempt(f)
  BY <1>1, <1>4, AttemptForms
<1>5. CASE ReportToForm(f)
  <2>1. PICK answer \in {"stored", "retry", "refused", "missing"} :
          /\ Answered(f, answer)
          /\ uploaded' = [uploaded EXCEPT ![f] =
               CASE answer = "stored"  -> @ \cup {proc[f].command.id}
                 [] answer = "missing" -> @ \ {proc[f].command.id}
                 [] OTHER -> @]
          /\ UNCHANGED <<page, known, leased, faults>>
    BY <1>5 DEF ReportToForm
  <2>2. proc[f].command.id \in Ids
    BY <1>1, <2>1, AnswerTaken DEF Command
  <2>3. uploaded' \in [Forms -> SUBSET Ids]
    BY <2>1, <2>2 DEF FormTyped
  <2>4. QED
    BY <2>1, <2>3 DEF FormTyped, SessionTyped
<1>6. CASE ConfirmDraft(f)
  <2>1. /\ Forgets(f) /\ leased' = leased \ {f} /\ faults' = faults
        /\ \/ known' = [Outdated EXCEPT ![f] = "null"]
           \/ known' = [known EXCEPT ![f] = "null"]
    BY <1>6 DEF ConfirmDraft, Closes
  <2>2. QED
    BY <2>1, ForgottenTyped, RevisionTyped DEF FormTyped, SessionTyped
<1>7. QED
  BY <1>2, <1>3, <1>4, <1>5, <1>6 DEF FillIn

LEMMA LeavesForms ==
  ASSUME FormTyped, SessionTyped, NEW a \in Actors, LoseAnswer(a) \/ Close(a)
  PROVE  FormTyped' /\ SessionTyped'
<1>1. CASE LoseAnswer(a)
  <2>1. faults' \in [{"tab", "network"} -> 0..MaxFaults]
    BY <1>1, FaultTyped DEF LoseAnswer
  <2>2. QED
    BY <1>1, <2>1 DEF LoseAnswer, form, FormTyped, SessionTyped
<1>2. CASE Close(a)
  <2>1. /\ leased' = leased \ {a} /\ Forgets(a) /\ (faults' = faults \/ Fault("tab"))
        /\ known' = [f \in Forms |-> IF f = a THEN "null" ELSE known[f]]
    BY <1>2 DEF Close, Closes
  <2>2. faults' \in [{"tab", "network"} -> 0..MaxFaults]
    BY <2>1, FaultTyped DEF SessionTyped
  <2>3. known' \in [Forms -> {"null", "current", "old"}]
    BY <2>1 DEF FormTyped
  <2>4. QED
    BY <2>1, <2>2, <2>3, ForgottenTyped DEF FormTyped, SessionTyped
<1>3. QED
  BY <1>1, <1>2

LEMMA NextForms ==
  ASSUME Inv, [Next]_vars
  PROVE  FormTyped' /\ SessionTyped'
<1>1. FormTyped /\ SessionTyped
  BY DEF Inv, TypeOK, FormTyped, SessionTyped
<1>2. ASSUME NEW d \in Drains, Work(d)
      PROVE  FormTyped' /\ SessionTyped'
  BY <1>1, <1>2, WorkForms
<1>3. ASSUME NEW f \in Forms, FillIn(f)
      PROVE  FormTyped' /\ SessionTyped'
  BY <1>1, <1>3, FillInForms DEF Inv
<1>4. ASSUME NEW a \in Actors, LoseAnswer(a) \/ Close(a)
      PROVE  FormTyped' /\ SessionTyped'
  BY <1>1, <1>4, LeavesForms
<1>5. CASE UNCHANGED <<form, leased, faults>>
  BY <1>1, <1>5 DEF form, FormTyped, SessionTyped
<1>6. ASSUME NEW r \in requests, Serve(r)
      PROVE  UNCHANGED <<form, leased, faults>>
  BY <1>6 DEF Serve
<1>7. ASSUME NEW i \in Ids, LosePhoto(i)
      PROVE  FormTyped' /\ SessionTyped'
  <2>1. UNCHANGED <<form, leased>> /\ Fault("network")
    BY <1>7 DEF LosePhoto
  <2>2. QED
    BY <1>1, <2>1, FaultTyped DEF form, FormTyped, SessionTyped
<1>8. CASE ClaimRunsOut \/ DiscardItem \/ ExpireItem \/ OthersChange \/ UNCHANGED vars
  BY <1>5, <1>8 DEF ClaimRunsOut, DiscardItem, ExpireItem, OthersChange, vars, form
<1>9. CASE ClaimLapses
  <2>1. UNCHANGED <<form, leased>> /\ Fault("tab")
    BY <1>9 DEF ClaimLapses
  <2>2. QED
    BY <1>1, <2>1, FaultTyped DEF form, FormTyped, SessionTyped
<1>10. CASE ExpireDraft \/ Logout
  <2>1. /\ UNCHANGED <<page, uploaded>> /\ leased' \subseteq leased /\ known' = Outdated
        /\ faults' = faults \/ Fault("tab")
    BY <1>10 DEF ExpireDraft, Logout
  <2>2. Outdated \in [Forms -> {"null", "current", "old"}]
    BY <1>1 DEF Outdated, FormTyped
  <2>3. QED
    BY <1>1, <2>1, <2>2, FaultTyped DEF FormTyped, SessionTyped
<1>11. QED
  BY <1>2, <1>3, <1>4, <1>5, <1>6, <1>7, <1>8, <1>9, <1>10 DEF Next
-----------------------------------------------------------------------------
(* The inductive invariant.                                                *)
LEMMA InitInv == Init => Inv
<1> SUFFICES ASSUME Init
             PROVE  Inv
  OBVIOUS
<1>1. TypeOK
  BY Resting, FarmAssumption DEF Init, TypeOK, FarmAssumption
<1>2. ServerOK /\ RequestsOK
  BY FarmAssumption DEF Init, ServerOK, RequestsOK, FarmAssumption
<1>3. ProcsOK
  BY DEF Init, ProcsOK, Busy, At, Closed
<1>4. HolderOK /\ ReceiptIsTrue /\ NoWorkIsLost
  BY DEF Init, HolderOK, ReceiptIsTrue, NoWorkIsLost
<1>5. QED
  BY <1>1, <1>2, <1>3, <1>4 DEF Inv

LEMMA NextInv == Inv /\ [Next]_vars => Inv'
<1> SUFFICES ASSUME Inv, [Next]_vars
             PROVE  Inv'
  OBVIOUS
<1>1. /\ RequestsTyped' /\ RequestsOK' /\ ProcsOK' /\ ServerTyped' /\ ServerOK'
      /\ RecordOK' /\ DraftOK' /\ FormTyped' /\ SessionTyped'
  BY NextRequests, NextServer, NextRecord, NextDraft, NextForms
<1>2. TypeOK'
  BY <1>1 DEF TypeOK, RequestsTyped, ServerTyped, RecordOK, RecordTyped, DraftOK, DraftType,
              FormTyped, SessionTyped
<1>3. ReceiptIsTrue'
  BY <1>1 DEF ReceiptIsTrue, RecordOK, RecordTrue, DraftOK, DraftTrue
<1>4. QED
  BY <1>1, <1>2, <1>3 DEF Inv, RecordOK

THEOREM Invariance == Spec => []Inv
  BY InitInv, NextInv, PTL DEF Spec

(* Every variable stays in its range.                                      *)
THEOREM TypeCorrect == Spec => []TypeOK
<1>1. Inv => TypeOK
  BY DEF Inv
<1>2. QED
  BY <1>1, Invariance, PTL

(* The task is completed once, by whoever was first, and by a command of   *)
(* the device only in the version the farmer saw                           *)
(* (submitOperationTaskCompletion).                                        *)
THEOREM CompletesOnce == Spec => []CompletedOnce
<1>1. Inv => CompletedOnce
  <2> SUFFICES ASSUME Inv
               PROVE  CompletedOnce
    OBVIOUS
  <2>1. ServerOK
    BY DEF Inv
  <2>2. CASE log = {}
    BY <2>2, FS_EmptySet DEF CompletedOnce
  <2>3. ASSUME NEW e \in log
        PROVE  Cardinality(log) <= 1
    <3>1. log = {e}
      BY <2>1 DEF ServerOK
    <3>2. QED
      BY <3>1, FS_Singleton
  <2>4. QED
    BY <2>1, <2>2, <2>3 DEF CompletedOnce, ServerOK
<1>2. QED
  BY <1>1, Invariance, PTL

(* A receipt on the device stands for the completion the server has        *)
(* (markOperationCompletionQueueServerConfirmed,                           *)
(* markOperationCompletionDraftServerConfirmed).                           *)
THEOREM ReceiptsAreTrue == Spec => []ReceiptIsTrue
<1>1. Inv => ReceiptIsTrue
  BY DEF Inv
<1>2. QED
  BY <1>1, Invariance, PTL

(* What the farmer left to the queue stays there until the server has it,  *)
(* it failed, or it was given up (handoffOperationCompletionDraftToQueue). *)
THEOREM WorkIsKept == Spec => []NoWorkIsLost
<1>1. Inv => NoWorkIsLost
  BY DEF Inv
<1>2. QED
  BY <1>1, Invariance, PTL

(* The server confirms a completion only with the event of that very       *)
(* command, in the version it was written for, however often it was sent   *)
(* (resolveOperationTaskCompletionSubmission).                             *)
ConfirmationsHold ==
  \A r \in requests : r.stage = "ok" =>
    \E e \in log : e.command = r.command /\ e.at = r.command.version

THEOREM ConfirmationsAreTrue == Spec => []ConfirmationsHold
<1>1. Inv => ConfirmationsHold
  <2> SUFFICES ASSUME Inv, NEW r \in requests, r.stage = "ok"
               PROVE  \E e \in log : e.command = r.command /\ e.at = r.command.version
    BY DEF ConfirmationsHold
  <2>1. PICK e \in log : e.command = r.command
    BY DEF Inv, RequestsOK, Granted
  <2>2. r.command # None
    BY Nones DEF Inv, TypeOK, RequestType
  <2>3. QED
    BY <2>1, <2>2 DEF Inv, ServerOK
<1>2. QED
  BY <1>1, Invariance, PTL

(* While a claim is live its holder alone changes the record, at work on   *)
(* its command; otherwise the claim or the record ends (mutateQueueItem).  *)
THEOREM HoldersReport == Spec => OnlyTheHolderReports
<1> DEFINE Reported ==
      item # None /\ item.live /\ item' # item =>
        \/ proc[item.holder].command = item.command /\ proc'[item.holder] # proc[item.holder]
        \/ item' = [item EXCEPT !.live = FALSE]
        \/ item' # None /\ item'.state = "expired"
        \/ leased' = {}
<1>1. Inv /\ [Next]_vars => [Reported]_vars
  <2> SUFFICES ASSUME Inv, [Next]_vars, item # None, item.live, item' # item
               PROVE  \/ /\ proc[item.holder].command = item.command
                         /\ proc'[item.holder] # proc[item.holder]
                      \/ item' = [item EXCEPT !.live = FALSE]
                      \/ item' # None /\ item'.state = "expired"
                      \/ leased' = {}
    OBVIOUS
  <2>1. item.state = "syncing"
    BY DEF Inv, HolderOK
  <2>2. ASSUME NEW d \in Drains, ReportToQueue(d)
        PROVE  /\ proc[item.holder].command = item.command
               /\ proc'[item.holder] # proc[item.holder]
    <3>1. Mine(d)
      BY <2>2 DEF ReportToQueue
    <3>2. item.holder = d /\ proc[d].command = item.command /\ proc'[d] # proc[d]
      BY <2>2, <3>1, ReportedRecord
    <3>3. QED
      BY <3>2
  <2>3. ASSUME NEW d \in Drains, Claim(d)
        PROVE  FALSE
    BY <2>1, <2>3 DEF Claim, Claimable
  <2>4. ASSUME NEW f \in Forms, Handoff(f)
        PROVE  FALSE
    BY <2>4 DEF Handoff, MayQueue
  <2>5. CASE ClaimRunsOut \/ ClaimLapses
    BY <2>5, EndedClaim
  <2>6. CASE DiscardItem
    BY <2>1, <2>6 DEF DiscardItem
  <2>7. CASE ExpireItem
    <3>1. item' = Released(item, "expired")
      BY <2>1, <2>7 DEF ExpireItem
    <3>2. item \in ItemType /\ "expired" \in Resolved
      BY DEF Inv, TypeOK, Resolved
    <3>3. item' \in ItemType /\ item'.state = "expired"
      BY <3>1, <3>2, ReleasedFields
    <3>4. QED
      BY <3>3, Nones
  <2>8. CASE Logout
    BY <2>8 DEF Logout
  <2>9. QED
    BY <2>2, <2>3, <2>4, <2>5, <2>6, <2>7, <2>8, WhoMovesTheRecord
<1>2. QED
  BY <1>1, Invariance, PTL DEF Spec, OnlyTheHolderReports
=============================================================================
