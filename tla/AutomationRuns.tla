--------------------------- MODULE AutomationRuns ---------------------------
(***************************************************************************)
(* The queue of automation runs: domain events that start automations, the *)
(* cursor of the cron that looks for events nobody enqueued, the claim and *)
(* the execution of runs, retries, stale locks and an operator's retries   *)
(* and replays (packages/storage/src/automations/runner.ts, executor.ts    *)
(* and repositories/automationsRepo.ts).                                   *)
(*                                                                         *)
(* A worker is an invocation of the cron.  Invocations overlap, and end    *)
(* anywhere.  The runs are those of one automation and the events those it *)
(* is for: definitions share only the cursor, which passes the events of   *)
(* the others alike.  Time is what it makes possible: a retry falls due,   *)
(* and a lock of fifteen minutes becomes stale after its invocation, which *)
(* the platform ends much sooner, is gone.                                 *)
(***************************************************************************)
EXTENDS Naturals, FiniteSets

CONSTANTS
  Workers,
  Cap,          \* maxConcurrentRuns of the automation
  MaxAttempts,  \* defaultRunMaxAttempts
  PageSize,     \* events of a poll
  MaxEvents, MaxIncidents   \* bounds

ASSUME AutomationAssumption ==
  /\ Cap \in Nat \ {0} /\ MaxAttempts \in Nat \ {0} /\ PageSize \in Nat \ {0}
  /\ MaxEvents \in Nat /\ MaxIncidents \in Nat

VARIABLES
  event,     \* rows of events, with what their writer is still to do
  cursor,    \* automation_event_cursors
  run,       \* rows of automation_runs
  worker,    \* of every worker: where it is in runAutomations
  executors, \* executions of claimed runs under way
  incidents, \* crashes, retries and replays so far
  late       \* history: events that committed after an event with a higher id

vars == <<event, cursor, run, worker, executors, incidents, late>>

Events == 1..MaxEvents
Runs == 1..(MaxEvents + MaxIncidents)

\* A run that is skipped by a condition has ended like one that succeeded.
Ended == {"succeeded", "failed"}
Statuses == {"none", "queued", "running", "retrying"} \cup Ended

\* "owed": the event is written and its writer about to enqueue its run.
EventStates == {"none", "open", "owed", "written", "aborted"}

NoRun == [status |-> "none", event |-> 0, source |-> "event", attempt |-> 0,
          maxAttempts |-> MaxAttempts, due |-> FALSE, stale |-> FALSE]
RunType ==
  [status : Statuses, event : 0..MaxEvents, source : {"event", "manual", "replay"},
   attempt : Nat, maxAttempts : Nat, due : BOOLEAN, stale : BOOLEAN]

\* A run is not tried more often than it may be, attempts lost with their
\* invocation included: what waits for a claim has one left.
WithinAttempts(r) ==
  run[r].attempt + (IF run[r].status \in {"queued", "retrying"} THEN 1 ELSE 0)
    <= run[r].maxAttempts

Idle == [pc |-> "idle", last |-> 0, events |-> {}, runs |-> {}]
WorkerType ==
  [pc : {"idle", "list", "enqueue", "recover", "claim", "locked", "execute"},
   last : 0..MaxEvents, events : SUBSET Events, runs : SUBSET Runs]

ExecutorType == [worker : Workers, run : Runs, attempt : Nat, maxAttempts : Nat]

TypeOK ==
  /\ event \in [Events -> EventStates]
  /\ cursor \in 0..MaxEvents
  /\ run \in [Runs -> RunType] /\ \A r \in Runs : WithinAttempts(r)
  /\ worker \in [Workers -> WorkerType]
  /\ executors \subseteq ExecutorType
  /\ incidents \in 0..MaxIncidents
  /\ late \subseteq Events

Init ==
  /\ event = [e \in Events |-> "none"]
  /\ cursor = 0
  /\ run = [r \in Runs |-> NoRun]
  /\ worker = [w \in Workers |-> Idle]
  /\ executors = {}
  /\ incidents = 0
  /\ late = {}
----------------------------------------------------------------------------
Exists(r) == run[r].status # "none"

\* Serial ids are given out in order.
NextRun(r) == ~Exists(r) /\ \A q \in Runs : q < r => Exists(q)

NextEvent(e) == event[e] = "none" /\ \A f \in Events : f < e => event[f] # "none"

Written == {e \in Events : event[e] \in {"owed", "written"}}

\* The unique index of (definition, event), of the rows with source "event".
HasRun(e) == \E r \in Runs : Exists(r) /\ run[r].event = e /\ run[r].source = "event"

NewRun(e) == [NoRun EXCEPT !.status = "queued", !.event = e, !.due = TRUE]

Enqueue(e) ==
  \/ HasRun(e) /\ UNCHANGED run
  \/ ~HasRun(e) /\ \E r \in Runs : NextRun(r) /\ run' = [run EXCEPT ![r] = NewRun(e)]

\* createEvent outside of a transaction: the event first, then its run.
WriteEvent(e) ==
  /\ NextEvent(e)
  /\ event' = [event EXCEPT ![e] = "owed"]
  /\ UNCHANGED <<cursor, run, worker, executors, incidents, late>>

EnqueueAtOnce(e) ==
  /\ event[e] = "owed"
  /\ Enqueue(e)
  /\ event' = [event EXCEPT ![e] = "written"]
  /\ UNCHANGED <<cursor, worker, executors, incidents, late>>

WriterDies(e) ==
  /\ event[e] = "owed"
  /\ event' = [event EXCEPT ![e] = "written"]
  /\ UNCHANGED <<cursor, run, worker, executors, incidents, late>>

\* A transaction takes the id of its event at the insert and shows the event at
\* the commit.
InsertEvent(e) ==
  /\ NextEvent(e)
  /\ event' = [event EXCEPT ![e] = "open"]
  /\ UNCHANGED <<cursor, run, worker, executors, incidents, late>>

\* It has called createEvent, which enqueues in it, or written the row itself.
CommitEvent(e) ==
  /\ event[e] = "open"
  /\ event' = [event EXCEPT ![e] = "written"]
  /\ \/ Enqueue(e) /\ UNCHANGED late
     \/ /\ late' = IF \E f \in Written : f > e THEN late \cup {e} ELSE late
        /\ UNCHANGED run
  /\ UNCHANGED <<cursor, worker, executors, incidents>>

AbortEvent(e) ==
  /\ event[e] = "open"
  /\ event' = [event EXCEPT ![e] = "aborted"]
  /\ UNCHANGED <<cursor, run, worker, executors, incidents, late>>

----------------------------------------------------------------------------
ExecutorsOf(w) == {x \in executors : x.worker = w}

\* The cron starts; an invocation that is over has left its executors behind.
ReadCursor(w) ==
  /\ worker[w].pc = "idle" /\ ExecutorsOf(w) = {}
  /\ worker' = [worker EXCEPT ![w] = [Idle EXCEPT !.pc = "list", !.last = cursor]]
  /\ UNCHANGED <<event, cursor, run, executors, incidents, late>>

FirstAfter(id) ==
  LET after == {e \in Written : e > id}
  IN  {e \in after : Cardinality({f \in after : f < e}) < PageSize}

ListEvents(w) ==
  /\ worker[w].pc = "list"
  /\ LET page == FirstAfter(worker[w].last)
     IN  worker' = [worker EXCEPT
           ![w] = IF page = {} THEN [Idle EXCEPT !.pc = "recover"]
                  ELSE [@ EXCEPT !.pc = "enqueue", !.events = page]]
  /\ UNCHANGED <<event, cursor, run, executors, incidents, late>>

EnqueueListed(w) ==
  /\ worker[w].pc = "enqueue"
  /\ \E e \in worker[w].events :
       /\ \A f \in worker[w].events : e <= f
       /\ Enqueue(e)
       /\ worker' = [worker EXCEPT ![w].events = @ \ {e}, ![w].last = e]
  /\ UNCHANGED <<event, cursor, executors, incidents, late>>

\* Mutant of Reached: the cursor jumps to the newest event there is.
ReachedNewest(w) == CHOOSE e \in Written : \A f \in Written : f <= e

\* The cursor is set, not raised: an invocation that was overtaken sets it back.
Reached(w) == worker[w].last

AdvanceCursor(w) ==
  /\ worker[w].pc = "enqueue" /\ worker[w].events = {}
  /\ cursor' = Reached(w)
  /\ worker' = [worker EXCEPT ![w] = [Idle EXCEPT !.pc = "recover"]]
  /\ UNCHANGED <<event, run, executors, incidents, late>>

----------------------------------------------------------------------------
\* Mutant of Recovered: a stale run is queued again however often it was tried.
RecoveredAlways(r) ==
  [run[r] EXCEPT !.status = "retrying", !.due = TRUE, !.stale = FALSE]

Recovered(r) ==
  IF run[r].attempt < run[r].maxAttempts
  THEN [run[r] EXCEPT !.status = "retrying", !.due = TRUE, !.stale = FALSE]
  ELSE [run[r] EXCEPT !.status = "failed", !.stale = FALSE]

\* Mutant of Stale: any running run is taken for an abandoned one.
StaleRunning(r) == run[r].status = "running"

Stale(r) == run[r].status = "running" /\ run[r].stale

RecoverStale(w) ==
  /\ worker[w].pc = "recover"
  /\ run' = [r \in Runs |-> IF Stale(r) THEN Recovered(r) ELSE run[r]]
  /\ worker' = [worker EXCEPT ![w] = [Idle EXCEPT !.pc = "claim"]]
  /\ UNCHANGED <<event, cursor, executors, incidents, late>>

Due(r) == run[r].status \in {"queued", "retrying"} /\ run[r].due

\* Mutant of LockedBy: the claim counts without the advisory lock.
LockedByNobody(v) == FALSE

LockedBy(v) == worker[v].pc = "locked"

Room == Cap - Cardinality({r \in Runs : run[r].status = "running"})

\* Under the lock of the automation its free capacity is counted and given to
\* runs that are due.  Which ones, if any, depends on the list the claim read
\* before it waited for the lock and on what its batch has left.
LockDefinition(w) ==
  /\ worker[w].pc = "claim"
  /\ \A v \in Workers : ~LockedBy(v)
  /\ \E taken \in SUBSET {r \in Runs : Due(r)} :
       /\ taken = {} \/ Cardinality(taken) <= Room
       /\ worker' = [worker EXCEPT ![w] = [Idle EXCEPT !.pc = "locked", !.runs = taken]]
  /\ UNCHANGED <<event, cursor, run, executors, incidents, late>>

Claimed(r) ==
  [run[r] EXCEPT !.status = "running", !.attempt = @ + 1, !.due = FALSE, !.stale = FALSE]

Execution(w, r) ==
  [worker |-> w, run |-> r, attempt |-> Claimed(r).attempt, maxAttempts |-> run[r].maxAttempts]

\* The claim commits, and its runs are executed at once; a claim with nothing to
\* do ends the invocation.
CommitClaim(w) ==
  /\ worker[w].pc = "locked"
  /\ LET taken == worker[w].runs
     IN  /\ run' = [r \in Runs |-> IF r \in taken THEN Claimed(r) ELSE run[r]]
         /\ executors' = executors \cup {Execution(w, r) : r \in taken}
         /\ worker' = [worker EXCEPT
              ![w] = [Idle EXCEPT !.pc = IF taken = {} THEN "idle" ELSE "execute"]]
  /\ UNCHANGED <<event, cursor, incidents, late>>

\* What an execution comes to; "error" is a failure that may be retried.
Outcomes == {"succeeded", "failed", "error"}

After(x, outcome) ==
  LET r == [run[x.run] EXCEPT !.stale = FALSE]
  IN  IF outcome # "error" THEN [r EXCEPT !.status = outcome]
      ELSE IF x.attempt < x.maxAttempts THEN [r EXCEPT !.status = "retrying", !.due = FALSE]
      ELSE [r EXCEPT !.status = "failed"]

\* completeAutomationRun goes by the id alone, whatever became of the run.
Complete(x, outcome) ==
  /\ run' = [run EXCEPT ![x.run] = After(x, outcome)]
  /\ executors' = executors \ {x}
  /\ UNCHANGED <<event, cursor, worker, incidents, late>>

\* The batch is over: another one, or the time or number of batches is used up.
EndBatch(w) ==
  /\ worker[w].pc = "execute" /\ ExecutorsOf(w) = {}
  /\ \E next \in {"claim", "idle"} : worker' = [worker EXCEPT ![w].pc = next]
  /\ UNCHANGED <<event, cursor, run, executors, incidents, late>>

----------------------------------------------------------------------------
Incident == incidents < MaxIncidents /\ incidents' = incidents + 1

\* An execution that cannot record its result ends the invocation; the other
\* executions of the batch may go on.
LoseExecution(x) ==
  /\ Incident
  /\ executors' = executors \ {x}
  /\ worker' = [worker EXCEPT ![x.worker] = Idle]
  /\ UNCHANGED <<event, cursor, run, late>>

\* An invocation ends anywhere: by an error, or with its process.
Crash(w) ==
  /\ worker[w].pc # "idle" \/ ExecutorsOf(w) # {}
  /\ Incident
  /\ executors' = executors \ ExecutorsOf(w)
  /\ worker' = [worker EXCEPT ![w] = Idle]
  /\ UNCHANGED <<event, cursor, run, late>>

RetryDue(r) ==
  /\ run[r].status = "retrying" /\ ~run[r].due
  /\ run' = [run EXCEPT ![r].due = TRUE]
  /\ UNCHANGED <<event, cursor, worker, executors, incidents, late>>

LockExpires(r) ==
  /\ run[r].status = "running" /\ ~run[r].stale
  /\ \A x \in executors : x.run # r
  /\ run' = [run EXCEPT ![r].stale = TRUE]
  /\ UNCHANGED <<event, cursor, worker, executors, incidents, late>>

\* An operator queues a failed run again.
Retried(r) ==
  [run[r] EXCEPT !.status = "retrying", !.source = "manual", !.due = TRUE, !.maxAttempts = @ + 1]

RetryFailed(r) ==
  /\ run[r].status = "failed"
  /\ Incident
  /\ run' = [run EXCEPT ![r] = Retried(r)]
  /\ UNCHANGED <<event, cursor, worker, executors, late>>

\* An operator replays a run as a new one, dry.
Replay(r) ==
  /\ Exists(r)
  /\ Incident
  /\ \E q \in Runs :
       /\ NextRun(q)
       /\ run' = [run EXCEPT ![q] = [NewRun(run[r].event) EXCEPT !.source = "replay"]]
  /\ UNCHANGED <<event, cursor, worker, executors, late>>

Work(w) ==
  \/ ReadCursor(w) \/ ListEvents(w) \/ EnqueueListed(w) \/ AdvanceCursor(w)
  \/ RecoverStale(w) \/ LockDefinition(w) \/ CommitClaim(w) \/ EndBatch(w)

Next ==
  \/ \E e \in Events :
       \/ WriteEvent(e) \/ EnqueueAtOnce(e) \/ WriterDies(e)
       \/ InsertEvent(e) \/ CommitEvent(e) \/ AbortEvent(e)
  \/ \E w \in Workers : Work(w) \/ Crash(w)
  \/ \E x \in executors : LoseExecution(x) \/ \E outcome \in Outcomes : Complete(x, outcome)
  \/ \E r \in Runs : RetryDue(r) \/ LockExpires(r) \/ RetryFailed(r) \/ Replay(r)

Spec == Init /\ [][Next]_vars

----------------------------------------------------------------------------
\* No more runs of an automation are in progress than its setting allows,
\* however invocations overlap, end, and take over what others left behind.
InProgressWithinCap ==
  Cardinality(executors) <= Cap

\* The cursor leaves no event behind without its run, although writers die
\* before they enqueue, invocations set the cursor back and crash between runs. An
\* event that appeared behind a newer one may have been passed.
CursorLeavesNothingBehind ==
  \A e \in Written \ late :
    e <= cursor => \E r \in Runs : Exists(r) /\ run[r].event = e

\* A result stands: no late answer of an earlier attempt replaces it, although it
\* is written by the id of the run alone, and only an operator reopens a failure.
ResultsStand ==
  [][\A r \in Runs :
       run[r].status \in Ended =>
         \/ run'[r] = run[r]
         \/ run[r].status = "failed" /\ run'[r] = Retried(r)]_vars
=============================================================================
