------------------------ MODULE AutomationRunsProofs ------------------------
(***************************************************************************)
(* Theorems about AutomationRuns for any workers, limits, events and       *)
(* incidents: the runs in progress stay within the automation's setting,   *)
(* the cursor leaves no event without its run, and a result stands.        *)
(***************************************************************************)
EXTENDS AutomationRuns, FiniteSetTheorems, TLAPS

(* A row of automation_runs that may be: typed, and not tried too often.   *)
RowOK(x) ==
  /\ x \in RunType
  /\ x.attempt + (IF x.status \in {"queued", "retrying"} THEN 1 ELSE 0) <= x.maxAttempts

RowsOK == run \in [Runs -> RunType] /\ \A r \in Runs : RowOK(run[r])

(* An execution goes on under a lock that holds, on the attempt it was     *)
(* claimed for, and is the only one of its run.                            *)
ExecutorOK(x) ==
  /\ run[x.run].status = "running" /\ ~run[x.run].stale
  /\ run[x.run].attempt = x.attempt /\ run[x.run].maxAttempts = x.maxAttempts

ExecutorsOK ==
  /\ \A x \in executors : ExecutorOK(x)
  /\ \A x, y \in executors : x.run = y.run => x = y

(* Between the count of the free capacity and the commit of the claim the  *)
(* runs taken stay due and there stays room for them.                      *)
Running == {r \in Runs : run[r].status = "running"}

LockOK(w) ==
  LockedBy(w) =>
    /\ \A r \in worker[w].runs : Due(r)
    /\ worker[w].runs = {} \/ Cardinality(worker[w].runs) + Cardinality(Running) <= Cap

CapacityOK ==
  /\ Cardinality(Running) <= Cap
  /\ \A w \in Workers : LockOK(w)
  /\ \A v, w \in Workers : LockedBy(v) /\ LockedBy(w) => v = w

(* Every position a worker may set the cursor to has been passed event by  *)
(* event, and the page it reads has no gap.                                *)
Ran(e) == \E r \in Runs : Exists(r) /\ run[r].event = e

InOrder == \A e, f \in Events : f < e /\ event[e] # "none" => event[f] # "none"

Passed(p) ==
  /\ p = 0 \/ p \in Written
  /\ \A e \in Written \ late : e <= p => Ran(e)

PageOK(y) ==
  /\ y.events \subseteq Written
  /\ \A e \in y.events : e > y.last
  /\ \A e \in Written \ late, f \in y.events :
       e > y.last /\ e <= f => e \in y.events \/ Ran(e)

CursorOK ==
  /\ InOrder
  /\ Passed(cursor)
  /\ \A w \in Workers : Passed(worker[w].last) /\ PageOK(worker[w])

Inv == TypeOK /\ ExecutorsOK /\ CapacityOK /\ CursorOK
-----------------------------------------------------------------------------
(* The rows that are written, and what they keep of the row before.        *)
LEMMA RowFields ==
  ASSUME NEW x, RowOK(x)
  PROVE  /\ x.status \in Statuses /\ x.event \in 0..MaxEvents
         /\ x.attempt \in Nat /\ x.maxAttempts \in Nat
         /\ x.due \in BOOLEAN /\ x.stale \in BOOLEAN
         /\ x.attempt <= x.maxAttempts
         /\ x.status \in {"queued", "retrying"} => x.attempt + 1 <= x.maxAttempts
  BY DEF RowOK, RunType

LEMMA TypedRows ==
  TypeOK <=>
    /\ RowsOK
    /\ event \in [Events -> EventStates] /\ cursor \in 0..MaxEvents
    /\ worker \in [Workers -> WorkerType] /\ executors \subseteq ExecutorType
    /\ incidents \in 0..MaxIncidents /\ late \subseteq Events
  BY DEF TypeOK, RowsOK, RowOK, WithinAttempts

LEMMA OneRow ==
  ASSUME RowsOK, NEW r \in Runs, NEW x, RowOK(x), run' = [run EXCEPT ![r] = x]
  PROVE  /\ RowsOK'
         /\ \A q \in Runs : run'[q] = IF q = r THEN x ELSE run[q]
<1>1. x \in RunType
  BY DEF RowOK
<1>2. \A q \in Runs : run'[q] = IF q = r THEN x ELSE run[q]
  BY DEF RowsOK
<1>3. run' \in [Runs -> RunType]
  BY <1>1 DEF RowsOK
<1>4. \A q \in Runs : RowOK(run'[q])
  BY <1>2 DEF RowsOK
<1> QED
  BY <1>2, <1>3, <1>4 DEF RowsOK, RowOK

LEMMA NewRows ==
  ASSUME run' \in [Runs -> RunType], \A r \in Runs : RowOK(run'[r])
  PROVE  RowsOK'
  BY DEF RowsOK, RowOK

LEMMA FreshRow ==
  ASSUME NEW e \in 0..MaxEvents, NEW s \in {"event", "replay"},
         NEW y, y = [NewRun(e) EXCEPT !.source = s] \/ y = NewRun(e)
  PROVE  /\ RowOK(y)
         /\ y.status = "queued" /\ y.event = e /\ y.due = TRUE
<1>1. PICK t \in {"event", "replay"} :
        y = [status |-> "queued", event |-> e, source |-> t, attempt |-> 0,
             maxAttempts |-> MaxAttempts, due |-> TRUE, stale |-> FALSE]
  BY DEF NewRun, NoRun
<1>2. /\ y.status = "queued" /\ y.event = e /\ y.due = TRUE
      /\ y.attempt = 0 /\ y.maxAttempts = MaxAttempts
  BY <1>1
<1>3. "queued" \in Statuses /\ MaxAttempts \in Nat /\ 0 + 1 <= MaxAttempts
  BY AutomationAssumption DEF Statuses
<1>4. y \in RunType
  BY <1>1, <1>3 DEF RunType
<1> QED
  BY <1>2, <1>3, <1>4 DEF RowOK

LEMMA RecoveredRow ==
  ASSUME NEW r \in Runs, RowOK(run[r]), NEW y, y = Recovered(r)
  PROVE  RowOK(y) /\ y.status \in {"retrying", "failed"} /\ y.event = run[r].event
<1> DEFINE x == run[r]
<1>1. y = IF x.attempt < x.maxAttempts
          THEN [x EXCEPT !.status = "retrying", !.due = TRUE, !.stale = FALSE]
          ELSE [x EXCEPT !.status = "failed", !.stale = FALSE]
  BY DEF Recovered
<1>2. x \in RunType /\ x.attempt \in Nat /\ x.maxAttempts \in Nat /\ x.attempt <= x.maxAttempts
  BY RowFields DEF RowOK
<1> HIDE DEF x
<1>3. y \in RunType
  BY <1>1, <1>2 DEF RunType, Statuses, Ended
<1>4. /\ y.attempt = x.attempt /\ y.maxAttempts = x.maxAttempts /\ y.event = x.event
      /\ y.status = IF x.attempt < x.maxAttempts THEN "retrying" ELSE "failed"
  BY <1>1, <1>2 DEF RunType
<1> QED
  BY <1>2, <1>3, <1>4 DEF RowOK, x

LEMMA ClaimedRow ==
  ASSUME NEW r \in Runs, RowOK(run[r]), Due(r), NEW y, y = Claimed(r)
  PROVE  /\ RowOK(y) /\ y.status = "running" /\ y.stale = FALSE
         /\ y.event = run[r].event /\ y.maxAttempts = run[r].maxAttempts
<1> DEFINE x == run[r]
<1>1. y = [x EXCEPT !.status = "running", !.attempt = @ + 1, !.due = FALSE, !.stale = FALSE]
  BY DEF Claimed
<1>2. /\ x \in RunType /\ x.attempt \in Nat /\ x.maxAttempts \in Nat
      /\ x.attempt + 1 <= x.maxAttempts
  BY RowFields DEF RowOK, Due
<1> HIDE DEF x
<1>3. y \in RunType
  <2>1. x \in RunType /\ x.attempt + 1 \in Nat /\ "running" \in Statuses
    BY <1>2 DEF Statuses
  <2> QED
    BY <1>1, <2>1 DEF RunType
<1>4. /\ y.status = "running" /\ y.stale = FALSE /\ y.event = x.event
      /\ y.attempt = x.attempt + 1 /\ y.maxAttempts = x.maxAttempts
  BY <1>1, <1>2 DEF RunType
<1> QED
  BY <1>2, <1>3, <1>4 DEF RowOK, x

LEMMA AfterRow ==
  ASSUME NEW x \in ExecutorType, NEW outcome \in Outcomes,
         RowOK(run[x.run]), ExecutorOK(x), NEW y, y = After(x, outcome)
  PROVE  /\ RowOK(y) /\ y.event = run[x.run].event
         /\ y.status \in {"retrying", "succeeded", "failed"}
<1> DEFINE row == run[x.run]
<1>1. PICK z : z = [row EXCEPT !.stale = FALSE]
  OBVIOUS
<1>2. y = IF outcome # "error" THEN [z EXCEPT !.status = outcome]
          ELSE IF x.attempt < x.maxAttempts THEN [z EXCEPT !.status = "retrying", !.due = FALSE]
          ELSE [z EXCEPT !.status = "failed"]
  BY <1>1 DEF After
<1>3. /\ row \in RunType /\ row.attempt \in Nat /\ row.maxAttempts \in Nat
      /\ row.attempt <= row.maxAttempts
      /\ x.attempt = row.attempt /\ x.maxAttempts = row.maxAttempts
  BY RowFields DEF RowOK, ExecutorOK
<1> HIDE DEF row
<1>4. /\ z \in RunType /\ z.attempt = row.attempt /\ z.maxAttempts = row.maxAttempts
      /\ z.event = row.event
  BY <1>1, <1>3 DEF RunType
<1>5. y \in RunType
  BY <1>2, <1>4 DEF RunType, Statuses, Ended, Outcomes
<1>6. /\ y.attempt = row.attempt /\ y.maxAttempts = row.maxAttempts /\ y.event = row.event
      /\ y.status = IF outcome # "error" THEN outcome
                    ELSE IF row.attempt < row.maxAttempts THEN "retrying" ELSE "failed"
  BY <1>2, <1>3, <1>4 DEF RunType
<1> QED
  BY <1>3, <1>5, <1>6 DEF RowOK, row, Outcomes

LEMMA MarkedRow ==
  ASSUME NEW r \in Runs, RowOK(run[r]), NEW y,
         y = [run[r] EXCEPT !.due = TRUE] \/ y = [run[r] EXCEPT !.stale = TRUE]
  PROVE  RowOK(y) /\ y.status = run[r].status /\ y.event = run[r].event
<1>1. run[r] \in RunType
  BY DEF RowOK
<1>2. y \in RunType
  BY <1>1 DEF RunType
<1>3. /\ y.status = run[r].status /\ y.event = run[r].event
      /\ y.attempt = run[r].attempt /\ y.maxAttempts = run[r].maxAttempts
  BY <1>1 DEF RunType
<1> QED
  BY <1>2, <1>3 DEF RowOK

LEMMA RetriedRow ==
  ASSUME NEW r \in Runs, RowOK(run[r]), NEW y, y = Retried(r)
  PROVE  RowOK(y) /\ y.status = "retrying" /\ y.event = run[r].event
<1> DEFINE x == run[r]
<1>1. y = [x EXCEPT !.status = "retrying", !.source = "manual", !.due = TRUE, !.maxAttempts = @ + 1]
  BY DEF Retried
<1>2. /\ x \in RunType /\ x.attempt \in Nat /\ x.maxAttempts \in Nat
      /\ x.attempt <= x.maxAttempts
  BY RowFields DEF RowOK
<1> HIDE DEF x
<1>3. y \in RunType
  <2>1. x \in RunType /\ x.maxAttempts + 1 \in Nat /\ "retrying" \in Statuses
    BY <1>2 DEF Statuses
  <2> QED
    BY <1>1, <2>1 DEF RunType
<1>4. /\ y.status = "retrying" /\ y.event = x.event
      /\ y.attempt = x.attempt /\ y.maxAttempts = x.maxAttempts + 1
  BY <1>1, <1>2 DEF RunType
<1> QED
  BY <1>2, <1>3, <1>4 DEF RowOK, x
-----------------------------------------------------------------------------
(* What any step leaves of a row, and what any step but a claim does.      *)
RowStep(r) ==
  /\ Exists(r) => run'[r].status # "none" /\ run'[r].event = run[r].event
  /\ run[r].status \in Ended =>
       \/ run'[r] = run[r]
       \/ run[r].status = "failed" /\ run'[r] = Retried(r)

QuietRow(r) ==
  /\ Due(r) => run'[r].status \in {"queued", "retrying"} /\ run'[r].due = TRUE
  /\ run'[r].status = "running" => run[r].status = "running"

QuietStep ==
  /\ RowsOK'
  /\ \A r \in Runs : RowStep(r) /\ QuietRow(r)
  /\ executors' \subseteq executors
  /\ \A x \in executors' : run'[x.run] = run[x.run]

LEMMA KeptRow ==
  ASSUME NEW r \in Runs, RowOK(run[r]), run'[r] = run[r]
  PROVE  RowStep(r) /\ QuietRow(r)
  BY RowFields DEF RowStep, QuietRow, Exists, Due

LEMMA StillRows ==
  ASSUME RowsOK, run' = run, executors' \subseteq executors
  PROVE  QuietStep
  BY KeptRow DEF QuietStep, RowsOK

(* One row changes, and no execution is of it.                             *)
LEMMA QuietRowStep ==
  ASSUME Inv, NEW r \in Runs, NEW y, RowOK(y), run' = [run EXCEPT ![r] = y],
         executors' \subseteq executors, \A x \in executors' : x.run # r,
         run[r].status # "none" => y.status # "none" /\ y.event = run[r].event,
         run[r].status \in Ended => run[r].status = "failed" /\ y = Retried(r),
         Due(r) => y.status \in {"queued", "retrying"} /\ y.due = TRUE,
         y.status = "running" => run[r].status = "running"
  PROVE  QuietStep
<1>1. RowsOK
  BY TypedRows DEF Inv
<1>2. RowsOK' /\ \A q \in Runs : run'[q] = IF q = r THEN y ELSE run[q]
  BY <1>1, OneRow
<1>3. ASSUME NEW q \in Runs
      PROVE  RowStep(q) /\ QuietRow(q)
  <2>1. CASE q = r
    BY <1>2, <2>1 DEF RowStep, QuietRow, Exists
  <2>2. CASE q # r
    BY <1>1, <1>2, <2>2, KeptRow DEF RowsOK
  <2> QED
    BY <2>1, <2>2
<1>4. \A x \in executors' : x.run \in Runs
  BY DEF Inv, TypeOK, ExecutorType
<1> QED
  BY <1>2, <1>3, <1>4 DEF QuietStep

LEMMA RunningRuns ==
  ASSUME Inv, NEW x \in executors
  PROVE  /\ x \in ExecutorType /\ x.run \in Runs /\ x.worker \in Workers
         /\ run[x.run].status = "running" /\ run[x.run].stale = FALSE
         /\ ExecutorOK(x)
<1>1. x \in ExecutorType /\ ExecutorOK(x)
  BY DEF Inv, TypeOK, ExecutorsOK
<1>2. x.run \in Runs /\ x.worker \in Workers
  BY <1>1 DEF ExecutorType
<1>3. run[x.run].stale \in BOOLEAN
  BY <1>2, RowFields, TypedRows DEF Inv, RowsOK
<1> QED
  BY <1>1, <1>2, <1>3 DEF ExecutorOK

LEMMA EnqueueStep ==
  ASSUME Inv, NEW e \in Events, Enqueue(e), executors' = executors
  PROVE  /\ QuietStep
         /\ \E r \in Runs : run'[r].status # "none" /\ run'[r].event = e
<1>1. RowsOK
  BY TypedRows DEF Inv
<1>2. CASE HasRun(e) /\ UNCHANGED run
  BY <1>1, <1>2, StillRows DEF HasRun, Exists
<1>3. CASE ~HasRun(e) /\ \E r \in Runs : NextRun(r) /\ run' = [run EXCEPT ![r] = NewRun(e)]
  <2>1. PICK r \in Runs : NextRun(r) /\ run' = [run EXCEPT ![r] = NewRun(e)]
    BY <1>3
  <2> DEFINE y == NewRun(e)
  <2>2. e \in 0..MaxEvents
    BY AutomationAssumption DEF Events
  <2>3. RowOK(y) /\ y.status = "queued" /\ y.event = e
    BY <2>2, FreshRow
  <2>4. run[r].status = "none"
    BY <2>1 DEF NextRun, Exists
  <2>5. \A x \in executors' : x.run # r
    BY <2>4, RunningRuns
  <2>6. run' = [run EXCEPT ![r] = y] /\ executors' \subseteq executors
    BY <2>1
  <2> HIDE DEF y
  <2>7. QuietStep
    BY <2>3, <2>4, <2>5, <2>6, QuietRowStep DEF Ended, Due
  <2>8. run'[r] = y
    BY <1>1, <2>6 DEF RowsOK
  <2> QED
    BY <2>3, <2>7, <2>8
<1> QED
  BY <1>2, <1>3 DEF Enqueue
-----------------------------------------------------------------------------
(* Every step but the commit of a claim is quiet.                          *)
LEMMA EventSteps ==
  ASSUME Inv, NEW e \in Events,
         \/ WriteEvent(e) \/ EnqueueAtOnce(e) \/ WriterDies(e)
         \/ InsertEvent(e) \/ CommitEvent(e) \/ AbortEvent(e)
  PROVE  QuietStep
<1>1. RowsOK
  BY TypedRows DEF Inv
<1>2. executors' = executors /\ (UNCHANGED run \/ Enqueue(e))
  BY DEF WriteEvent, EnqueueAtOnce, WriterDies, InsertEvent, CommitEvent, AbortEvent
<1> QED
  BY <1>1, <1>2, StillRows, EnqueueStep

LEMMA RecoverStep ==
  ASSUME Inv, NEW w \in Workers, RecoverStale(w)
  PROVE  QuietStep
<1>1. RowsOK
  BY TypedRows DEF Inv
<1>2. /\ run' = [r \in Runs |-> IF Stale(r) THEN Recovered(r) ELSE run[r]]
      /\ executors' = executors
  BY DEF RecoverStale
<1>3. ASSUME NEW r \in Runs, Stale(r)
      PROVE  RowOK(run'[r]) /\ RowStep(r) /\ QuietRow(r)
  <2>1. RowOK(run[r]) /\ run'[r] = Recovered(r)
    BY <1>1, <1>2, <1>3 DEF RowsOK
  <2>2. /\ RowOK(run'[r]) /\ run'[r].status \in {"retrying", "failed"}
        /\ run'[r].event = run[r].event
    BY <2>1, RecoveredRow
  <2>3. run[r].status = "running"
    BY <1>3 DEF Stale
  <2> QED
    BY <2>2, <2>3 DEF RowStep, QuietRow, Due, Ended
<1>4. ASSUME NEW r \in Runs, ~Stale(r)
      PROVE  RowOK(run'[r]) /\ run'[r] = run[r] /\ RowStep(r) /\ QuietRow(r)
  BY <1>1, <1>2, <1>4, KeptRow DEF RowsOK
<1>5. \A r \in Runs : run'[r] \in RunType
  BY <1>3, <1>4 DEF RowOK
<1>6. run' \in [Runs -> RunType]
  BY <1>2, <1>5
<1>7. RowsOK'
  BY <1>3, <1>4, <1>6, NewRows
<1>8. \A x \in executors : x.run \in Runs /\ ~Stale(x.run)
  BY RunningRuns DEF Stale
<1> QED
  BY <1>2, <1>3, <1>4, <1>7, <1>8 DEF QuietStep

LEMMA WorkSteps ==
  ASSUME Inv, NEW w \in Workers, Work(w), ~CommitClaim(w)
  PROVE  QuietStep
<1>1. RowsOK
  BY TypedRows DEF Inv
<1>2. CASE ReadCursor(w) \/ ListEvents(w) \/ AdvanceCursor(w) \/ LockDefinition(w) \/ EndBatch(w)
  <2>1. run' = run /\ executors' = executors
    BY <1>2 DEF ReadCursor, ListEvents, AdvanceCursor, LockDefinition, EndBatch
  <2> QED
    BY <1>1, <2>1, StillRows
<1>3. CASE EnqueueListed(w)
  <2>1. PICK e \in worker[w].events : Enqueue(e)
    BY <1>3 DEF EnqueueListed
  <2>2. e \in Events
    BY DEF Inv, TypeOK, WorkerType
  <2>3. executors' = executors
    BY <1>3 DEF EnqueueListed
  <2> QED
    BY <2>1, <2>2, <2>3, EnqueueStep
<1>4. CASE RecoverStale(w)
  BY <1>4, RecoverStep
<1> QED
  BY <1>2, <1>3, <1>4 DEF Work

LEMMA ExecutorSteps ==
  ASSUME Inv, NEW x \in executors,
         LoseExecution(x) \/ \E outcome \in Outcomes : Complete(x, outcome)
  PROVE  QuietStep
<1>1. RowsOK
  BY TypedRows DEF Inv
<1>2. CASE LoseExecution(x)
  BY <1>1, <1>2, StillRows DEF LoseExecution
<1>3. ASSUME NEW outcome \in Outcomes, Complete(x, outcome)
      PROVE  QuietStep
  <2> DEFINE y == After(x, outcome)
  <2>1. /\ x \in ExecutorType /\ x.run \in Runs /\ run[x.run].status = "running"
        /\ ExecutorOK(x) /\ RowOK(run[x.run])
    BY <1>1, RunningRuns DEF RowsOK
  <2>2. /\ RowOK(y) /\ y.event = run[x.run].event
        /\ y.status \in {"retrying", "succeeded", "failed"}
    BY <2>1, AfterRow
  <2>3. run' = [run EXCEPT ![x.run] = y] /\ executors' = executors \ {x}
    BY <1>3 DEF Complete
  <2> HIDE DEF y
  <2>4. \A z \in executors' : z.run # x.run
    BY <2>3 DEF Inv, ExecutorsOK
  <2> QED
    BY <2>1, <2>2, <2>3, <2>4, QuietRowStep DEF Ended, Due
<1> QED
  BY <1>2, <1>3

LEMMA RunSteps ==
  ASSUME Inv, NEW r \in Runs,
         RetryDue(r) \/ LockExpires(r) \/ RetryFailed(r) \/ Replay(r)
  PROVE  QuietStep
<1>1. RowsOK /\ RowOK(run[r])
  BY TypedRows DEF Inv, RowsOK
<1>2. CASE RetryDue(r)
  <2> DEFINE y == [run[r] EXCEPT !.due = TRUE]
  <2>1. RowOK(y) /\ y.status = run[r].status /\ y.event = run[r].event
    BY <1>1, MarkedRow
  <2>2. /\ run' = [run EXCEPT ![r] = y] /\ executors' = executors
        /\ run[r].status = "retrying" /\ ~Due(r)
    BY <1>1, <1>2 DEF RetryDue, Due, RowsOK
  <2>3. \A x \in executors' : x.run # r
    BY <2>2, RunningRuns
  <2> HIDE DEF y
  <2> QED
    BY <2>1, <2>2, <2>3, QuietRowStep DEF Ended
<1>3. CASE LockExpires(r)
  <2> DEFINE y == [run[r] EXCEPT !.stale = TRUE]
  <2>1. RowOK(y) /\ y.status = run[r].status /\ y.event = run[r].event
    BY <1>1, MarkedRow
  <2>2. /\ run' = [run EXCEPT ![r] = y] /\ executors' = executors
        /\ run[r].status = "running" /\ \A x \in executors : x.run # r
    BY <1>1, <1>3 DEF LockExpires, RowsOK
  <2> HIDE DEF y
  <2> QED
    BY <2>1, <2>2, QuietRowStep DEF Ended, Due
<1>4. CASE RetryFailed(r)
  <2> DEFINE y == Retried(r)
  <2>1. RowOK(y) /\ y.status = "retrying" /\ y.event = run[r].event
    BY <1>1, RetriedRow
  <2>2. /\ run' = [run EXCEPT ![r] = y] /\ executors' = executors
        /\ run[r].status = "failed" /\ y = Retried(r)
    BY <1>4 DEF RetryFailed
  <2>3. \A x \in executors' : x.run # r
    BY <2>2, RunningRuns
  <2> HIDE DEF y
  <2> QED
    BY <2>1, <2>2, <2>3, QuietRowStep DEF Ended, Due
<1>5. CASE Replay(r)
  <2>1. PICK q \in Runs :
          /\ NextRun(q)
          /\ run' = [run EXCEPT ![q] = [NewRun(run[r].event) EXCEPT !.source = "replay"]]
    BY <1>5 DEF Replay
  <2> DEFINE y == [NewRun(run[r].event) EXCEPT !.source = "replay"]
  <2>2. run[r].event \in 0..MaxEvents
    BY <1>1, RowFields
  <2>3. RowOK(y) /\ y.status = "queued"
    BY <2>2, FreshRow
  <2>4. run[q].status = "none"
    BY <2>1 DEF NextRun, Exists
  <2>5. run' = [run EXCEPT ![q] = y] /\ executors' = executors
    BY <1>5, <2>1 DEF Replay
  <2>6. \A x \in executors' : x.run # q
    BY <2>4, <2>5, RunningRuns
  <2> HIDE DEF y
  <2> QED
    BY <2>3, <2>4, <2>5, <2>6, QuietRowStep DEF Ended, Due
<1> QED
  BY <1>2, <1>3, <1>4, <1>5
-----------------------------------------------------------------------------
(* The runs that are running, and the room there is for more.              *)
LEMMA RunsAreFinite ==
  /\ IsFiniteSet(Runs)
  /\ \A S \in SUBSET Runs : IsFiniteSet(S) /\ Cardinality(S) \in Nat
<1>1. IsFiniteSet(1..(MaxEvents + MaxIncidents))
  BY AutomationAssumption, FS_Interval
<1> QED
  BY <1>1, FS_Subset, FS_CardinalityType DEF Runs

LEMMA DisjointUnion ==
  ASSUME NEW S, NEW T, IsFiniteSet(S), IsFiniteSet(T), S \cap T = {}
  PROVE  Cardinality(S \cup T) = Cardinality(S) + Cardinality(T)
<1>1. Cardinality(S \cup T) = Cardinality(S) + Cardinality(T) - Cardinality(S \cap T)
  BY FS_Union
<1>2. Cardinality(S \cap T) = 0
  BY FS_EmptySet
<1>3. Cardinality(S) \in Nat /\ Cardinality(T) \in Nat
  BY FS_CardinalityType
<1> QED
  BY <1>1, <1>2, <1>3

LEMMA ClaimStep ==
  ASSUME Inv, NEW w \in Workers, CommitClaim(w)
  PROVE  /\ RowsOK' /\ \A r \in Runs : RowStep(r)
         /\ worker[w].runs \subseteq Runs
         /\ \A r \in worker[w].runs :
              /\ run[r].status # "running"
              /\ run'[r].status = "running" /\ run'[r].stale = FALSE
              /\ run'[r].attempt = Claimed(r).attempt
              /\ run'[r].maxAttempts = run[r].maxAttempts
              /\ Claimed(r).attempt \in Nat /\ run[r].maxAttempts \in Nat
         /\ \A r \in Runs \ worker[w].runs : run'[r] = run[r]
<1> DEFINE taken == worker[w].runs
<1>1. RowsOK
  BY TypedRows DEF Inv
<1>2. run' = [r \in Runs |-> IF r \in taken THEN Claimed(r) ELSE run[r]]
  BY DEF CommitClaim
<1>3. taken \subseteq Runs
  BY DEF Inv, TypeOK, WorkerType
<1>4. \A r \in taken : Due(r)
  BY DEF Inv, CapacityOK, LockOK, LockedBy, CommitClaim
<1> HIDE DEF taken
<1>5. ASSUME NEW r \in taken
      PROVE  /\ RowOK(run'[r]) /\ RowStep(r) /\ run[r].status # "running"
             /\ run'[r].status = "running" /\ run'[r].stale = FALSE
             /\ run'[r].attempt = Claimed(r).attempt
             /\ run'[r].maxAttempts = run[r].maxAttempts
             /\ Claimed(r).attempt \in Nat /\ run[r].maxAttempts \in Nat
  <2> DEFINE y == Claimed(r)
  <2>1. r \in Runs /\ RowOK(run[r]) /\ Due(r) /\ run'[r] = y
    BY <1>1, <1>2, <1>3, <1>4 DEF RowsOK
  <2>2. /\ RowOK(y) /\ y.status = "running" /\ y.stale = FALSE
        /\ y.event = run[r].event /\ y.maxAttempts = run[r].maxAttempts
    BY <2>1, ClaimedRow
  <2>3. y.attempt = Claimed(r).attempt
    OBVIOUS
  <2> HIDE DEF y
  <2>4. y.attempt \in Nat /\ y.maxAttempts \in Nat
    BY <2>2, RowFields
  <2>5. run[r].status \in {"queued", "retrying"}
    BY <2>1 DEF Due
  <2>6. RowStep(r)
    BY <2>1, <2>2, <2>5 DEF RowStep, Ended
  <2> QED
    BY <2>1, <2>2, <2>3, <2>4, <2>5, <2>6
<1>6. ASSUME NEW r \in Runs \ taken
      PROVE  RowOK(run'[r]) /\ RowStep(r) /\ run'[r] = run[r]
  BY <1>1, <1>2, KeptRow DEF RowsOK
<1>7. \A r \in Runs : RowOK(run'[r]) /\ RowStep(r)
  BY <1>5, <1>6
<1>8. run' \in [Runs -> RunType]
  <2>1. \A r \in Runs : run'[r] \in RunType
    BY <1>7 DEF RowOK
  <2> QED
    BY <1>2, <2>1
<1>9. RowsOK'
  BY <1>7, <1>8, NewRows
<1> QED
  BY <1>3, <1>5, <1>6, <1>7, <1>9 DEF taken

(* Executions after a quiet step and after a claim.                        *)
LEMMA QuietExecutors ==
  ASSUME Inv, QuietStep
  PROVE  ExecutorsOK' /\ executors' \subseteq ExecutorType
<1>1. ASSUME NEW x \in executors'
      PROVE  ExecutorOK(x)'
  BY DEF Inv, ExecutorsOK, ExecutorOK, QuietStep
<1>2. executors' \subseteq executors
  BY DEF QuietStep
<1> QED
  BY <1>1, <1>2 DEF Inv, ExecutorsOK, TypeOK

LEMMA ClaimExecutors ==
  ASSUME Inv, NEW w \in Workers, CommitClaim(w)
  PROVE  ExecutorsOK' /\ executors' \subseteq ExecutorType
<1> DEFINE taken == worker[w].runs
<1>1. executors' = executors \cup {Execution(w, r) : r \in taken}
  BY DEF CommitClaim
<1>2. /\ taken \subseteq Runs
      /\ \A r \in taken :
           /\ run[r].status # "running"
           /\ run'[r].status = "running" /\ run'[r].stale = FALSE
           /\ run'[r].attempt = Claimed(r).attempt
           /\ run'[r].maxAttempts = run[r].maxAttempts
           /\ Claimed(r).attempt \in Nat /\ run[r].maxAttempts \in Nat
      /\ \A r \in Runs \ taken : run'[r] = run[r]
  BY ClaimStep
<1> HIDE DEF taken
<1>3. ASSUME NEW r \in taken, NEW x, x = Execution(w, r)
      PROVE  x \in ExecutorType /\ x.run = r /\ ExecutorOK(x)'
  <2>1. /\ x.run = r /\ x.attempt = Claimed(r).attempt /\ x.maxAttempts = run[r].maxAttempts
    BY <1>3 DEF Execution
  <2>2. x \in ExecutorType
    BY <1>2, <1>3 DEF Execution, ExecutorType
  <2> QED
    BY <1>2, <2>1, <2>2 DEF ExecutorOK
<1>4. ASSUME NEW x \in executors
      PROVE  /\ x \in ExecutorType /\ x.run \notin taken /\ ExecutorOK(x)'
  <2>1. x \in ExecutorType /\ x.run \in Runs /\ run[x.run].status = "running" /\ ExecutorOK(x)
    BY RunningRuns
  <2>2. x.run \notin taken /\ run'[x.run] = run[x.run]
    BY <1>2, <2>1
  <2> QED
    BY <2>1, <2>2 DEF ExecutorOK
<1>5. executors' \subseteq ExecutorType
  BY <1>1, <1>3, <1>4
<1>6. \A x \in executors' : ExecutorOK(x)'
  BY <1>1, <1>3, <1>4
<1>7. ASSUME NEW x \in executors', NEW y \in executors', x.run = y.run
      PROVE  x = y
  <2>1. CASE x \in executors /\ y \in executors
    BY <1>7, <2>1 DEF Inv, ExecutorsOK
  <2>2. CASE x \notin executors
    BY <1>1, <1>3, <1>4, <1>7, <2>2
  <2>3. CASE y \notin executors
    BY <1>1, <1>3, <1>4, <1>7, <2>3
  <2> QED
    BY <2>1, <2>2, <2>3
<1> QED
  BY <1>5, <1>6, <1>7 DEF ExecutorsOK
-----------------------------------------------------------------------------
(* What the workers are at.                                                *)
LEMMA OneWorker ==
  ASSUME TypeOK, NEW w \in Workers, NEW y \in WorkerType, worker' = [worker EXCEPT ![w] = y]
  PROVE  /\ worker' \in [Workers -> WorkerType]
         /\ \A v \in Workers : worker'[v] = IF v = w THEN y ELSE worker[v]
  BY DEF TypeOK

LEMMA WorkerFields ==
  ASSUME TypeOK, NEW w \in Workers
  PROVE  /\ worker[w] \in WorkerType /\ worker[w].last \in 0..MaxEvents
         /\ worker[w].events \in SUBSET Events /\ worker[w].runs \in SUBSET Runs
  BY DEF TypeOK, WorkerType

LEMMA FreshWorker ==
  ASSUME NEW pc \in {"idle", "list", "enqueue", "recover", "claim", "locked", "execute"},
         NEW y, y = [Idle EXCEPT !.pc = pc] \/ (y = Idle /\ pc = "idle")
  PROVE  /\ y \in WorkerType
         /\ y.pc = pc /\ y.last = 0 /\ y.events = {} /\ y.runs = {}
<1>1. y = [pc |-> pc, last |-> 0, events |-> {}, runs |-> {}]
  BY DEF Idle
<1>2. 0 \in 0..MaxEvents
  BY AutomationAssumption
<1>3. y \in WorkerType
  BY <1>1, <1>2 DEF WorkerType
<1> QED
  BY <1>1, <1>3

(* The capacity after a quiet step in which no worker takes the lock.      *)
LEMMA QuietCapacity ==
  ASSUME Inv, QuietStep
  PROVE  /\ Running' \subseteq Running
         /\ Cardinality(Running') \in Nat /\ Cardinality(Running) \in Nat
         /\ Cardinality(Running') <= Cardinality(Running)
         /\ Cardinality(Running') <= Cap
         /\ \A r \in Runs : Due(r) => Due(r)'
<1>1. Running' \subseteq Running
  BY DEF QuietStep, QuietRow, Running
<1>2. Running \in SUBSET Runs /\ Running' \in SUBSET Runs
  BY <1>1 DEF Running
<1>3. Cardinality(Running') <= Cardinality(Running)
  BY <1>1, <1>2, RunsAreFinite, FS_Subset
<1>4. Cardinality(Running) \in Nat /\ Cardinality(Running') \in Nat
  BY <1>2, RunsAreFinite
<1>5. \A r \in Runs : Due(r) => Due(r)'
  BY DEF QuietStep, QuietRow, Due
<1>6. Cap \in Nat /\ Cardinality(Running) <= Cap
  BY AutomationAssumption DEF Inv, CapacityOK
<1> QED
  BY <1>1, <1>3, <1>4, <1>5, <1>6

LEMMA LockKept ==
  ASSUME Inv, QuietStep,
         \A w \in Workers :
           LockedBy(w)' => LockedBy(w) /\ worker'[w].runs = worker[w].runs
  PROVE  CapacityOK'
<1>1. ASSUME NEW w \in Workers, LockedBy(w)'
      PROVE  LockOK(w)'
  <2>1. /\ LockedBy(w) /\ worker'[w].runs = worker[w].runs
        /\ worker[w].runs \in SUBSET Runs
    BY <1>1, WorkerFields DEF Inv
  <2>2. /\ \A r \in worker[w].runs : Due(r)
        /\ worker[w].runs = {} \/ Cardinality(worker[w].runs) + Cardinality(Running) <= Cap
    BY <2>1 DEF Inv, CapacityOK, LockOK
  <2>3. Cardinality(worker[w].runs) \in Nat /\ Cap \in Nat
    BY <2>1, RunsAreFinite, AutomationAssumption
  <2>4. \A r \in worker[w].runs : Due(r)'
    BY <2>1, <2>2, QuietCapacity
  <2>5. worker[w].runs = {} \/ Cardinality(worker[w].runs) + Cardinality(Running') <= Cap
    BY <2>2, <2>3, QuietCapacity
  <2> QED
    BY <2>1, <2>4, <2>5 DEF LockOK
<1>2. \A w \in Workers : LockOK(w)'
  BY <1>1 DEF LockOK
<1>3. \A v, w \in Workers : LockedBy(v)' /\ LockedBy(w)' => v = w
  BY DEF Inv, CapacityOK
<1> QED
  BY <1>2, <1>3, QuietCapacity DEF CapacityOK

LEMMA LockTaken ==
  ASSUME Inv, NEW w \in Workers, LockDefinition(w)
  PROVE  CapacityOK' /\ worker' \in [Workers -> WorkerType]
<1>1. PICK taken \in SUBSET {r \in Runs : Due(r)} :
        /\ taken = {} \/ Cardinality(taken) <= Room
        /\ worker' = [worker EXCEPT ![w] = [Idle EXCEPT !.pc = "locked", !.runs = taken]]
  BY DEF LockDefinition
<1>2. PICK y : y = [Idle EXCEPT !.pc = "locked", !.runs = taken]
  OBVIOUS
<1>3. y = [pc |-> "locked", last |-> 0, events |-> {}, runs |-> taken]
  BY <1>2 DEF Idle
<1>4. y \in WorkerType
  <2>1. 0 \in 0..MaxEvents /\ taken \in SUBSET Runs
    BY AutomationAssumption
  <2> QED
    BY <1>3, <2>1 DEF WorkerType
<1>5. /\ worker' \in [Workers -> WorkerType]
      /\ \A v \in Workers : worker'[v] = IF v = w THEN y ELSE worker[v]
  BY <1>1, <1>2, <1>4, OneWorker DEF Inv
<1>6. run' = run
  BY DEF LockDefinition
<1>7. \A v \in Workers : LockedBy(v)' => v = w
  BY <1>5 DEF LockDefinition, LockedBy
<1>8. /\ \A r \in taken : Due(r)'
      /\ taken = {} \/ Cardinality(taken) + Cardinality(Running') <= Cap
      /\ Cardinality(Running') <= Cap
  <2>1. Running' = Running /\ Running \in SUBSET Runs
    BY <1>6 DEF Running
  <2>2. Cardinality(Running) \in Nat /\ Cardinality(taken) \in Nat /\ Cap \in Nat
    BY <2>1, RunsAreFinite, AutomationAssumption
  <2>3. Room = Cap - Cardinality(Running)
    BY DEF Room, Running
  <2>4. Cardinality(Running) <= Cap
    BY DEF Inv, CapacityOK
  <2>5. \A r \in taken : Due(r)'
    BY <1>6 DEF Due
  <2> QED
    BY <1>1, <2>1, <2>2, <2>3, <2>4, <2>5
<1>9. worker'[w].runs = taken
  BY <1>3, <1>5
<1>10. \A v \in Workers : LockOK(v)'
  BY <1>7, <1>8, <1>9 DEF LockOK
<1> QED
  BY <1>5, <1>7, <1>8, <1>10 DEF CapacityOK

LEMMA ClaimCapacity ==
  ASSUME Inv, NEW w \in Workers, CommitClaim(w)
  PROVE  CapacityOK' /\ worker' \in [Workers -> WorkerType]
<1> DEFINE taken == worker[w].runs
<1>1. /\ taken \subseteq Runs
      /\ \A r \in taken : run[r].status # "running" /\ run'[r].status = "running"
      /\ \A r \in Runs \ taken : run'[r] = run[r]
  BY ClaimStep
<1>2. taken = {} \/ Cardinality(taken) + Cardinality(Running) <= Cap
  BY DEF Inv, CapacityOK, LockOK, LockedBy, CommitClaim
<1>3. PICK y : y = [Idle EXCEPT !.pc = IF taken = {} THEN "idle" ELSE "execute"]
  OBVIOUS
<1>4. y \in WorkerType /\ y.pc # "locked"
  BY <1>3, FreshWorker
<1>5. worker' = [worker EXCEPT ![w] = y]
  BY <1>3 DEF CommitClaim
<1>6. /\ worker' \in [Workers -> WorkerType]
      /\ \A v \in Workers : worker'[v] = IF v = w THEN y ELSE worker[v]
  BY <1>4, <1>5, OneWorker DEF Inv
<1>7. \A v \in Workers : ~LockedBy(v)'
  <2>1. LockedBy(w)
    BY DEF CommitClaim, LockedBy
  <2>2. \A v \in Workers : LockedBy(v) => v = w
    BY <2>1 DEF Inv, CapacityOK
  <2> QED
    BY <1>4, <1>6, <2>2 DEF LockedBy
<1> HIDE DEF taken
<1>8. Cardinality(Running') <= Cap
  <2>1. Running' = Running \cup taken /\ Running \cap taken = {}
    BY <1>1 DEF Running
  <2>2. Running \in SUBSET Runs /\ taken \in SUBSET Runs
    BY <1>1 DEF Running
  <2>3. /\ IsFiniteSet(Running) /\ IsFiniteSet(taken)
        /\ Cardinality(Running) \in Nat /\ Cardinality(taken) \in Nat /\ Cap \in Nat
    BY <2>2, RunsAreFinite, AutomationAssumption
  <2>4. Cardinality(Running') = Cardinality(Running) + Cardinality(taken)
    BY <2>1, <2>3, DisjointUnion
  <2>5. Cardinality(Running) <= Cap
    BY DEF Inv, CapacityOK
  <2>6. taken = {} => Running' = Running
    BY <2>1
  <2> QED
    BY <1>2, <2>3, <2>4, <2>5, <2>6
<1> QED
  BY <1>6, <1>7, <1>8 DEF CapacityOK, LockOK
-----------------------------------------------------------------------------
(* What the cursor has passed stays passed: events appear behind all that  *)
(* is written, late, or with their run.                                    *)
AddsInOrder ==
  /\ Written \subseteq Written'
  /\ \A e \in Written' \ late' :
       \/ e \in Written \ late
       \/ \E r \in Runs : run'[r].status # "none" /\ run'[r].event = e
       \/ \A f \in Written : f < e

LEMMA RanKept ==
  ASSUME \A r \in Runs : RowStep(r), NEW e, Ran(e)
  PROVE  Ran(e)'
  BY DEF RowStep, Ran, Exists

LEMMA PassedKept ==
  ASSUME \A r \in Runs : RowStep(r), AddsInOrder, NEW p, Passed(p)
  PROVE  Passed(p)'
<1>1. ASSUME NEW e \in Written' \ late', e <= p
      PROVE  Ran(e)'
  <2>1. CASE e \in Written \ late
    BY <1>1, <2>1, RanKept DEF Passed
  <2>2. CASE \E r \in Runs : run'[r].status # "none" /\ run'[r].event = e
    BY <2>2 DEF Ran, Exists
  <2>3. CASE \A f \in Written : f < e
    <3>1. e \in 1..MaxEvents /\ Written \subseteq 1..MaxEvents
      BY DEF Written, Events
    <3>2. p = 0 \/ p \in Written
      BY DEF Passed
    <3>3. p \notin Written
      <4>1. ASSUME p \in Written
            PROVE  FALSE
        <5>1. p \in 1..MaxEvents /\ p < e /\ e <= p
          BY <1>1, <2>3, <3>1, <4>1
        <5> QED
          BY <3>1, <5>1, AutomationAssumption
      <4> QED
        BY <4>1
    <3>4. e <= 0
      BY <1>1, <3>2, <3>3
    <3> QED
      BY <3>1, <3>4, AutomationAssumption
  <2> QED
    BY <2>1, <2>2, <2>3 DEF AddsInOrder
<1> QED
  BY <1>1 DEF Passed, AddsInOrder

LEMMA PageKept ==
  ASSUME \A r \in Runs : RowStep(r), AddsInOrder, NEW y, PageOK(y)
  PROVE  PageOK(y)'
<1>1. ASSUME NEW e \in Written' \ late', NEW f \in y.events, e > y.last, e <= f
      PROVE  e \in y.events \/ Ran(e)'
  <2>1. CASE e \in Written \ late
    BY <1>1, <2>1, RanKept DEF PageOK
  <2>2. CASE \E r \in Runs : run'[r].status # "none" /\ run'[r].event = e
    BY <2>2 DEF Ran, Exists
  <2>3. CASE \A g \in Written : g < e
    <3>1. e \in 1..MaxEvents /\ f \in 1..MaxEvents /\ f \in Written
      BY DEF PageOK, Written, Events
    <3> QED
      BY <1>1, <2>3, <3>1, AutomationAssumption
  <2> QED
    BY <2>1, <2>2, <2>3 DEF AddsInOrder
<1> QED
  BY <1>1 DEF PageOK, AddsInOrder

LEMMA SameEvents ==
  ASSUME event' = event, late' = late
  PROVE  AddsInOrder /\ Written' = Written /\ (InOrder => InOrder')
  BY DEF AddsInOrder, Written, InOrder

LEMMA FreshPage ==
  ASSUME TypeOK, NEW y, y.last = 0, y.events = {}
  PROVE  Passed(y.last) /\ PageOK(y)
<1>1. \A e \in Written : ~(e <= 0)
  BY AutomationAssumption DEF Written, Events
<1> QED
  BY <1>1 DEF Passed, PageOK

(* A step of events, and a step of a worker.                               *)
LEMMA PassedNext ==
  ASSUME NEW p, cursor' = p, Passed(p)'
  PROVE  Passed(cursor)'
  BY DEF Passed

LEMMA WorkerNext ==
  ASSUME NEW w \in Workers, NEW y, worker'[w] = y, Passed(y.last)', PageOK(y)'
  PROVE  (Passed(worker[w].last) /\ PageOK(worker[w]))'
  BY DEF Passed, PageOK

LEMMA EventCursor ==
  ASSUME Inv, \A r \in Runs : RowStep(r), AddsInOrder, InOrder',
         worker' = worker, cursor' = cursor
  PROVE  CursorOK'
<1>1. PICK p : p = cursor
  OBVIOUS
<1>2. Passed(p)
  BY <1>1 DEF Inv, CursorOK
<1>3. Passed(cursor)'
  BY <1>1, <1>2, PassedKept, PassedNext
<1>4. ASSUME NEW w \in Workers
      PROVE  (Passed(worker[w].last) /\ PageOK(worker[w]))'
  <2>1. PICK y : y = worker[w]
    OBVIOUS
  <2>2. Passed(y.last) /\ PageOK(y)
    BY <2>1 DEF Inv, CursorOK
  <2>3. Passed(y.last)' /\ PageOK(y)' /\ worker'[w] = y
    BY <2>1, <2>2, PassedKept, PageKept
  <2> QED
    BY <2>3, WorkerNext
<1> QED
  BY <1>3, <1>4 DEF CursorOK

LEMMA WorkerCursor ==
  ASSUME Inv, \A r \in Runs : RowStep(r), event' = event, late' = late,
         NEW w \in Workers, NEW y \in WorkerType, worker' = [worker EXCEPT ![w] = y],
         Passed(y.last)', PageOK(y)', NEW p, cursor' = p, Passed(p)'
  PROVE  CursorOK'
<1>1. AddsInOrder /\ InOrder'
  BY SameEvents DEF Inv, CursorOK
<1>2. Passed(cursor)'
  BY PassedNext
<1>3. \A v \in Workers : worker'[v] = IF v = w THEN y ELSE worker[v]
  BY OneWorker DEF Inv
<1>4. ASSUME NEW v \in Workers
      PROVE  (Passed(worker[v].last) /\ PageOK(worker[v]))'
  <2>1. CASE v = w
    BY <1>3, <2>1, WorkerNext
  <2>2. CASE v # w
    <3>1. PICK z : z = worker[v]
      OBVIOUS
    <3>2. Passed(z.last) /\ PageOK(z)
      BY <3>1 DEF Inv, CursorOK
    <3>3. Passed(z.last)' /\ PageOK(z)' /\ worker'[v] = z
      BY <1>1, <1>3, <2>2, <3>1, <3>2, PassedKept, PageKept
    <3> QED
      BY <3>3, WorkerNext
  <2> QED
    BY <2>1, <2>2
<1> QED
  BY <1>1, <1>2, <1>4 DEF CursorOK
-----------------------------------------------------------------------------
(* The cursor through the steps of events.                                 *)
LEMMA AllRows ==
  ASSUME QuietStep
  PROVE  \A r \in Runs : RowStep(r)
  BY DEF QuietStep

LEMMA NewestEvent ==
  ASSUME Inv, NEW e \in Events, NextEvent(e)
  PROVE  e \notin Written /\ \A f \in Written : f < e
<1>1. \A f \in Written : f \in Events /\ event[f] # "none"
  BY DEF Written
<1>2. \A f \in Events : e < f => event[f] = "none"
  BY DEF NextEvent, Inv, CursorOK, InOrder
<1>3. e \in 1..MaxEvents /\ Written \subseteq 1..MaxEvents /\ MaxEvents \in Nat
  BY AutomationAssumption DEF Written, Events
<1>4. e \notin Written
  BY DEF NextEvent, Written
<1> QED
  BY <1>1, <1>2, <1>3, <1>4

LEMMA OneEvent ==
  ASSUME Inv, NEW e \in Events, NEW s \in EventStates, s # "none",
         event' = [event EXCEPT ![e] = s], event[e] # "none" \/ NextEvent(e)
  PROVE  /\ event' \in [Events -> EventStates]
         /\ InOrder'
         /\ s \in {"owed", "written"} => Written' = Written \cup {e}
         /\ (event[e] \notin {"owed", "written"} /\ s \notin {"owed", "written"})
              => Written' = Written
<1>1. event \in [Events -> EventStates]
  BY DEF Inv, TypeOK
<1>2. /\ event' \in [Events -> EventStates]
      /\ \A f \in Events : event'[f] = IF f = e THEN s ELSE event[f]
  BY <1>1
<1>3. InOrder'
  <2>1. \A x, y \in Events : y < x /\ event[x] # "none" => event[y] # "none"
    BY DEF Inv, CursorOK, InOrder
  <2>2. event[e] = "none" => \A f \in Events : f < e => event[f] # "none"
    BY DEF NextEvent
  <2>3. ASSUME NEW x \in Events, NEW y \in Events, y < x, event'[x] # "none"
        PROVE  event'[y] # "none"
    BY <1>2, <2>1, <2>2, <2>3
  <2> QED
    BY <2>3 DEF InOrder
<1> QED
  BY <1>2, <1>3 DEF Written

LEMMA WriteCursor ==
  ASSUME Inv, NEW e \in Events, WriteEvent(e) \/ InsertEvent(e)
  PROVE  CursorOK' /\ event' \in [Events -> EventStates]
<1>1. QuietStep
  BY EventSteps
<1>2. PICK s \in {"owed", "open"} :
        /\ event' = [event EXCEPT ![e] = s] /\ NextEvent(e)
        /\ worker' = worker /\ cursor' = cursor /\ late' = late
  BY DEF WriteEvent, InsertEvent
<1>3. s \in EventStates /\ s # "none" /\ event[e] = "none"
  BY <1>2 DEF EventStates, NextEvent
<1>4. /\ event' \in [Events -> EventStates] /\ InOrder'
      /\ Written' = Written \cup {e} \/ Written' = Written
  BY <1>2, <1>3, OneEvent
<1>5. AddsInOrder
  BY <1>2, <1>4, NewestEvent DEF AddsInOrder
<1> QED
  BY <1>1, <1>2, <1>4, <1>5, AllRows, EventCursor

LEMMA OwedCursor ==
  ASSUME Inv, NEW e \in Events, EnqueueAtOnce(e) \/ WriterDies(e) \/ AbortEvent(e)
  PROVE  CursorOK' /\ event' \in [Events -> EventStates]
<1>1. QuietStep
  BY EventSteps
<1>2. PICK s \in {"written", "aborted"} :
        /\ event' = [event EXCEPT ![e] = s]
        /\ event[e] = IF s = "written" THEN "owed" ELSE "open"
        /\ worker' = worker /\ cursor' = cursor /\ late' = late
  BY DEF EnqueueAtOnce, WriterDies, AbortEvent
<1>3. s \in EventStates /\ s # "none" /\ event[e] # "none"
  BY <1>2 DEF EventStates
<1>4. event' \in [Events -> EventStates] /\ InOrder' /\ Written' = Written
  <2>1. /\ event' \in [Events -> EventStates] /\ InOrder'
        /\ s = "written" => Written' = Written \cup {e}
        /\ s = "aborted" => Written' = Written
    BY <1>2, <1>3, OneEvent
  <2>2. s = "written" => e \in Written
    BY <1>2 DEF Written
  <2> QED
    BY <2>1, <2>2
<1>5. AddsInOrder
  BY <1>2, <1>4 DEF AddsInOrder
<1> QED
  BY <1>1, <1>2, <1>4, <1>5, AllRows, EventCursor

LEMMA CommitCursor ==
  ASSUME Inv, NEW e \in Events, CommitEvent(e)
  PROVE  CursorOK' /\ event' \in [Events -> EventStates] /\ late' \subseteq Events
<1>1. QuietStep
  BY EventSteps
<1>2. /\ event' = [event EXCEPT ![e] = "written"] /\ event[e] = "open"
      /\ worker' = worker /\ cursor' = cursor /\ executors' = executors
  BY DEF CommitEvent
<1>3. event' \in [Events -> EventStates] /\ InOrder' /\ Written' = Written \cup {e}
  BY <1>2, OneEvent DEF EventStates
<1>4. late \subseteq Events /\ late \subseteq late' /\ late' \subseteq late \cup {e}
  BY DEF CommitEvent, Inv, TypeOK
<1>5. \/ e \in late'
      \/ \E r \in Runs : run'[r].status # "none" /\ run'[r].event = e
      \/ \A f \in Written : f < e
  <2>1. CASE Enqueue(e)
    BY <1>2, <2>1, EnqueueStep
  <2>2. CASE late' = IF \E f \in Written : f > e THEN late \cup {e} ELSE late
    <3>1. e \notin Written /\ e \in 1..MaxEvents /\ Written \subseteq 1..MaxEvents
      BY <1>2 DEF Written, Events
    <3>2. ASSUME ~\E f \in Written : f > e, NEW f \in Written
          PROVE  f < e
      <4>1. f \in 1..MaxEvents /\ f # e /\ ~(f > e)
        BY <3>1, <3>2
      <4> QED
        BY <3>1, <4>1, AutomationAssumption
    <3> QED
      BY <2>2, <3>2
  <2> QED
    BY <2>1, <2>2 DEF CommitEvent
<1>6. AddsInOrder
  BY <1>3, <1>4, <1>5 DEF AddsInOrder
<1> QED
  BY <1>1, <1>2, <1>3, <1>4, <1>6, AllRows, EventCursor
-----------------------------------------------------------------------------
(* The cursor through the steps of workers.                                *)
LEMMA RestWorker ==
  ASSUME Inv, \A r \in Runs : RowStep(r), event' = event, late' = late, cursor' = cursor,
         NEW w \in Workers, NEW y \in WorkerType, worker' = [worker EXCEPT ![w] = y],
         y.last = 0, y.events = {}
  PROVE  CursorOK'
<1>1. AddsInOrder
  BY SameEvents
<1>2. Passed(y.last) /\ PageOK(y)
  BY FreshPage DEF Inv
<1>3. PICK p : p = cursor
  OBVIOUS
<1>4. Passed(p)
  BY <1>3 DEF Inv, CursorOK
<1>5. Passed(y.last)' /\ PageOK(y)' /\ Passed(p)'
  BY <1>1, <1>2, <1>4, PassedKept, PageKept
<1> QED
  BY <1>3, <1>5, WorkerCursor

LEMMA ReadCursorStep ==
  ASSUME Inv, NEW w \in Workers, ReadCursor(w)
  PROVE  /\ CursorOK' /\ worker' \in [Workers -> WorkerType] /\ cursor' \in 0..MaxEvents
         /\ \A v \in Workers :
              LockedBy(v)' => LockedBy(v) /\ worker'[v].runs = worker[v].runs
<1>1. PICK p : p = cursor
  OBVIOUS
<1>2. PICK y : y = [Idle EXCEPT !.pc = "list", !.last = p]
  OBVIOUS
<1>3. y = [pc |-> "list", last |-> p, events |-> {}, runs |-> {}]
  BY <1>2 DEF Idle
<1>4. p \in 0..MaxEvents
  BY <1>1 DEF Inv, TypeOK
<1>5. y \in WorkerType
  BY <1>3, <1>4 DEF WorkerType
<1>6. /\ y.pc = "list" /\ y.last = p /\ y.events = {}
      /\ worker' = [worker EXCEPT ![w] = y]
      /\ event' = event /\ late' = late /\ cursor' = p /\ run' = run /\ executors' = executors
  <2>1. worker' = [worker EXCEPT ![w] = y]
    BY <1>1, <1>2 DEF ReadCursor
  <2>2. /\ event' = event /\ late' = late /\ cursor' = p /\ run' = run
        /\ executors' = executors
    BY <1>1 DEF ReadCursor
  <2>3. y.pc = "list" /\ y.last = p /\ y.events = {}
    BY <1>3
  <2> QED
    BY <2>1, <2>2, <2>3
<1>7. QuietStep
  BY <1>6, TypedRows, StillRows DEF Inv
<1>8. Passed(p) /\ AddsInOrder
  BY <1>1, <1>6, SameEvents DEF Inv, CursorOK
<1>9. Passed(p)'
  BY <1>7, <1>8, AllRows, PassedKept
<1>10. Passed(y.last)' /\ PageOK(y)'
  <2>1. PageOK(y)
    BY <1>6 DEF PageOK
  <2>2. PageOK(y)'
    BY <1>7, <1>8, <2>1, AllRows, PageKept
  <2> QED
    BY <1>6, <1>9, <2>2
<1>11. CursorOK'
  BY <1>5, <1>6, <1>7, <1>9, <1>10, AllRows, WorkerCursor
<1>12. /\ worker' \in [Workers -> WorkerType]
       /\ \A v \in Workers : worker'[v] = IF v = w THEN y ELSE worker[v]
  BY <1>5, <1>6, OneWorker DEF Inv
<1> QED
  BY <1>4, <1>6, <1>11, <1>12 DEF LockedBy

(* The page a worker reads has no gap.                                     *)
LEMMA PageRead ==
  ASSUME Inv, NEW id \in 0..MaxEvents
  PROVE  /\ FirstAfter(id) \subseteq Written
         /\ \A e \in FirstAfter(id) : e > id
         /\ \A e \in Written, f \in FirstAfter(id) : e > id /\ e <= f => e \in FirstAfter(id)
<1> DEFINE after == {e \in Written : e > id}
           before(e) == {f \in after : f < e}
<1>1. FirstAfter(id) = {e \in after : Cardinality(before(e)) < PageSize}
  BY DEF FirstAfter
<1>2. IsFiniteSet(Events) /\ after \subseteq Events
  <2>1. IsFiniteSet(1..MaxEvents)
    BY AutomationAssumption, FS_Interval
  <2> QED
    BY <2>1 DEF Events, Written
<1>3. ASSUME NEW e \in Written, NEW f \in FirstAfter(id), e > id, e <= f
      PROVE  e \in FirstAfter(id)
  <2>1. e \in after /\ f \in after /\ Cardinality(before(f)) < PageSize
    BY <1>1, <1>3
  <2>2. e \in 1..MaxEvents /\ f \in 1..MaxEvents /\ after \subseteq 1..MaxEvents
    BY <1>2, <2>1 DEF Events
  <2>3. before(e) \subseteq before(f)
    BY <1>3, <2>2, AutomationAssumption
  <2>4. before(f) \in SUBSET Events
    BY <1>2
  <2> HIDE DEF before, after
  <2>5. IsFiniteSet(before(f))
    BY <1>2, <2>4, FS_Subset
  <2>6. /\ IsFiniteSet(before(e)) /\ Cardinality(before(e)) <= Cardinality(before(f))
    BY <2>3, <2>5, FS_Subset
  <2>7. Cardinality(before(e)) \in Nat /\ Cardinality(before(f)) \in Nat /\ PageSize \in Nat
    BY <2>5, <2>6, FS_CardinalityType, AutomationAssumption
  <2>8. Cardinality(before(e)) < PageSize
    BY <2>1, <2>6, <2>7
  <2> QED
    BY <1>1, <2>1, <2>8
<1> QED
  BY <1>1, <1>3

LEMMA ListStep ==
  ASSUME Inv, NEW w \in Workers, ListEvents(w)
  PROVE  /\ CursorOK' /\ worker' \in [Workers -> WorkerType]
         /\ \A v \in Workers :
              LockedBy(v)' => LockedBy(v) /\ worker'[v].runs = worker[v].runs
<1> DEFINE page == FirstAfter(worker[w].last)
<1>1. PICK y : y = IF page = {} THEN [Idle EXCEPT !.pc = "recover"]
                   ELSE [worker[w] EXCEPT !.pc = "enqueue", !.events = page]
  OBVIOUS
<1>2. /\ worker' = [worker EXCEPT ![w] = y] /\ run' = run /\ executors' = executors
      /\ event' = event /\ late' = late /\ cursor' = cursor
  BY <1>1 DEF ListEvents
<1>3. QuietStep
  BY <1>2, TypedRows, StillRows DEF Inv
<1>4. CASE page = {}
  <2>1. y \in WorkerType /\ y.last = 0 /\ y.events = {} /\ y.pc = "recover"
    BY <1>1, <1>4, FreshWorker
  <2>2. CursorOK'
    BY <1>2, <1>3, <2>1, AllRows, RestWorker
  <2>3. /\ worker' \in [Workers -> WorkerType]
        /\ \A v \in Workers : worker'[v] = IF v = w THEN y ELSE worker[v]
    BY <1>2, <2>1, OneWorker DEF Inv
  <2> QED
    BY <2>1, <2>2, <2>3 DEF LockedBy
<1>5. CASE page # {}
  <2>1. worker[w] \in WorkerType /\ worker[w].last \in 0..MaxEvents
    BY WorkerFields DEF Inv
  <2>2. /\ page \subseteq Written /\ \A e \in page : e > worker[w].last
        /\ \A e \in Written, f \in page : e > worker[w].last /\ e <= f => e \in page
    BY <2>1, PageRead
  <2>3. page \in SUBSET Events
    BY <2>2 DEF Written
  <2> HIDE DEF page
  <2>4. y = [worker[w] EXCEPT !.pc = "enqueue", !.events = page]
    BY <1>1, <1>5
  <2>5. y \in WorkerType
    BY <2>1, <2>3, <2>4 DEF WorkerType
  <2>6. y.pc = "enqueue" /\ y.last = worker[w].last /\ y.events = page
    BY <2>1, <2>4 DEF WorkerType
  <2>7. Passed(y.last) /\ PageOK(y)
    BY <2>2, <2>6 DEF Inv, CursorOK, PageOK
  <2>8. AddsInOrder
    BY <1>2, SameEvents
  <2>9. PICK p : p = cursor
    OBVIOUS
  <2>10. Passed(p)
    BY <2>9 DEF Inv, CursorOK
  <2>11. Passed(y.last)' /\ PageOK(y)' /\ Passed(p)'
    BY <1>3, <2>7, <2>8, <2>10, AllRows, PassedKept, PageKept
  <2>12. CursorOK'
    BY <1>2, <1>3, <2>5, <2>9, <2>11, AllRows, WorkerCursor
  <2>13. /\ worker' \in [Workers -> WorkerType]
         /\ \A v \in Workers : worker'[v] = IF v = w THEN y ELSE worker[v]
    BY <1>2, <2>5, OneWorker DEF Inv
  <2> QED
    BY <2>6, <2>12, <2>13 DEF LockedBy
<1> QED
  BY <1>4, <1>5

(* One event of the page: all before it have their runs, and now it has.   *)
LEMMA EnqueueListedStep ==
  ASSUME Inv, NEW w \in Workers, EnqueueListed(w)
  PROVE  /\ CursorOK' /\ worker' \in [Workers -> WorkerType]
         /\ \A v \in Workers :
              LockedBy(v)' => LockedBy(v) /\ worker'[v].runs = worker[v].runs
<1>0. PICK x : x = worker[w]
  OBVIOUS
<1>1. PICK e \in x.events :
        /\ \A f \in x.events : e <= f
        /\ Enqueue(e)
        /\ worker' = [worker EXCEPT ![w].events = @ \ {e}, ![w].last = e]
  BY <1>0 DEF EnqueueListed
<1>2. /\ x \in WorkerType /\ x.last \in 0..MaxEvents /\ x.events \in SUBSET Events
      /\ x.pc = "enqueue"
  BY <1>0, WorkerFields DEF Inv, EnqueueListed
<1>3. PICK y : y = [x EXCEPT !.events = @ \ {e}, !.last = e]
  OBVIOUS
<1>4. worker' = [worker EXCEPT ![w] = y]
  BY <1>0, <1>1, <1>3 DEF Inv, TypeOK
<1>5. /\ event' = event /\ late' = late /\ cursor' = cursor /\ executors' = executors
  BY DEF EnqueueListed
<1>6. e \in Events /\ e \in Written /\ Passed(x.last) /\ PageOK(x)
  BY <1>0, <1>1, <1>2 DEF Inv, CursorOK, PageOK
<1>7. /\ QuietStep
      /\ \E r \in Runs : run'[r].status # "none" /\ run'[r].event = e
  BY <1>1, <1>5, <1>6, EnqueueStep
<1>8. y \in WorkerType
  <2>1. e \in 0..MaxEvents /\ x.events \ {e} \in SUBSET Events
    BY <1>2, <1>6, AutomationAssumption DEF Events
  <2> QED
    BY <1>2, <1>3, <2>1 DEF WorkerType
<1>9. y.pc = "enqueue" /\ y.last = e /\ y.events = x.events \ {e}
  BY <1>2, <1>3 DEF WorkerType
<1>10. AddsInOrder /\ Written' = Written /\ Ran(e)'
  BY <1>5, <1>7, SameEvents DEF Ran, Exists
<1>11. Passed(x.last)' /\ PageOK(x)'
  BY <1>6, <1>7, <1>10, AllRows, PassedKept, PageKept
<1>12. /\ Written \subseteq 1..MaxEvents /\ e \in 1..MaxEvents /\ x.last \in 0..MaxEvents
       /\ MaxEvents \in Nat
  BY <1>2, <1>6, AutomationAssumption DEF Written, Events
<1>13. Passed(y.last)'
  <2>1. ASSUME NEW g \in Written' \ late', g <= e
        PROVE  Ran(g)'
    <3>1. CASE g <= x.last
      BY <1>11, <2>1, <3>1 DEF Passed
    <3>2. CASE ~(g <= x.last)
      <4>1. g \in 1..MaxEvents /\ g > x.last
        BY <1>10, <1>12, <3>2
      <4>2. g \in x.events \/ Ran(g)'
        BY <1>1, <1>11, <2>1, <4>1 DEF PageOK
      <4>3. g \in x.events => g = e
        BY <1>1, <1>12, <2>1, <4>1
      <4> QED
        BY <1>10, <4>2, <4>3
    <3> QED
      BY <3>1, <3>2
  <2> QED
    BY <1>6, <1>9, <1>10, <2>1 DEF Passed
<1>14. PageOK(y)'
  <2>1. y.events \subseteq Written' /\ x.events \subseteq 1..MaxEvents
    BY <1>6, <1>9, <1>10, <1>12 DEF PageOK
  <2>2. ASSUME NEW f \in y.events
        PROVE  f > e
    <3>1. f \in x.events /\ f # e /\ e <= f /\ f \in 1..MaxEvents
      BY <1>1, <1>9, <2>1
    <3> QED
      BY <1>12, <3>1
  <2>3. ASSUME NEW g \in Written' \ late', NEW f \in y.events, g > e, g <= f
        PROVE  g \in y.events \/ Ran(g)'
    <3>1. g \in 1..MaxEvents /\ f \in x.events /\ e > x.last
      BY <1>1, <1>6, <1>9, <1>10, <1>12 DEF PageOK
    <3>2. g > x.last /\ g # e
      BY <1>12, <2>3, <3>1
    <3>3. g \in x.events \/ Ran(g)'
      BY <1>11, <2>3, <3>1, <3>2 DEF PageOK
    <3> QED
      BY <1>9, <3>2, <3>3
  <2> QED
    BY <1>9, <2>1, <2>2, <2>3 DEF PageOK
<1>15. PICK p : p = cursor
  OBVIOUS
<1>16. Passed(p)'
  <2>1. Passed(p)
    BY <1>15 DEF Inv, CursorOK
  <2> QED
    BY <1>7, <1>10, <2>1, AllRows, PassedKept
<1>17. CursorOK'
  BY <1>4, <1>5, <1>7, <1>8, <1>13, <1>14, <1>15, <1>16, AllRows, WorkerCursor
<1>18. /\ worker' \in [Workers -> WorkerType]
       /\ \A v \in Workers : worker'[v] = IF v = w THEN y ELSE worker[v]
  BY <1>4, <1>8, OneWorker DEF Inv
<1> QED
  BY <1>0, <1>9, <1>17, <1>18 DEF LockedBy

LEMMA AdvanceStep ==
  ASSUME Inv, NEW w \in Workers, AdvanceCursor(w)
  PROVE  /\ CursorOK' /\ worker' \in [Workers -> WorkerType] /\ cursor' \in 0..MaxEvents
         /\ \A v \in Workers :
              LockedBy(v)' => LockedBy(v) /\ worker'[v].runs = worker[v].runs
<1>1. PICK p : p = worker[w].last
  OBVIOUS
<1>2. PICK y : y = [Idle EXCEPT !.pc = "recover"]
  OBVIOUS
<1>3. y \in WorkerType /\ y.pc = "recover" /\ y.last = 0 /\ y.events = {}
  BY <1>2, FreshWorker
<1>4. /\ worker' = [worker EXCEPT ![w] = y] /\ event' = event /\ late' = late
      /\ cursor' = p /\ run' = run /\ executors' = executors
  BY <1>1, <1>2 DEF AdvanceCursor, Reached
<1>5. QuietStep
  BY <1>4, TypedRows, StillRows DEF Inv
<1>6. AddsInOrder
  BY <1>4, SameEvents
<1>7. Passed(p) /\ p \in 0..MaxEvents
  BY <1>1, WorkerFields DEF Inv, CursorOK
<1>8. Passed(y.last) /\ PageOK(y)
  BY <1>3, FreshPage DEF Inv
<1>9. Passed(p)' /\ Passed(y.last)' /\ PageOK(y)'
  BY <1>5, <1>6, <1>7, <1>8, AllRows, PassedKept, PageKept
<1>10. CursorOK'
  BY <1>3, <1>4, <1>5, <1>9, AllRows, WorkerCursor
<1>11. /\ worker' \in [Workers -> WorkerType]
       /\ \A v \in Workers : worker'[v] = IF v = w THEN y ELSE worker[v]
  BY <1>3, <1>4, OneWorker DEF Inv
<1> QED
  BY <1>3, <1>4, <1>7, <1>10, <1>11 DEF LockedBy

(* A worker that ends, recovers, or goes on after a batch.                 *)
LEMMA FreshStep ==
  ASSUME Inv, \A r \in Runs : RowStep(r), event' = event, late' = late, cursor' = cursor,
         NEW w \in Workers, NEW pc \in {"idle", "recover", "claim", "execute"},
         worker' = [worker EXCEPT ![w] = [Idle EXCEPT !.pc = pc]]
           \/ (worker' = [worker EXCEPT ![w] = Idle] /\ pc = "idle")
  PROVE  /\ CursorOK' /\ worker' \in [Workers -> WorkerType]
         /\ \A v \in Workers :
              LockedBy(v)' => LockedBy(v) /\ worker'[v].runs = worker[v].runs
<1>1. PICK y : /\ y = [Idle EXCEPT !.pc = pc] \/ (y = Idle /\ pc = "idle")
               /\ worker' = [worker EXCEPT ![w] = y]
  OBVIOUS
<1>2. y \in WorkerType /\ y.pc = pc /\ y.last = 0 /\ y.events = {}
  BY <1>1, FreshWorker
<1>3. CursorOK'
  BY <1>1, <1>2, RestWorker
<1>4. /\ worker' \in [Workers -> WorkerType]
      /\ \A v \in Workers : worker'[v] = IF v = w THEN y ELSE worker[v]
  BY <1>1, <1>2, OneWorker DEF Inv
<1> QED
  BY <1>2, <1>3, <1>4 DEF LockedBy

LEMMA EndBatchStep ==
  ASSUME Inv, NEW w \in Workers, EndBatch(w)
  PROVE  /\ CursorOK' /\ worker' \in [Workers -> WorkerType]
         /\ \A v \in Workers :
              LockedBy(v)' => LockedBy(v) /\ worker'[v].runs = worker[v].runs
<1>1. PICK next \in {"claim", "idle"} : worker' = [worker EXCEPT ![w].pc = next]
  BY DEF EndBatch
<1>2. PICK y : y = [worker[w] EXCEPT !.pc = next]
  OBVIOUS
<1>3. /\ worker' = [worker EXCEPT ![w] = y] /\ event' = event /\ late' = late
      /\ cursor' = cursor /\ run' = run /\ executors' = executors
  BY <1>1, <1>2 DEF EndBatch, Inv, TypeOK
<1>4. worker[w] \in WorkerType
  BY WorkerFields DEF Inv
<1>5. y \in WorkerType
  BY <1>2, <1>4 DEF WorkerType
<1>6. y.pc = next /\ y.last = worker[w].last /\ y.events = worker[w].events
  BY <1>2, <1>4 DEF WorkerType
<1>7. QuietStep /\ AddsInOrder
  BY <1>3, TypedRows, StillRows, SameEvents DEF Inv
<1>8. PICK p : p = cursor
  OBVIOUS
<1>9. Passed(p) /\ Passed(y.last) /\ PageOK(y)
  BY <1>6, <1>8 DEF Inv, CursorOK, PageOK
<1>10. Passed(p)' /\ Passed(y.last)' /\ PageOK(y)'
  BY <1>7, <1>9, AllRows, PassedKept, PageKept
<1>11. CursorOK'
  BY <1>3, <1>5, <1>7, <1>8, <1>10, AllRows, WorkerCursor
<1>12. /\ worker' \in [Workers -> WorkerType]
       /\ \A v \in Workers : worker'[v] = IF v = w THEN y ELSE worker[v]
  BY <1>3, <1>5, OneWorker DEF Inv
<1> QED
  BY <1>6, <1>11, <1>12 DEF LockedBy

(* A step of an execution or an operator leaves the workers, or ends one.  *)
LEMMA RunCursor ==
  ASSUME Inv, QuietStep, event' = event, late' = late, cursor' = cursor, worker' = worker
  PROVE  CursorOK'
<1>1. AddsInOrder /\ InOrder'
  BY SameEvents DEF Inv, CursorOK
<1> QED
  BY <1>1, AllRows, EventCursor

LEMMA LockCursor ==
  ASSUME Inv, NEW w \in Workers, LockDefinition(w)
  PROVE  CursorOK'
<1>1. PICK taken \in SUBSET Runs :
        worker' = [worker EXCEPT ![w] = [Idle EXCEPT !.pc = "locked", !.runs = taken]]
  BY DEF LockDefinition
<1>2. PICK y : y = [Idle EXCEPT !.pc = "locked", !.runs = taken]
  OBVIOUS
<1>3. y = [pc |-> "locked", last |-> 0, events |-> {}, runs |-> taken]
  BY <1>2 DEF Idle
<1>4. y \in WorkerType /\ y.last = 0 /\ y.events = {}
  BY <1>3, AutomationAssumption DEF WorkerType
<1>5. /\ event' = event /\ late' = late /\ cursor' = cursor /\ run' = run
      /\ executors' = executors
  BY DEF LockDefinition
<1>6. QuietStep
  BY <1>5, TypedRows, StillRows DEF Inv
<1> QED
  BY <1>1, <1>2, <1>4, <1>5, <1>6, AllRows, RestWorker
-----------------------------------------------------------------------------
(* The invariant is inductive.                                             *)
LEMMA TypesTogether ==
  ASSUME RowsOK', event' \in [Events -> EventStates], cursor' \in 0..MaxEvents,
         worker' \in [Workers -> WorkerType], executors' \subseteq ExecutorType,
         incidents' \in 0..MaxIncidents, late' \subseteq Events
  PROVE  TypeOK'
  BY DEF TypeOK, RowsOK, RowOK, WithinAttempts

LEMMA QuietInv ==
  ASSUME Inv, QuietStep, CursorOK',
         event' \in [Events -> EventStates], cursor' \in 0..MaxEvents,
         worker' \in [Workers -> WorkerType],
         incidents' \in 0..MaxIncidents, late' \subseteq Events,
         \A w \in Workers :
           LockedBy(w)' => LockedBy(w) /\ worker'[w].runs = worker[w].runs
  PROVE  Inv'
<1>1. RowsOK'
  BY DEF QuietStep
<1> QED
  BY <1>1, QuietExecutors, LockKept, TypesTogether DEF Inv

LEMMA InitInv == Init => Inv
<1> SUFFICES ASSUME Init PROVE Inv
  OBVIOUS
<1>1. NoRun \in RunType /\ NoRun.attempt = 0 /\ NoRun.maxAttempts = MaxAttempts
        /\ NoRun.status = "none"
  BY AutomationAssumption DEF NoRun, RunType, Statuses, Ended
<1>2. RowOK(NoRun)
  BY <1>1, AutomationAssumption DEF RowOK
<1>3. Idle \in WorkerType /\ Idle.pc = "idle" /\ Idle.last = 0 /\ Idle.events = {}
  BY FreshWorker
<1>4. TypeOK
  BY <1>1, <1>2, <1>3, TypedRows, AutomationAssumption DEF Init, RowsOK, EventStates
<1>5. ExecutorsOK
  BY DEF Init, ExecutorsOK
<1>6. CapacityOK
  <2>1. Running = {} /\ \A w \in Workers : ~LockedBy(w)
    BY <1>1, <1>3 DEF Init, Running, LockedBy
  <2>2. Cardinality(Running) <= Cap
    BY <2>1, FS_EmptySet, AutomationAssumption
  <2> QED
    BY <2>1, <2>2 DEF CapacityOK, LockOK
<1>7. CursorOK
  <2>1. Written = {} /\ InOrder
    BY DEF Init, Written, InOrder
  <2> QED
    BY <1>3, <2>1 DEF Init, CursorOK, Passed, PageOK
<1> QED
  BY <1>4, <1>5, <1>6, <1>7 DEF Inv

LEMMA TypedParts ==
  ASSUME Inv
  PROVE  /\ RowsOK /\ event \in [Events -> EventStates] /\ cursor \in 0..MaxEvents
         /\ worker \in [Workers -> WorkerType] /\ executors \subseteq ExecutorType
         /\ incidents \in 0..MaxIncidents /\ late \subseteq Events
  BY TypedRows DEF Inv

LEMMA EventInv ==
  ASSUME Inv, NEW e \in Events,
         \/ WriteEvent(e) \/ EnqueueAtOnce(e) \/ WriterDies(e)
         \/ InsertEvent(e) \/ CommitEvent(e) \/ AbortEvent(e)
  PROVE  Inv'
<1>1. QuietStep
  BY EventSteps
<1>2. cursor' = cursor /\ worker' = worker /\ incidents' = incidents
  BY DEF WriteEvent, EnqueueAtOnce, WriterDies, InsertEvent, CommitEvent, AbortEvent
<1>3. CursorOK' /\ event' \in [Events -> EventStates] /\ late' \subseteq Events
  <2>1. CASE WriteEvent(e) \/ InsertEvent(e)
    <3>1. late' = late
      BY <2>1 DEF WriteEvent, InsertEvent
    <3> QED
      BY <2>1, <3>1, WriteCursor, TypedParts
  <2>2. CASE EnqueueAtOnce(e) \/ WriterDies(e) \/ AbortEvent(e)
    <3>1. late' = late
      BY <2>2 DEF EnqueueAtOnce, WriterDies, AbortEvent
    <3> QED
      BY <2>2, <3>1, OwedCursor, TypedParts
  <2>3. CASE CommitEvent(e)
    BY <2>3, CommitCursor
  <2> QED
    BY <2>1, <2>2, <2>3
<1>4. \A w \in Workers :
        LockedBy(w)' => LockedBy(w) /\ worker'[w].runs = worker[w].runs
  BY <1>2 DEF LockedBy
<1> QED
  BY <1>1, <1>2, <1>3, <1>4, TypedParts, QuietInv

LEMMA ClaimInv ==
  ASSUME Inv, NEW w \in Workers, CommitClaim(w)
  PROVE  Inv'
<1>1. RowsOK' /\ \A r \in Runs : RowStep(r)
  BY ClaimStep
<1>2. ExecutorsOK' /\ executors' \subseteq ExecutorType
  BY ClaimExecutors
<1>3. CapacityOK' /\ worker' \in [Workers -> WorkerType]
  BY ClaimCapacity
<1>4. event' = event /\ cursor' = cursor /\ incidents' = incidents /\ late' = late
  BY DEF CommitClaim
<1>5. PICK pc \in {"idle", "execute"} : worker' = [worker EXCEPT ![w] = [Idle EXCEPT !.pc = pc]]
  BY DEF CommitClaim
<1>6. CursorOK'
  BY <1>1, <1>4, <1>5, FreshStep
<1>7. TypeOK'
  BY <1>1, <1>2, <1>3, <1>4, TypedParts, TypesTogether
<1> QED
  BY <1>2, <1>3, <1>6, <1>7 DEF Inv

LEMMA WorkInv ==
  ASSUME Inv, NEW w \in Workers, Work(w)
  PROVE  Inv'
<1>1. CASE CommitClaim(w)
  BY <1>1, ClaimInv
<1>2. CASE ~CommitClaim(w)
  <2>1. QuietStep
    BY <1>2, WorkSteps
  <2>2. event' = event /\ incidents' = incidents /\ late' = late
    BY <1>2 DEF Work, ReadCursor, ListEvents, EnqueueListed, AdvanceCursor, RecoverStale,
                LockDefinition, EndBatch
  <2>3. CASE ReadCursor(w) \/ AdvanceCursor(w)
    BY <2>1, <2>2, <2>3, ReadCursorStep, AdvanceStep, TypedParts, QuietInv
  <2>4. CASE ListEvents(w) \/ EnqueueListed(w) \/ EndBatch(w)
    <3>1. cursor' = cursor
      BY <2>4 DEF ListEvents, EnqueueListed, EndBatch
    <3> QED
      BY <2>1, <2>2, <2>4, <3>1, ListStep, EnqueueListedStep, EndBatchStep, TypedParts, QuietInv
  <2>5. CASE RecoverStale(w)
    <3>1. cursor' = cursor /\ worker' = [worker EXCEPT ![w] = [Idle EXCEPT !.pc = "claim"]]
      BY <2>5 DEF RecoverStale
    <3>2. /\ CursorOK' /\ worker' \in [Workers -> WorkerType]
          /\ \A v \in Workers :
               LockedBy(v)' => LockedBy(v) /\ worker'[v].runs = worker[v].runs
      BY <2>1, <2>2, <3>1, AllRows, FreshStep
    <3> QED
      BY <2>1, <2>2, <3>1, <3>2, TypedParts, QuietInv
  <2>6. CASE LockDefinition(w)
    <3>1. cursor' = cursor
      BY <2>6 DEF LockDefinition
    <3>2. CapacityOK' /\ worker' \in [Workers -> WorkerType] /\ CursorOK'
      BY <2>6, LockTaken, LockCursor
    <3>3. ExecutorsOK' /\ executors' \subseteq ExecutorType /\ RowsOK'
      BY <2>1, QuietExecutors DEF QuietStep
    <3>4. TypeOK'
      BY <2>2, <3>1, <3>2, <3>3, TypedParts, TypesTogether
    <3> QED
      BY <3>2, <3>3, <3>4 DEF Inv
  <2> QED
    BY <1>2, <2>3, <2>4, <2>5, <2>6 DEF Work
<1> QED
  BY <1>1, <1>2

(* An invocation that ends, whatever is left of it.                        *)
LEMMA EndInv ==
  ASSUME Inv, NEW w \in Workers, worker' = [worker EXCEPT ![w] = Idle],
         executors' \subseteq executors, Incident, UNCHANGED <<event, cursor, run, late>>
  PROVE  Inv'
<1>1. QuietStep
  BY StillRows, TypedParts
<1>2. /\ CursorOK' /\ worker' \in [Workers -> WorkerType]
      /\ \A v \in Workers :
           LockedBy(v)' => LockedBy(v) /\ worker'[v].runs = worker[v].runs
  BY <1>1, AllRows, FreshStep
<1>3. incidents' \in 0..MaxIncidents
  BY TypedParts, AutomationAssumption DEF Incident
<1> QED
  BY <1>1, <1>2, <1>3, TypedParts, QuietInv

LEMMA ExecutorInv ==
  ASSUME Inv, NEW x \in executors,
         LoseExecution(x) \/ \E outcome \in Outcomes : Complete(x, outcome)
  PROVE  Inv'
<1>1. CASE LoseExecution(x)
  <2>1. x.worker \in Workers
    BY RunningRuns
  <2> QED
    BY <1>1, <2>1, EndInv DEF LoseExecution
<1>2. CASE \E outcome \in Outcomes : Complete(x, outcome)
  <2>1. QuietStep
    BY <1>2, ExecutorSteps
  <2>2. UNCHANGED <<event, cursor, worker, incidents, late>>
    BY <1>2 DEF Complete
  <2>3. CursorOK'
    BY <2>1, <2>2, RunCursor
  <2>4. \A w \in Workers :
          LockedBy(w)' => LockedBy(w) /\ worker'[w].runs = worker[w].runs
    BY <2>2 DEF LockedBy
  <2> QED
    BY <2>1, <2>2, <2>3, <2>4, TypedParts, QuietInv
<1> QED
  BY <1>1, <1>2

LEMMA RunInv ==
  ASSUME Inv, NEW r \in Runs,
         RetryDue(r) \/ LockExpires(r) \/ RetryFailed(r) \/ Replay(r)
  PROVE  Inv'
<1>1. QuietStep
  BY RunSteps
<1>2. UNCHANGED <<event, cursor, worker, late>> /\ (incidents' = incidents \/ Incident)
  BY DEF RetryDue, LockExpires, RetryFailed, Replay
<1>3. incidents' \in 0..MaxIncidents
  BY <1>2, TypedParts, AutomationAssumption DEF Incident
<1>4. CursorOK'
  BY <1>1, <1>2, RunCursor
<1>5. \A w \in Workers :
        LockedBy(w)' => LockedBy(w) /\ worker'[w].runs = worker[w].runs
  BY <1>2 DEF LockedBy
<1> QED
  BY <1>1, <1>2, <1>3, <1>4, <1>5, TypedParts, QuietInv

LEMMA StutterInv ==
  ASSUME Inv, UNCHANGED vars
  PROVE  Inv'
<1>1. UNCHANGED <<event, cursor, run, worker, executors, incidents, late>>
  BY DEF vars
<1>2. QuietStep
  BY <1>1, StillRows, TypedParts
<1>3. CursorOK'
  BY <1>1, <1>2, RunCursor
<1>4. \A w \in Workers :
        LockedBy(w)' => LockedBy(w) /\ worker'[w].runs = worker[w].runs
  BY <1>1 DEF LockedBy
<1> QED
  BY <1>1, <1>2, <1>3, <1>4, TypedParts, QuietInv

LEMMA Preserved == Inv /\ [Next]_vars => Inv'
<1> SUFFICES ASSUME Inv, [Next]_vars PROVE Inv'
  OBVIOUS
<1>1. ASSUME NEW e \in Events,
             \/ WriteEvent(e) \/ EnqueueAtOnce(e) \/ WriterDies(e)
             \/ InsertEvent(e) \/ CommitEvent(e) \/ AbortEvent(e)
      PROVE  Inv'
  BY <1>1, EventInv
<1>2. ASSUME NEW w \in Workers, Work(w)
      PROVE  Inv'
  BY <1>2, WorkInv
<1>3. ASSUME NEW w \in Workers, Crash(w)
      PROVE  Inv'
  BY <1>3, EndInv DEF Crash
<1>4. ASSUME NEW x \in executors,
             LoseExecution(x) \/ \E outcome \in Outcomes : Complete(x, outcome)
      PROVE  Inv'
  BY <1>4, ExecutorInv
<1>5. ASSUME NEW r \in Runs,
             RetryDue(r) \/ LockExpires(r) \/ RetryFailed(r) \/ Replay(r)
      PROVE  Inv'
  BY <1>5, RunInv
<1>6. CASE UNCHANGED vars
  BY <1>6, StutterInv
<1> QED
  BY <1>1, <1>2, <1>3, <1>4, <1>5, <1>6 DEF Next
-----------------------------------------------------------------------------
(* An invariant of every behaviour.                                        *)
THEOREM Invariance == Spec => []Inv
  BY InitInv, Preserved, PTL DEF Spec

(* Every variable has its type, and no run is tried more often than it may *)
(* be (claimAutomationRuns, completeAutomationRun, retryAutomationRun).    *)
THEOREM TypeCorrect == Spec => []TypeOK
<1>1. Inv => TypeOK
  BY DEF Inv
<1> QED
  BY <1>1, Invariance, PTL

(* No more runs are in progress than the automation's setting allows,      *)
(* however invocations overlap and end: every execution is of a run of its *)
(* own that is running, and these are counted under the advisory lock      *)
(* (claimAutomationRuns, maxConcurrentRuns).                               *)
THEOREM WithinCap == Spec => []InProgressWithinCap
<1>1. Inv => InProgressWithinCap
  <2> SUFFICES ASSUME Inv PROVE InProgressWithinCap
    OBVIOUS
  <2> DEFINE f == [x \in executors |-> x.run]
  <2>1. \A x \in executors : x.run \in Running
    BY RunningRuns DEF Running
  <2>2. \A x, y \in executors : x.run = y.run => x = y
    BY DEF Inv, ExecutorsOK
  <2>3. f \in Injection(executors, Running)
    BY <2>1, <2>2 DEF Injection, IsInjective
  <2>4. Running \in SUBSET Runs
    BY DEF Running
  <2>5. IsFiniteSet(Running)
    BY <2>4, RunsAreFinite
  <2> HIDE DEF f
  <2>6. IsFiniteSet(executors) /\ Cardinality(executors) <= Cardinality(Running)
    BY <2>3, <2>5, FS_Injection
  <2>7. Cardinality(executors) \in Nat /\ Cardinality(Running) \in Nat /\ Cap \in Nat
    BY <2>5, <2>6, FS_CardinalityType, AutomationAssumption
  <2>8. Cardinality(Running) <= Cap
    BY DEF Inv, CapacityOK
  <2> QED
    BY <2>6, <2>7, <2>8 DEF InProgressWithinCap
<1> QED
  BY <1>1, Invariance, PTL

(* A run is executed by one invocation at a time, on the attempt it was     *)
(* claimed for, although locks go stale, runs are claimed again and results *)
(* name the run alone (claimAutomationRuns, recoverStaleAutomationRuns).    *)
OneExecution ==
  /\ \A x, y \in executors : x.run = y.run => x = y
  /\ \A x \in executors : run[x.run].status = "running" /\ run[x.run].attempt = x.attempt

THEOREM ExecutedOnceAtATime == Spec => []OneExecution
<1>1. Inv => OneExecution
  BY DEF Inv, ExecutorsOK, ExecutorOK, OneExecution
<1> QED
  BY <1>1, Invariance, PTL

(* An event that did not appear behind a newer one is never passed by the  *)
(* cursor without a run (enqueueAutomationRunsForRecentEvents): the page   *)
(* has no gap, and the cursor goes only as far as runs were enqueued.      *)
THEOREM NothingLeftBehind == Spec => []CursorLeavesNothingBehind
<1>1. Inv => CursorLeavesNothingBehind
  BY DEF Inv, CursorOK, Passed, Ran, CursorLeavesNothingBehind
<1> QED
  BY <1>1, Invariance, PTL

(* A result stands until an operator retries a failed run, although it is  *)
(* written by the id of the run alone (completeAutomationRun): whoever     *)
(* writes one still holds the lock of the run.                             *)
THEOREM ResultsAreFinal == Spec => ResultsStand
<1>1. Inv /\ [Next]_vars =>
        [\A r \in Runs :
           run[r].status \in Ended =>
             \/ run'[r] = run[r]
             \/ run[r].status = "failed" /\ run'[r] = Retried(r)]_vars
  <2> SUFFICES ASSUME Inv, Next PROVE \A r \in Runs : RowStep(r)
    BY DEF RowStep
  <2>1. ASSUME NEW w \in Workers, Work(w)
        PROVE  \A r \in Runs : RowStep(r)
    BY <2>1, ClaimStep, WorkSteps, AllRows
  <2>2. ASSUME NEW w \in Workers, Crash(w)
        PROVE  QuietStep
    BY <2>2, StillRows, TypedParts DEF Crash
  <2>3. ASSUME NEW e \in Events,
               \/ WriteEvent(e) \/ EnqueueAtOnce(e) \/ WriterDies(e)
               \/ InsertEvent(e) \/ CommitEvent(e) \/ AbortEvent(e)
        PROVE  QuietStep
    BY <2>3, EventSteps
  <2>4. ASSUME NEW x \in executors,
               LoseExecution(x) \/ \E outcome \in Outcomes : Complete(x, outcome)
        PROVE  QuietStep
    BY <2>4, ExecutorSteps
  <2>5. ASSUME NEW r \in Runs,
               RetryDue(r) \/ LockExpires(r) \/ RetryFailed(r) \/ Replay(r)
        PROVE  QuietStep
    BY <2>5, RunSteps
  <2> QED
    BY <2>1, <2>2, <2>3, <2>4, <2>5, AllRows DEF Next
<1> QED
  BY <1>1, Invariance, PTL DEF Spec, ResultsStand
=============================================================================
