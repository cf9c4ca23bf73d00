-------------------- MODULE OrderConfirmationOutboxProofs --------------------
(***************************************************************************)
(* Theorems about OrderConfirmationOutbox for any rows, invocations and    *)
(* number of attempts: no message is submitted while an earlier submission *)
(* may have been accepted, closed rows tell the truth, the attempts bound  *)
(* the submissions, and the outbox implements AtMostOnceSubmission.        *)
(***************************************************************************)
EXTENDS OrderConfirmationOutbox, TLAPS

BeforeFence == {"absent", "queued", "claimed"}

Definite == {"refused", "rejected", "error", "configuration"}

(* A row and its message at the provider.  Before the fence the provider   *)
(* has nothing, and a claim has an attempt left for its submission.        *)
MessageOK(r, v, n) ==
  /\ v.offered + v.accepted <= 1
  /\ v.status = "none" <=> v.accepted = 0
  /\ r.stage \in BeforeFence => v.offered = 0 /\ v.accepted = 0
  /\ r.stage = "sent" => v.status = "succeeded"
  /\ r.stage = "failed" => v.offered = 0 /\ v.status \in {"none", "failed"}
  /\ n <= r.attempt
  /\ r.stage = "claimed" => n < r.attempt

(* From the fence to the end of its request an invocation holds the claim, *)
(* which nobody can take from it; what it is about to report is true, and  *)
(* whoever has the claim on this side has sent nothing.                    *)
Crossed(p) ==
  \/ p.pc \in {"post", "posting", "polling"}
  \/ p.pc = "mark" /\ p.answer \in {"succeeded", "failed", "refused", "rejected", "uncertain"}

WorkerOK(w, p, r, v, n) ==
  /\ Crossed(p) => r.claim = w /\ r.stage \notin BeforeFence
  /\ p.pc = "post" =>
       r.stage \in Fenced /\ v.offered = 0 /\ v.accepted = 0 /\ n < r.attempt
  /\ p.pc = "mark" => p.answer \in Answers
  /\ (p.pc = "render" \/ (p.pc = "mark" /\ p.answer \in Definite)) /\ r.claim = w =>
       v.offered = 0 /\ v.accepted = 0
  /\ p.pc \in {"mark", "finalize"} /\ p.answer \in {"succeeded", "failed"} =>
       v.status = p.answer

Inv ==
  /\ TypeOK
  /\ \A m \in Messages : MessageOK(row[m], provider[m], posts[m])
  /\ \A w \in Workers : proc[w].pc # "idle" =>
       /\ proc[w].id \in Messages
       /\ WorkerOK(w, proc[w], row[proc[w].id], provider[proc[w].id], posts[proc[w].id])

(* The abstract vocabulary.                                                *)
LEMMA Vocabulary ==
  /\ Submission!ProviderStatuses = {"none", "running", "succeeded", "failed"}
  /\ Submission!ProviderType =
       [offered : Nat, accepted : Nat, status : {"none", "running", "succeeded", "failed"}]
  /\ Submission!Untouched = [offered |-> 0, accepted |-> 0, status |-> "none"]
  BY DEF Submission!ProviderStatuses, Submission!ProviderType, Submission!Untouched

(* The records of an invocation.                                           *)
LEMMA ProcRecords ==
  /\ Idle \in ProcType /\ Idle.pc = "idle"
  /\ \A m \in Messages, pc \in {"render", "post", "posting", "polling", "lookup"} :
       At(pc, m) \in ProcType /\ At(pc, m).pc = pc /\ At(pc, m).id = m /\ At(pc, m).answer = "none"
  BY DEF Idle, At, ProcType

LEMMA AnsweredRecord ==
  ASSUME NEW p \in ProcType, NEW pc \in {"mark", "finalize"}, NEW answer \in Answers \cup LookupAnswers
  PROVE  /\ [p EXCEPT !.pc = pc, !.answer = answer] \in ProcType
         /\ [p EXCEPT !.pc = pc, !.answer = answer].pc = pc
         /\ [p EXCEPT !.pc = pc, !.answer = answer].id = p.id
         /\ [p EXCEPT !.pc = pc, !.answer = answer].answer = answer
  BY DEF ProcType
-----------------------------------------------------------------------------
(* A step concerns one message; every invocation stops, is left alone, or  *)
(* goes on with that message.                                              *)
LEMMA OneMessageStep ==
  ASSUME Inv, NEW m \in Messages, TypeOK',
         \A k \in Messages \ {m} :
           row'[k] = row[k] /\ provider'[k] = provider[k] /\ posts'[k] = posts[k],
         MessageOK(row[m]', provider[m]', posts[m]'),
         \A x \in Workers :
           \/ proc'[x].pc = "idle"
           \/ /\ proc'[x] = proc[x]
              /\ proc[x].pc # "idle" /\ proc[x].id = m
                   => WorkerOK(x, proc[x], row[m]', provider[m]', posts[m]')
           \/ proc'[x].id = m /\ WorkerOK(x, proc'[x], row[m]', provider[m]', posts[m]')
  PROVE  Inv'
<1>1. ASSUME NEW k \in Messages PROVE MessageOK(row[k]', provider[k]', posts[k]')
  <2>1. CASE k = m
    BY <2>1
  <2>2. CASE k # m
    BY <2>2 DEF Inv
  <2>3. QED
    BY <2>1, <2>2
<1>2. ASSUME NEW x \in Workers, proc'[x].pc # "idle"
      PROVE  /\ proc'[x].id \in Messages
             /\ WorkerOK(x, proc'[x], row'[proc'[x].id], provider'[proc'[x].id], posts'[proc'[x].id])
  <2>1. CASE proc'[x] = proc[x] /\ proc[x].id # m
    <3>1. proc[x].id \in Messages \ {m}
      BY <1>2, <2>1 DEF Inv
    <3>2. WorkerOK(x, proc[x], row[proc[x].id], provider[proc[x].id], posts[proc[x].id])
      BY <1>2, <2>1 DEF Inv
    <3>3. QED
      BY <2>1, <3>1, <3>2
  <2>2. CASE proc'[x] = proc[x] /\ proc[x].id = m
    BY <1>2, <2>2
  <2>3. CASE proc'[x].id = m /\ WorkerOK(x, proc'[x], row[m]', provider[m]', posts[m]')
    BY <2>3
  <2>4. QED
    BY <1>2, <2>1, <2>2, <2>3
<1>3. QED
  BY <1>1, <1>2 DEF Inv

(* The usual case: one row and one invocation change.                      *)
LEMMA RowStep ==
  ASSUME Inv, NEW m \in Messages, NEW w \in Workers, NEW r \in RowType, NEW p \in ProcType,
         row' = [row EXCEPT ![m] = r], proc' = [proc EXCEPT ![w] = p],
         UNCHANGED <<provider, configured, posts>>,
         MessageOK(r, provider[m], posts[m]),
         p.pc # "idle" => p.id = m /\ WorkerOK(w, p, r, provider[m], posts[m]),
         \A x \in Workers \ {w} : proc[x].pc # "idle" /\ proc[x].id = m
           => WorkerOK(x, proc[x], r, provider[m], posts[m])
  PROVE  Inv'
<1>1. TypeOK'
  BY DEF Inv, TypeOK
<1>2. /\ \A k \in Messages : row'[k] = IF k = m THEN r ELSE row[k]
      /\ \A x \in Workers : proc'[x] = IF x = w THEN p ELSE proc[x]
  BY DEF Inv, TypeOK
<1>3. QED
  BY <1>1, <1>2, OneMessageStep

(* Only an invocation changes, and only how far it is.                     *)
LEMMA ProcStep ==
  ASSUME Inv, NEW w \in Workers, NEW p \in ProcType, proc' = [proc EXCEPT ![w] = p],
         UNCHANGED <<row, provider, configured, posts>>,
         p.pc # "idle" => /\ p.id \in Messages
                          /\ WorkerOK(w, p, row[p.id], provider[p.id], posts[p.id])
  PROVE  Inv'
<1>1. TypeOK'
  BY DEF Inv, TypeOK
<1>2. \A x \in Workers : proc'[x] = IF x = w THEN p ELSE proc[x]
  BY DEF Inv, TypeOK
<1>3. QED
  BY <1>1, <1>2 DEF Inv
-----------------------------------------------------------------------------
(* What the steps of a row and a message give.                             *)
LEMMA Typed ==
  ASSUME Inv
  PROVE  /\ \A m \in Messages : /\ row[m] \in RowType /\ provider[m] \in Submission!ProviderType
                              /\ posts[m] \in Nat /\ MessageOK(row[m], provider[m], posts[m])
         /\ \A w \in Workers : proc[w] \in ProcType
         /\ MaxAttempts \in Nat /\ MaxAttempts > 0
  BY OutboxAssumption DEF Inv, TypeOK, OutboxAssumption

(* Behind the fence only the holder of the claim requeues or closes a row, *)
(* unless the provider has an answer, so the others are not disturbed.     *)
LEMMA Undisturbed ==
  ASSUME NEW x \in Workers, NEW p \in ProcType, NEW r \in RowType, NEW s \in RowType,
         NEW v \in Submission!ProviderType, NEW n \in Nat, WorkerOK(x, p, r, v, n),
         \/ r.stage \in BeforeFence /\ (s.claim = x => r.claim = x)
         \/ /\ s.claim = r.claim /\ s.attempt = r.attempt /\ s.stage \notin BeforeFence
            /\ s.stage \in Fenced \/ v.accepted > 0
         \/ r.claim # x /\ s.claim # x
  PROVE  WorkerOK(x, p, s, v, n)
<1>1. v.accepted \in Nat
  BY Vocabulary
<1>2. QED
  BY <1>1 DEF WorkerOK, Crossed, RowType, BeforeFence, Fenced
-----------------------------------------------------------------------------
LEMMA EnqueueStep ==
  ASSUME Inv, NEW m \in Messages, Enqueue(m)
  PROVE  Inv'
<1> DEFINE r == [row[m] EXCEPT !.stage = "queued", !.elapsed = TRUE]
<1>1. /\ r \in RowType /\ r.stage = "queued" /\ r.claim = row[m].claim
      /\ r.attempt = row[m].attempt /\ row[m].stage = "absent"
  BY Typed DEF Enqueue, RowType, Stages, Fenced
<1>2. row' = [row EXCEPT ![m] = r] /\ UNCHANGED <<proc, provider, configured, posts>>
  BY Typed DEF Enqueue, Inv, TypeOK
<1> HIDE DEF r
<1>3. MessageOK(r, provider[m], posts[m])
  BY <1>1, Typed DEF MessageOK, BeforeFence
<1>4. TypeOK' /\ \A k \in Messages : row'[k] = IF k = m THEN r ELSE row[k]
  BY <1>1, <1>2 DEF Inv, TypeOK
<1>5. ASSUME NEW x \in Workers, proc[x].pc # "idle", proc[x].id = m
      PROVE  WorkerOK(x, proc[x], r, provider[m], posts[m])
  BY <1>1, <1>5, Typed, Undisturbed DEF Inv, BeforeFence
<1>6. QED
  BY <1>2, <1>3, <1>4, <1>5, OneMessageStep

LEMMA ElapseStep ==
  ASSUME Inv, NEW m \in Messages, Elapse(m)
  PROVE  Inv'
<1> DEFINE r == [row[m] EXCEPT !.elapsed = TRUE]
<1>1. /\ r \in RowType /\ r.stage = row[m].stage /\ r.claim = row[m].claim
      /\ r.attempt = row[m].attempt
  BY Typed DEF RowType
<1>2. row' = [row EXCEPT ![m] = r] /\ UNCHANGED <<proc, provider, configured, posts>>
  BY Typed DEF Elapse, Inv, TypeOK
<1> HIDE DEF r
<1>3. MessageOK(r, provider[m], posts[m])
  BY <1>1, Typed DEF MessageOK
<1>4. TypeOK' /\ \A k \in Messages : row'[k] = IF k = m THEN r ELSE row[k]
  BY <1>1, <1>2 DEF Inv, TypeOK
<1>5. ASSUME NEW x \in Workers, proc[x].pc # "idle", proc[x].id = m
      PROVE  WorkerOK(x, proc[x], r, provider[m], posts[m])
  <2>1. WorkerOK(x, proc[x], row[m], provider[m], posts[m])
    BY <1>5 DEF Inv
  <2>2. QED
    BY <1>1, <2>1 DEF WorkerOK
<1>6. QED
  BY <1>2, <1>3, <1>4, <1>5, OneMessageStep

LEMMA ClaimStep ==
  ASSUME Inv, NEW w \in Workers, NEW m \in Messages, Claim(w, m)
  PROVE  Inv'
<1> DEFINE r == Claimed(row[m], w)
           p == At("render", m)
<1>1. /\ r \in RowType /\ r.stage = "claimed" /\ r.claim = w
      /\ r.attempt = row[m].attempt + 1 /\ row[m].stage \in {"queued", "claimed"}
  <2>1. row[m] \in RowType /\ row[m].attempt + 1 \in 0..MaxAttempts
    BY Typed DEF Claim, RowType
  <2>2. QED
    BY <2>1 DEF Claim, Due, Claimed, RowType, Stages, Fenced
<1>2. p \in ProcType /\ p.pc = "render" /\ p.id = m
  BY ProcRecords
<1>3. /\ row' = [row EXCEPT ![m] = r] /\ proc' = [proc EXCEPT ![w] = p]
      /\ UNCHANGED <<provider, configured, posts>>
  BY DEF Claim
<1> HIDE DEF r, p
<1>4. row[m].attempt \in Nat /\ posts[m] < r.attempt
  BY <1>1, Typed DEF MessageOK, RowType
<1>5. MessageOK(r, provider[m], posts[m])
  BY <1>1, <1>4, Typed DEF MessageOK, BeforeFence
<1>6. WorkerOK(w, p, r, provider[m], posts[m])
  BY <1>1, <1>2, <1>5 DEF WorkerOK, Crossed, MessageOK, BeforeFence
<1>7. ASSUME NEW x \in Workers \ {w}, proc[x].pc # "idle", proc[x].id = m
      PROVE  WorkerOK(x, proc[x], r, provider[m], posts[m])
  BY <1>1, <1>7, Typed, Undisturbed DEF Inv, BeforeFence
<1>8. QED
  BY <1>1, <1>2, <1>3, <1>5, <1>6, <1>7, RowStep

LEMMA ClaimRefusedStep ==
  ASSUME Inv, NEW w \in Workers, NEW m \in Messages, ClaimRefused(w, m)
  PROVE  Inv'
<1> DEFINE r == [row[m] EXCEPT !.stage = "failed"]
<1>1. /\ r \in RowType /\ r.stage = "failed" /\ r.claim = row[m].claim
      /\ r.attempt = row[m].attempt /\ row[m].stage \in {"queued", "claimed"}
  BY Typed DEF ClaimRefused, Due, RowType, Stages, Fenced
<1>2. row' = [row EXCEPT ![m] = r] /\ UNCHANGED <<proc, provider, configured, posts>>
  BY Typed DEF ClaimRefused, Inv, TypeOK
<1> HIDE DEF r
<1>3. MessageOK(r, provider[m], posts[m])
  BY <1>1, Typed DEF MessageOK, BeforeFence
<1>4. TypeOK' /\ \A k \in Messages : row'[k] = IF k = m THEN r ELSE row[k]
  BY <1>1, <1>2 DEF Inv, TypeOK
<1>5. ASSUME NEW x \in Workers, proc[x].pc # "idle", proc[x].id = m
      PROVE  WorkerOK(x, proc[x], r, provider[m], posts[m])
  BY <1>1, <1>5, Typed, Undisturbed DEF Inv, BeforeFence
<1>6. QED
  BY <1>2, <1>3, <1>4, <1>5, OneMessageStep

LEMMA FailBeforeStep ==
  ASSUME Inv, NEW w \in Workers, FailBefore(w)
  PROVE  Inv'
<1> DEFINE answer == IF configured THEN "error" ELSE "configuration"
           p == [proc[w] EXCEPT !.pc = "mark", !.answer = answer]
<1>1. answer \in {"error", "configuration"}
  BY DEF answer
<1>2. proc' = [proc EXCEPT ![w] = p] /\ UNCHANGED <<row, provider, configured, posts>>
  BY DEF FailBefore
<1> HIDE DEF answer
<1>3. p \in ProcType /\ p.pc = "mark" /\ p.id = proc[w].id /\ p.answer = answer
  BY <1>1, Typed, AnsweredRecord DEF Answers
<1> HIDE DEF p
<1>4. /\ proc[w].pc = "render" /\ p.id \in Messages
      /\ WorkerOK(w, proc[w], row[p.id], provider[p.id], posts[p.id])
  BY <1>3 DEF FailBefore, Inv
<1>5. WorkerOK(w, p, row[p.id], provider[p.id], posts[p.id])
  BY <1>1, <1>3, <1>4 DEF WorkerOK, Crossed, Answers
<1>6. QED
  BY <1>2, <1>3, <1>4, <1>5, ProcStep

(* The fence changes the stage of a row and nothing its holder relies on.  *)
LEMMA StartedRow ==
  ASSUME NEW s \in RowType
  PROVE  /\ Started(s) \in RowType /\ Started(s).stage = "started"
         /\ Started(s).claim = s.claim /\ Started(s).attempt = s.attempt
  BY DEF Started, RowType, Stages, Fenced

LEMMA StartStep ==
  ASSUME Inv, NEW w \in Workers, Start(w)
  PROVE  Inv'
<1> DEFINE m == proc[w].id
           r == Started(row[m])
           failed == [proc[w] EXCEPT !.pc = "mark", !.answer = "error"]
<1>1. PICK p \in {At("post", m), failed} :
        /\ proc' = [proc EXCEPT ![w] = p]
        /\ row' = [row EXCEPT ![m] = r] /\ UNCHANGED <<provider, configured, posts>>
  BY DEF Start
<1>2. /\ proc[w].pc = "render" /\ m \in Messages
      /\ WorkerOK(w, proc[w], row[m], provider[m], posts[m])
      /\ row[m].stage = "claimed" /\ row[m].claim = w
  BY DEF Start, Inv, Holds
<1>3. /\ r \in RowType /\ r.stage = "started" /\ r.claim = w /\ r.attempt = row[m].attempt
  <2>1. row[m] \in RowType
    BY <1>2, Typed
  <2>2. QED
    BY <1>2, <2>1, StartedRow
<1>4. /\ failed \in ProcType /\ failed.pc = "mark" /\ failed.id = m /\ failed.answer = "error"
      /\ At("post", m) \in ProcType /\ At("post", m).pc = "post" /\ At("post", m).id = m
  <2>1. "error" \in Answers \cup LookupAnswers
    BY DEF Answers
  <2>2. failed \in ProcType /\ failed.pc = "mark" /\ failed.id = m /\ failed.answer = "error"
    <3>1. proc[w] \in ProcType
      BY Typed
    <3>2. QED
      BY <2>1, <3>1, AnsweredRecord
  <2>3. QED
    BY <1>2, <2>2, ProcRecords
<1> HIDE DEF m, r, failed
<1>5. MessageOK(r, provider[m], posts[m])
  BY <1>2, <1>3, Typed DEF MessageOK, BeforeFence
<1>6. /\ provider[m].offered = 0 /\ provider[m].accepted = 0 /\ posts[m] < r.attempt
      /\ r.stage \in Fenced /\ r.stage \notin BeforeFence
  BY <1>2, <1>3, Typed DEF MessageOK, BeforeFence, Fenced
<1>7. p \in ProcType /\ p.id = m /\ WorkerOK(w, p, r, provider[m], posts[m])
  <2>1. CASE p = At("post", m)
    BY <1>3, <1>4, <1>6, <2>1 DEF WorkerOK, Crossed
  <2>2. CASE p = failed
    BY <1>3, <1>4, <1>6, <2>2 DEF WorkerOK, Crossed, Answers
  <2>3. QED
    BY <1>1, <2>1, <2>2
<1>8. ASSUME NEW x \in Workers \ {w}, proc[x].pc # "idle", proc[x].id = m
      PROVE  WorkerOK(x, proc[x], r, provider[m], posts[m])
  BY <1>2, <1>3, <1>8, Typed, Undisturbed DEF Inv
<1>9. QED
  BY <1>1, <1>2, <1>3, <1>5, <1>7, <1>8, RowStep

(* An invocation that stops disturbs nobody.                               *)
LEMMA StopStep ==
  ASSUME Inv, NEW w \in Workers, proc' = [proc EXCEPT ![w] = Idle],
         UNCHANGED <<row, provider, configured, posts>>
  PROVE  Inv'
  BY ProcRecords, ProcStep

LEMMA PolledStep ==
  ASSUME Inv, NEW w \in Workers, Polled(w) \/ Uncertain(w)
  PROVE  Inv'
<1> DEFINE m == proc[w].id
<1>1. /\ proc[w].pc \in {"posting", "polling"} /\ m \in Messages
      /\ WorkerOK(w, proc[w], row[m], provider[m], posts[m])
  BY DEF Polled, Uncertain, Inv
<1>2. PICK answer \in {"succeeded", "failed", "uncertain"} :
        /\ answer # "uncertain" => answer = provider[m].status
        /\ proc' = [proc EXCEPT ![w] = [proc[w] EXCEPT !.pc = "mark", !.answer = answer]]
        /\ UNCHANGED <<row, provider, configured, posts>>
  BY DEF Polled, Uncertain
<1> DEFINE p == [proc[w] EXCEPT !.pc = "mark", !.answer = answer]
<1>3. p \in ProcType /\ p.pc = "mark" /\ p.id = m /\ p.answer = answer
  BY Typed, AnsweredRecord DEF Answers
<1>4. proc' = [proc EXCEPT ![w] = p]
  BY <1>2
<1> HIDE DEF m, p
<1>5. WorkerOK(w, p, row[m], provider[m], posts[m])
  BY <1>1, <1>2, <1>3 DEF WorkerOK, Crossed, Answers, Definite
<1>6. QED
  BY <1>1, <1>2, <1>3, <1>4, <1>5, ProcStep

LEMMA LookupStep ==
  ASSUME Inv, NEW w \in Workers, Lookup(w)
  PROVE  Inv'
<1> DEFINE m == proc[w].id
<1>1. proc[w].pc = "lookup" /\ m \in Messages
  BY DEF Lookup, Inv
<1>2. PICK answer \in LookupAnswers :
        /\ answer # "unknown" => answer = provider[m].status
        /\ proc' = [proc EXCEPT ![w] = [proc[w] EXCEPT !.pc = "finalize", !.answer = answer]]
        /\ UNCHANGED <<row, provider, configured, posts>>
  BY DEF Lookup
<1> DEFINE p == [proc[w] EXCEPT !.pc = "finalize", !.answer = answer]
<1>3. p \in ProcType /\ p.pc = "finalize" /\ p.id = m /\ p.answer = answer
  BY Typed, AnsweredRecord
<1>4. proc' = [proc EXCEPT ![w] = p]
  BY <1>2
<1> HIDE DEF m, p
<1>5. WorkerOK(w, p, row[m], provider[m], posts[m])
  BY <1>1, <1>2, <1>3 DEF WorkerOK, Crossed
<1>6. QED
  BY <1>1, <1>2, <1>3, <1>4, <1>5, ProcStep

LEMMA ClaimReconciliationStep ==
  ASSUME Inv, NEW w \in Workers, NEW m \in Messages, ClaimReconciliation(w, m)
  PROVE  Inv'
<1> DEFINE r == [row[m] EXCEPT !.stage = "reconciling", !.check = w, !.elapsed = FALSE]
           p == At("lookup", m)
<1>1. /\ r \in RowType /\ r.stage = "reconciling" /\ r.claim = row[m].claim
      /\ r.attempt = row[m].attempt /\ row[m].stage \in Fenced
  BY Typed DEF ClaimReconciliation, RowType, Stages, Fenced
<1>2. p \in ProcType /\ p.pc = "lookup" /\ p.id = m
  BY ProcRecords
<1>3. /\ row' = [row EXCEPT ![m] = r] /\ proc' = [proc EXCEPT ![w] = p]
      /\ UNCHANGED <<provider, configured, posts>>
  BY DEF ClaimReconciliation
<1> HIDE DEF r, p
<1>4. MessageOK(r, provider[m], posts[m])
  BY <1>1, Typed DEF MessageOK, BeforeFence
<1>5. WorkerOK(w, p, r, provider[m], posts[m])
  BY <1>2 DEF WorkerOK, Crossed
<1>6. ASSUME NEW x \in Workers \ {w}, proc[x].pc # "idle", proc[x].id = m
      PROVE  WorkerOK(x, proc[x], r, provider[m], posts[m])
  BY <1>1, <1>6, Typed, Undisturbed DEF Inv, BeforeFence, Fenced
<1>7. QED
  BY <1>1, <1>2, <1>3, <1>4, <1>5, <1>6, RowStep

(* What the provider says of the message is accepted by it.                *)
LEMMA Terminal ==
  ASSUME NEW r \in RowType, NEW v \in Submission!ProviderType, NEW n \in Nat, MessageOK(r, v, n),
         v.status \in {"succeeded", "failed"}
  PROVE  v.offered = 0 /\ v.accepted = 1 /\ r.stage \notin BeforeFence
<1>1. v.offered \in Nat /\ v.accepted \in Nat
  BY Vocabulary
<1>2. QED
  BY <1>1 DEF MessageOK

LEMMA FinalizeStep ==
  ASSUME Inv, NEW w \in Workers, Finalize(w)
  PROVE  Inv'
<1> DEFINE m == proc[w].id
           r == Finalized(row[m], proc[w].answer)
<1>1. /\ proc[w].pc = "finalize" /\ m \in Messages /\ row[m].stage = "reconciling"
      /\ WorkerOK(w, proc[w], row[m], provider[m], posts[m])
      /\ row' = [row EXCEPT ![m] = r] /\ proc' = [proc EXCEPT ![w] = Idle]
      /\ UNCHANGED <<provider, configured, posts>>
  BY DEF Finalize, Inv
<1>2. /\ row[m] \in RowType /\ provider[m] \in Submission!ProviderType /\ posts[m] \in Nat
      /\ MessageOK(row[m], provider[m], posts[m]) /\ row[m].stage \notin BeforeFence
  BY <1>1, Typed DEF BeforeFence
<1>3. /\ r \in RowType /\ r.claim = row[m].claim /\ r.attempt = row[m].attempt
      /\ \/ r.stage = "sent" /\ proc[w].answer = "succeeded"
         \/ r.stage = "failed" /\ proc[w].answer = "failed"
         \/ r.stage = "pending"
  BY <1>2, OutboxAssumption DEF Finalized, RowType, Stages, Fenced, OutboxAssumption
<1>4. \/ r.stage = "sent" /\ provider[m].status = "succeeded" /\ provider[m].accepted = 1
      \/ r.stage = "failed" /\ provider[m].status = "failed" /\ provider[m].accepted = 1
         /\ provider[m].offered = 0
      \/ r.stage = "pending"
  BY <1>1, <1>2, <1>3, Terminal DEF WorkerOK
<1> HIDE DEF m, r
<1>5. MessageOK(r, provider[m], posts[m])
  BY <1>2, <1>3, <1>4 DEF MessageOK, BeforeFence
<1>6. ASSUME NEW x \in Workers \ {w}, proc[x].pc # "idle", proc[x].id = m
      PROVE  WorkerOK(x, proc[x], r, provider[m], posts[m])
  <2>1. WorkerOK(x, proc[x], row[m], provider[m], posts[m])
    BY <1>6 DEF Inv
  <2>2. r.stage \notin BeforeFence /\ (r.stage \in Fenced \/ provider[m].accepted > 0)
    BY <1>4 DEF BeforeFence, Fenced
  <2>3. QED
    BY <1>2, <1>3, <2>1, <2>2, Typed, Undisturbed
<1>7. QED
  BY <1>1, <1>3, <1>5, <1>6, ProcRecords, RowStep

(* What an invocation reports of its submission fits the row it reports    *)
(* it to, and is dropped if the row is no longer its own.                  *)
LEMMA MarkedRow ==
  ASSUME NEW w \in Workers, NEW p \in ProcType, NEW r \in RowType,
         NEW v \in Submission!ProviderType, NEW n \in Nat,
         MessageOK(r, v, n), WorkerOK(w, p, r, v, n), p.pc = "mark"
  PROVE  LET s == Marked(r, w, p.answer) IN
         /\ s \in RowType /\ MessageOK(s, v, n)
         /\ s = r \/ (r.claim = w /\ s.claim \in {w, NoWorker} /\ r.stage \in {"claimed", "started"})
<1> DEFINE s == Marked(r, w, p.answer)
           attempt == IF r.attempt = 0 THEN 0 ELSE r.attempt - 1
<1> SUFFICES /\ s \in RowType /\ MessageOK(s, v, n)
             /\ s = r \/ (r.claim = w /\ s.claim \in {w, NoWorker} /\ r.stage \in {"claimed", "started"})
  OBVIOUS
<1>1. CASE s = r
  BY <1>1
<1>2. CASE p.answer = "succeeded" /\ Holds(r, w, {"started"})
  <2>1. /\ s = [r EXCEPT !.stage = "sent"] /\ v.status = "succeeded" /\ v.accepted = 1
        /\ r.claim = w /\ r.stage = "started"
    BY <1>2, Terminal DEF Marked, MarkedSent, WorkerOK, Holds
  <2>2. s \in RowType /\ s.stage = "sent" /\ s.claim = w /\ s.attempt = r.attempt
    BY <2>1 DEF RowType, Stages
  <2>3. QED
    BY <2>1, <2>2 DEF MessageOK, BeforeFence
<1>3. CASE p.answer = "uncertain" /\ Holds(r, w, {"started"})
  <2>1. /\ s = [r EXCEPT !.stage = "uncertain", !.elapsed = FALSE]
        /\ r.claim = w /\ r.stage = "started"
    BY <1>3 DEF Marked, MarkedFailed, Holds
  <2>2. s \in RowType /\ s.stage = "uncertain" /\ s.claim = w /\ s.attempt = r.attempt
    BY <2>1 DEF RowType, Stages, Fenced
  <2>3. QED
    BY <2>1, <2>2 DEF MessageOK, BeforeFence
<1>4. CASE p.answer = "configuration" /\ Holds(r, w, {"claimed"})
  <2>1. s = Requeued(r, attempt) /\ r.claim = w /\ r.stage = "claimed"
    BY <1>4 DEF Marked, MarkedFailed, Holds
  <2>2. attempt \in 0..MaxAttempts /\ n <= attempt
    BY <2>1, OutboxAssumption DEF OutboxAssumption, RowType, MessageOK
  <2> HIDE DEF attempt
  <2>3. s \in RowType /\ s.stage = "queued" /\ s.claim = NoWorker /\ s.attempt = attempt
    BY <2>1, <2>2 DEF Requeued, RowType, Stages
  <2>4. QED
    BY <2>1, <2>2, <2>3 DEF MessageOK, BeforeFence
<1>5. CASE /\ p.answer \in {"refused", "error"} /\ Holds(r, w, {"claimed", "started"})
           /\ r.attempt < MaxAttempts
  <2>1. /\ s = Requeued(r, r.attempt) /\ r.claim = w /\ r.stage \in {"claimed", "started"}
        /\ v.offered = 0 /\ v.accepted = 0
    BY <1>5 DEF Marked, MarkedFailed, Holds, WorkerOK, Definite
  <2>2. s \in RowType /\ s.stage = "queued" /\ s.claim = NoWorker /\ s.attempt = r.attempt
    BY <2>1 DEF Requeued, RowType, Stages
  <2>3. QED
    BY <2>1, <2>2 DEF MessageOK, BeforeFence
<1>6. CASE /\ Holds(r, w, {"claimed", "started"}) /\ p.answer \in Answers \ {"succeeded", "uncertain"}
           /\ s = [r EXCEPT !.stage = "failed"]
  <2>1. s \in RowType /\ s.stage = "failed" /\ s.claim = w /\ s.attempt = r.attempt
    BY <1>6 DEF Holds, RowType, Stages
  <2>2. /\ v.offered = 0 /\ v.status \in {"none", "failed"}
        /\ r.claim = w /\ r.stage \in {"claimed", "started"}
    <3>1. CASE p.answer = "failed"
      BY <1>6, <3>1, Terminal DEF WorkerOK, Holds
    <3>2. CASE p.answer \in Definite
      BY <1>6, <3>2 DEF WorkerOK, Holds, MessageOK
    <3>3. QED
      BY <1>6, <3>1, <3>2 DEF Answers, Definite
  <2>3. QED
    BY <2>1, <2>2 DEF MessageOK, BeforeFence
<1>7. p.answer \in Answers
  BY DEF WorkerOK
<1>8. QED
  BY <1>1, <1>2, <1>3, <1>4, <1>5, <1>6, <1>7 DEF Marked, MarkedSent, MarkedFailed, Holds, Answers

LEMMA MarkStep ==
  ASSUME Inv, NEW w \in Workers, Mark(w)
  PROVE  Inv'
<1> DEFINE m == proc[w].id
           r == Marked(row[m], w, proc[w].answer)
<1>1. /\ proc[w].pc = "mark" /\ m \in Messages
      /\ WorkerOK(w, proc[w], row[m], provider[m], posts[m])
      /\ row' = [row EXCEPT ![m] = r] /\ proc' = [proc EXCEPT ![w] = Idle]
      /\ UNCHANGED <<provider, configured, posts>>
  BY DEF Mark, Inv
<1>2. /\ r \in RowType /\ MessageOK(r, provider[m], posts[m])
      /\ \/ r = row[m]
         \/ row[m].claim = w /\ r.claim \in {w, NoWorker}
  BY <1>1, Typed, MarkedRow
<1> HIDE DEF m, r
<1>3. ASSUME NEW x \in Workers \ {w}, proc[x].pc # "idle", proc[x].id = m
      PROVE  WorkerOK(x, proc[x], r, provider[m], posts[m])
  <2>1. WorkerOK(x, proc[x], row[m], provider[m], posts[m])
    BY <1>3 DEF Inv
  <2>2. CASE r = row[m]
    BY <2>1, <2>2
  <2>3. CASE row[m].claim = w /\ r.claim \in {w, NoWorker}
    BY <1>1, <1>2, <2>1, <2>3, Typed, Undisturbed, OutboxAssumption DEF OutboxAssumption
  <2>4. QED
    BY <1>2, <2>2, <2>3
<1>4. QED
  BY <1>1, <1>2, <1>3, ProcRecords, RowStep
-----------------------------------------------------------------------------
(* A step of the provider, with or without the invocation that waits for   *)
(* it: the message changes from v to u, and w goes on as p.                *)
LEMMA ProviderStep ==
  ASSUME Inv, NEW m \in Messages, NEW u \in Submission!ProviderType,
         provider' = [provider EXCEPT ![m] = u], UNCHANGED <<row, configured, posts>>,
         proc' \in [Workers -> ProcType],
         MessageOK(row[m], u, posts[m]),
         \A x \in Workers : proc[x].pc # "idle" /\ proc[x].id = m
           => WorkerOK(x, proc[x], row[m], u, posts[m]),
         \A x \in Workers : \/ proc'[x] = proc[x]
                            \/ proc'[x].id = m /\ WorkerOK(x, proc'[x], row[m], u, posts[m])
  PROVE  Inv'
<1>1. \A k \in Messages : provider'[k] = IF k = m THEN u ELSE provider[k]
  BY DEF Inv, TypeOK
<1>2. TypeOK'
  BY DEF Inv, TypeOK
<1>3. QED
  BY <1>1, <1>2, OneMessageStep

LEMMA PostStep ==
  ASSUME Inv, NEW w \in Workers, Post(w)
  PROVE  Inv'
<1> DEFINE m == proc[w].id
           u == [provider[m] EXCEPT !.offered = @ + 1]
           p == At("posting", m)
<1>1. /\ proc[w].pc = "post" /\ m \in Messages
      /\ WorkerOK(w, proc[w], row[m], provider[m], posts[m])
      /\ UNCHANGED <<row, configured>>
  BY DEF Post, Inv
<1>2. /\ provider' = [provider EXCEPT ![m] = u] /\ posts' = [posts EXCEPT ![m] = posts[m] + 1]
      /\ proc' = [proc EXCEPT ![w] = p]
  BY DEF Post
<1>3. /\ provider[m].offered = 0 /\ provider[m].accepted = 0 /\ posts[m] < row[m].attempt
      /\ row[m].claim = w /\ row[m].stage \in Fenced /\ row[m].stage \notin BeforeFence
  BY <1>1 DEF WorkerOK, Crossed
<1>4. /\ u \in Submission!ProviderType
      /\ u.offered = 1 /\ u.accepted = 0 /\ u.status = provider[m].status
  BY <1>1, <1>3, Typed, Vocabulary
<1>5. p \in ProcType /\ p.pc = "posting" /\ p.id = m
  BY <1>1, ProcRecords
<1> HIDE DEF m, u, p
<1>6. posts[m] \in Nat /\ row[m].attempt \in Nat /\ MessageOK(row[m], provider[m], posts[m])
  BY <1>1, Typed DEF RowType
<1>7. MessageOK(row[m], u, posts[m] + 1)
  BY <1>3, <1>4, <1>6 DEF MessageOK, BeforeFence, Fenced
<1>8. WorkerOK(w, p, row[m], u, posts[m] + 1)
  BY <1>3, <1>5 DEF WorkerOK, Crossed
<1>9. ASSUME NEW x \in Workers \ {w}, proc[x].pc # "idle", proc[x].id = m
      PROVE  WorkerOK(x, proc[x], row[m], u, posts[m] + 1)
  <2>1. WorkerOK(x, proc[x], row[m], provider[m], posts[m])
    BY <1>9 DEF Inv
  <2>2. QED
    BY <1>3, <1>4, <2>1 DEF WorkerOK, Crossed
<1>10. /\ \A k \in Messages : /\ provider'[k] = IF k = m THEN u ELSE provider[k]
                             /\ posts'[k] = IF k = m THEN posts[m] + 1 ELSE posts[k]
       /\ \A x \in Workers : proc'[x] = IF x = w THEN p ELSE proc[x]
  BY <1>1, <1>2 DEF Inv, TypeOK
<1>11. TypeOK'
  BY <1>1, <1>2, <1>4, <1>5, <1>6 DEF Inv, TypeOK
<1>12. QED
  BY <1>1, <1>5, <1>7, <1>8, <1>9, <1>10, <1>11, OneMessageStep

(* A request under way that ends: the message as the provider then has it. *)
LEMMA Ended ==
  ASSUME Inv, NEW m \in Messages, Accepts(m) \/ Refuses(m)
  PROVE  /\ row[m].stage \in Fenced /\ provider[m].offered = 1 /\ provider[m].accepted = 0
         /\ provider[m].status = "none"
<1>1. /\ row[m] \in RowType /\ MessageOK(row[m], provider[m], posts[m])
      /\ provider[m].offered \in Nat /\ provider[m].accepted \in Nat
  BY Typed, Vocabulary
<1>2. provider[m].offered = 1 /\ provider[m].accepted = 0
  BY <1>1 DEF MessageOK, Accepts, Refuses
<1>3. QED
  BY <1>1, <1>2 DEF MessageOK, RowType, Stages, BeforeFence

LEMMA AcceptsStep ==
  ASSUME Inv, NEW m \in Messages, Accepts(m), UNCHANGED <<row, configured, posts>>,
         \/ UNCHANGED proc
         \/ \E w \in Workers : /\ proc[w].pc = "posting" /\ proc[w].id = m
                             /\ proc' = [proc EXCEPT ![w] = At("polling", m)]
  PROVE  Inv'
<1> DEFINE u == [offered |-> provider[m].offered - 1, accepted |-> provider[m].accepted + 1,
                 status |-> "running"]
<1>1. /\ row[m].stage \in Fenced /\ provider[m].offered = 1 /\ provider[m].accepted = 0
      /\ provider[m].status = "none"
  BY Ended
<1>2. /\ u \in Submission!ProviderType /\ u.offered = 0 /\ u.accepted = 1 /\ u.status = "running"
      /\ provider' = [provider EXCEPT ![m] = u]
  BY <1>1, Vocabulary DEF Accepts, Inv, TypeOK
<1> HIDE DEF u
<1>3. MessageOK(row[m], u, posts[m])
  BY <1>1, <1>2, Typed DEF MessageOK, BeforeFence, Fenced
<1>4. ASSUME NEW x \in Workers, proc[x].pc # "idle", proc[x].id = m
      PROVE  WorkerOK(x, proc[x], row[m], u, posts[m])
  <2>1. WorkerOK(x, proc[x], row[m], provider[m], posts[m])
    BY <1>4 DEF Inv
  <2>2. QED
    BY <1>1, <1>2, <2>1 DEF WorkerOK
<1>5. CASE UNCHANGED proc
  BY <1>2, <1>3, <1>4, <1>5, ProviderStep DEF Inv, TypeOK
<1>6. CASE \E w \in Workers : /\ proc[w].pc = "posting" /\ proc[w].id = m
                            /\ proc' = [proc EXCEPT ![w] = At("polling", m)]
  <2>1. PICK w \in Workers : /\ proc[w].pc = "posting" /\ proc[w].id = m
                             /\ proc' = [proc EXCEPT ![w] = At("polling", m)]
    BY <1>6
  <2>2. /\ At("polling", m) \in ProcType /\ At("polling", m).pc = "polling"
        /\ At("polling", m).id = m
    BY ProcRecords
  <2>3. WorkerOK(w, At("polling", m), row[m], u, posts[m])
    BY <1>4, <2>1, <2>2 DEF WorkerOK, Crossed
  <2>4. /\ proc' \in [Workers -> ProcType]
        /\ \A x \in Workers : proc'[x] = IF x = w THEN At("polling", m) ELSE proc[x]
    BY <2>1, <2>2 DEF Inv, TypeOK
  <2>5. \A x \in Workers : \/ proc'[x] = proc[x]
                           \/ proc'[x].id = m /\ WorkerOK(x, proc'[x], row[m], u, posts[m])
    BY <2>2, <2>3, <2>4
  <2>6. QED
    BY <1>2, <1>3, <1>4, <2>4, <2>5, ProviderStep
<1>7. QED
  BY <1>5, <1>6

LEMMA RefusesStep ==
  ASSUME Inv, NEW m \in Messages, Refuses(m), UNCHANGED <<row, configured, posts>>,
         \/ UNCHANGED proc
         \/ \E w \in Workers, p \in ProcType :
              /\ proc[w].pc = "posting" /\ proc[w].id = m /\ proc' = [proc EXCEPT ![w] = p]
              /\ p.pc = "mark" /\ p.id = m /\ p.answer \in {"refused", "rejected"}
  PROVE  Inv'
<1> DEFINE u == [provider[m] EXCEPT !.offered = @ - 1]
<1>1. /\ row[m].stage \in Fenced /\ provider[m].offered = 1 /\ provider[m].accepted = 0
      /\ provider[m].status = "none"
  BY Ended
<1>2. /\ u \in Submission!ProviderType /\ u.offered = 0 /\ u.accepted = 0 /\ u.status = "none"
  BY <1>1, Typed, Vocabulary
<1>3. provider' = [provider EXCEPT ![m] = u]
  BY DEF Refuses
<1> HIDE DEF u
<1>4. MessageOK(row[m], u, posts[m])
  BY <1>1, <1>2, Typed DEF MessageOK, BeforeFence, Fenced
<1>5. ASSUME NEW x \in Workers, proc[x].pc # "idle", proc[x].id = m
      PROVE  /\ WorkerOK(x, proc[x], row[m], provider[m], posts[m])
             /\ WorkerOK(x, proc[x], row[m], u, posts[m])
  <2>1. WorkerOK(x, proc[x], row[m], provider[m], posts[m])
    BY <1>5 DEF Inv
  <2>2. QED
    BY <1>1, <1>2, <2>1 DEF WorkerOK
<1>6. CASE UNCHANGED proc
  BY <1>2, <1>3, <1>4, <1>5, <1>6, ProviderStep DEF Inv, TypeOK
<1>7. ASSUME NEW w \in Workers, NEW p \in ProcType,
             proc[w].pc = "posting", proc[w].id = m, proc' = [proc EXCEPT ![w] = p],
             p.pc = "mark", p.id = m, p.answer \in {"refused", "rejected"}
      PROVE  Inv'
  <2>1. WorkerOK(w, p, row[m], u, posts[m])
    BY <1>2, <1>5, <1>7 DEF WorkerOK, Crossed, Answers
  <2>2. /\ proc' \in [Workers -> ProcType]
        /\ \A x \in Workers : proc'[x] = IF x = w THEN p ELSE proc[x]
    BY <1>7 DEF Inv, TypeOK
  <2>3. \A x \in Workers : \/ proc'[x] = proc[x]
                           \/ proc'[x].id = m /\ WorkerOK(x, proc'[x], row[m], u, posts[m])
    BY <1>7, <2>1, <2>2
  <2>4. QED
    BY <1>2, <1>3, <1>4, <1>5, <2>2, <2>3, ProviderStep
<1>8. QED
  BY <1>6, <1>7

LEMMA FinishStep ==
  ASSUME Inv, NEW m \in Messages, Finish(m)
  PROVE  Inv'
<1>1. PICK status \in {"succeeded", "failed"} :
        provider' = [provider EXCEPT ![m] = [provider[m] EXCEPT !.status = status]]
  BY DEF Finish
<1> DEFINE u == [provider[m] EXCEPT !.status = status]
<1>2. /\ u \in Submission!ProviderType /\ u.offered = provider[m].offered
      /\ u.accepted = provider[m].accepted /\ u.status = status
  BY Typed, Vocabulary
<1>3. provider' = [provider EXCEPT ![m] = u]
  BY <1>1
<1> HIDE DEF u
<1>4. provider[m].status = "running" /\ UNCHANGED <<row, proc, configured, posts>>
  BY DEF Finish
<1>5. MessageOK(row[m], u, posts[m])
  BY <1>2, <1>4, Typed DEF MessageOK
<1>6. ASSUME NEW x \in Workers, proc[x].pc # "idle", proc[x].id = m
      PROVE  WorkerOK(x, proc[x], row[m], u, posts[m])
  <2>1. WorkerOK(x, proc[x], row[m], provider[m], posts[m])
    BY <1>6 DEF Inv
  <2>2. QED
    BY <1>2, <1>4, <2>1 DEF WorkerOK
<1>7. QED
  BY <1>2, <1>3, <1>4, <1>5, <1>6, ProviderStep DEF Inv, TypeOK
-----------------------------------------------------------------------------
LEMMA Initial == Init => Inv
<1> SUFFICES ASSUME Init PROVE Inv
  OBVIOUS
<1>1. NoRow \in RowType /\ NoRow.stage = "absent" /\ NoRow.attempt = 0
  BY OutboxAssumption DEF OutboxAssumption, NoRow, RowType, Stages, Fenced
<1>2. TypeOK
  BY <1>1, ProcRecords, Vocabulary DEF Init, TypeOK
<1>3. ASSUME NEW m \in Messages PROVE MessageOK(row[m], provider[m], posts[m])
  BY <1>1, Vocabulary DEF Init, MessageOK, BeforeFence
<1>4. QED
  BY <1>2, <1>3, ProcRecords DEF Init, Inv

LEMMA Inductive == Inv /\ [Next]_vars => Inv'
<1> SUFFICES ASSUME Inv, [Next]_vars PROVE Inv'
  OBVIOUS
<1>1. ASSUME NEW w \in Workers, Submit(w) PROVE Inv'
  <2>1. CASE Accepted(w)
    <3>1. proc[w].id \in Messages
      BY <2>1 DEF Accepted, Inv
    <3>2. QED
      BY <2>1, <3>1, AcceptsStep DEF Accepted
  <2>2. CASE Refused(w)
    <3>1. PICK answer \in {"refused", "rejected"} :
            proc' = [proc EXCEPT ![w] = [proc[w] EXCEPT !.pc = "mark", !.answer = answer]]
      BY <2>2 DEF Refused
    <3> DEFINE p == [proc[w] EXCEPT !.pc = "mark", !.answer = answer]
    <3>2. p \in ProcType /\ p.pc = "mark" /\ p.id = proc[w].id /\ p.answer = answer
      BY Typed, AnsweredRecord DEF Answers
    <3>3. proc' = [proc EXCEPT ![w] = p]
      BY <3>1
    <3> HIDE DEF p
    <3>4. /\ proc[w].pc = "posting" /\ proc[w].id \in Messages /\ Refuses(proc[w].id)
          /\ UNCHANGED <<row, configured, posts>>
      BY <2>2 DEF Refused, Inv
    <3>5. QED
      BY <3>2, <3>3, <3>4, RefusesStep
  <2>3. CASE StartUnavailable(w)
    BY <2>3, StopStep DEF StartUnavailable
  <2>4. QED
    BY <1>1, <2>1, <2>2, <2>3, FailBeforeStep, StartStep, PostStep, PolledStep, MarkStep DEF Submit
<1>2. ASSUME NEW w \in Workers, Reconcile(w) \/ Crash(w) PROVE Inv'
  <2>1. CASE FinalizeUnavailable(w) \/ Crash(w)
    BY <2>1, StopStep DEF FinalizeUnavailable, Crash
  <2>2. QED
    BY <1>2, <2>1, LookupStep, FinalizeStep DEF Reconcile
<1>3. ASSUME NEW w \in Workers, NEW m \in Messages,
             Claim(w, m) \/ ClaimRefused(w, m) \/ ClaimReconciliation(w, m)
      PROVE  Inv'
  BY <1>3, ClaimStep, ClaimRefusedStep, ClaimReconciliationStep
<1>4. ASSUME NEW m \in Messages, Enqueue(m) \/ Arrive(m) \/ Lose(m) \/ Finish(m) \/ Elapse(m)
      PROVE  Inv'
  BY <1>4, EnqueueStep, AcceptsStep, RefusesStep, FinishStep, ElapseStep DEF Arrive, Lose
<1>5. CASE Configure
  BY <1>5 DEF Configure, Inv, TypeOK
<1>6. CASE UNCHANGED vars
  BY <1>6 DEF vars, Inv, TypeOK
<1>7. QED
  BY <1>1, <1>2, <1>3, <1>4, <1>5, <1>6 DEF Next

(* The inductive invariant.                                                *)
THEOREM Invariant == Spec => []Inv
  BY Initial, Inductive, PTL DEF Spec

(* Every row stays within its attempts and every invocation within its     *)
(* steps (TypeOK).                                                         *)
THEOREM TypeCorrect == Spec => []TypeOK
<1>1. Inv => TypeOK
  BY DEF Inv
<1>2. QED
  BY <1>1, Invariant, PTL

(* No request is under way or accepted besides another, for any number of  *)
(* invocations, whichever of them die (AtMostOneSubmission).               *)
THEOREM NoSecondSubmission == Spec => []AtMostOneSubmission
<1>1. Inv => AtMostOneSubmission
  BY DEF Inv, MessageOK, AtMostOneSubmission
<1>2. QED
  BY <1>1, Invariant, PTL

(* "sent" is delivered, "failed" is not and cannot be (ClosedRowsAreTrue). *)
THEOREM ClosedRowsTellTheTruth == Spec => []ClosedRowsAreTrue
<1>1. Inv => ClosedRowsAreTrue
  BY DEF Inv, MessageOK, ClosedRowsAreTrue
<1>2. QED
  BY <1>1, Invariant, PTL

(* The attempts bound the requests sent (AttemptsAreBounded).              *)
THEOREM SubmissionsAreBounded == Spec => []AttemptsAreBounded
<1>1. ASSUME Inv, NEW m \in Messages PROVE posts[m] <= MaxAttempts
  <2>1. posts[m] <= row[m].attempt /\ row[m].attempt \in 0..MaxAttempts /\ posts[m] \in Nat
    BY <1>1, Typed DEF MessageOK, RowType
  <2>2. QED
    BY <2>1, Typed, <1>1
<1>2. Inv => AttemptsAreBounded
  BY <1>1 DEF AttemptsAreBounded
<1>3. QED
  BY <1>2, Invariant, PTL
-----------------------------------------------------------------------------
Outcome == [m \in Messages |-> Recorded(row[m])]

(* A step of one row is a stutter, or records what is true.                *)
LEMMA RowRefines ==
  ASSUME Inv, Inv', NEW m \in Messages, UNCHANGED provider,
         \A k \in Messages \ {m} : row'[k] = row[k],
         Recorded(row[m]) = "open" \/ row'[m].stage = row[m].stage
  PROVE  [Submission!Next]_Submission!vars
<1>1. CASE Recorded(row'[m]) = Recorded(row[m])
  <2>1. Outcome' = Outcome
    BY <1>1 DEF Outcome
  <2>2. QED
    BY <2>1 DEF Outcome, Submission!vars
<1>2. CASE Recorded(row'[m]) # Recorded(row[m])
  <2>1. Outcome' = [Outcome EXCEPT ![m] = Recorded(row'[m])]
    BY DEF Outcome
  <2>2. Recorded(row[m]) = "open" /\ Outcome[m] = "open"
    BY <1>2 DEF Outcome, Recorded
  <2>3. \/ Recorded(row'[m]) = "delivered" /\ row'[m].stage = "sent"
        \/ Recorded(row'[m]) = "undelivered" /\ row'[m].stage = "failed"
    BY <1>2, <2>2 DEF Recorded
  <2>4. MessageOK(row'[m], provider[m], posts'[m])
    BY DEF Inv
  <2>5. Submission!RecordDelivered(m) \/ Submission!RecordUndelivered(m)
    BY <2>1, <2>2, <2>3, <2>4
       DEF MessageOK, Outcome, Submission!RecordDelivered, Submission!RecordUndelivered
  <2>6. QED
    BY <2>5 DEF Submission!Next
<1>3. QED
  BY <1>1, <1>2

LEMMA AcceptsRefines ==
  ASSUME Inv, NEW m \in Messages, Accepts(m), UNCHANGED row
  PROVE  Submission!Next
<1>1. provider[m].offered = 1 /\ provider[m].accepted = 0
  BY Ended
<1>2. Submission!Accept(m)
  BY <1>1 DEF Accepts, Submission!Accept
<1>3. QED
  BY <1>2 DEF Submission!Next

LEMMA RefusesRefines ==
  ASSUME Inv, NEW m \in Messages, Refuses(m), UNCHANGED row
  PROVE  Submission!Next
<1>1. provider[m].offered = 1
  BY Ended
<1>2. Submission!Refuse(m)
  BY <1>1 DEF Refuses, Submission!Refuse
<1>3. QED
  BY <1>2 DEF Submission!Next

LEMMA PostRefines ==
  ASSUME Inv, NEW w \in Workers, Post(w)
  PROVE  Submission!Next
<1> DEFINE m == proc[w].id
<1>1. /\ m \in Messages /\ provider[m].offered = 0 /\ provider[m].accepted = 0
      /\ row[m].stage \in Fenced
  BY DEF Post, Inv, WorkerOK
<1>2. Outcome[m] = "open"
  BY <1>1 DEF Outcome, Recorded, Fenced
<1>3. /\ provider' = [provider EXCEPT ![m].offered = provider[m].offered + 1]
      /\ UNCHANGED row
  BY DEF Post
<1> HIDE DEF m
<1>4. Submission!Offer(m)
  BY <1>1, <1>2, <1>3 DEF Outcome, Submission!Offer
<1>5. QED
  BY <1>1, <1>4 DEF Submission!Next

LEMMA StepRefines == Inv /\ Inv' /\ [Next]_vars => [Submission!Next]_Submission!vars
<1> SUFFICES ASSUME Inv, Inv', [Next]_vars PROVE [Submission!Next]_Submission!vars
  OBVIOUS
<1> USE DEF Submission!vars
<1>1. CASE UNCHANGED <<row, provider>>
  BY <1>1
<1>2. ASSUME NEW w \in Workers, Start(w) \/ Mark(w) \/ Finalize(w)
      PROVE  [Submission!Next]_Submission!vars
  <2>1. /\ proc[w].id \in Messages /\ UNCHANGED provider
        /\ \A k \in Messages \ {proc[w].id} : row'[k] = row[k]
    BY <1>2 DEF Start, Mark, Finalize, Inv, TypeOK
  <2>2. Recorded(row[proc[w].id]) = "open" \/ row'[proc[w].id].stage = row[proc[w].id].stage
    <3>1. CASE Start(w) \/ Finalize(w)
      BY <3>1 DEF Start, Finalize, Holds, Recorded
    <3>2. CASE Mark(w)
      <4>1. /\ proc[w].pc = "mark" /\ row' = [row EXCEPT ![proc[w].id] = Marked(row[proc[w].id], w, proc[w].answer)]
            /\ WorkerOK(w, proc[w], row[proc[w].id], provider[proc[w].id], posts[proc[w].id])
        BY <3>2 DEF Mark, Inv
      <4>2. \/ row'[proc[w].id] = row[proc[w].id]
            \/ row[proc[w].id].stage \in {"claimed", "started"}
        BY <2>1, <4>1, Typed, MarkedRow DEF Inv, TypeOK
      <4>3. QED
        BY <4>2 DEF Recorded
    <3>3. QED
      BY <1>2, <3>1, <3>2
  <2>3. QED
    BY <2>1, <2>2, RowRefines
<1>3. ASSUME NEW m \in Messages,
             \/ Enqueue(m) \/ Elapse(m)
             \/ \E w \in Workers : Claim(w, m) \/ ClaimRefused(w, m) \/ ClaimReconciliation(w, m)
      PROVE  [Submission!Next]_Submission!vars
  <2>1. UNCHANGED provider /\ \A k \in Messages \ {m} : row'[k] = row[k]
    BY <1>3 DEF Enqueue, Elapse, Claim, ClaimRefused, ClaimReconciliation, Inv, TypeOK
  <2>2. Recorded(row[m]) = "open"
    BY <1>3 DEF Enqueue, Elapse, Claim, ClaimRefused, ClaimReconciliation, Due, Recorded, Fenced
  <2>3. QED
    BY <2>1, <2>2, RowRefines
<1>4. ASSUME NEW w \in Workers, Accepted(w) \/ Refused(w)
      PROVE  [Submission!Next]_Submission!vars
  <2>1. proc[w].id \in Messages
    BY <1>4 DEF Accepted, Refused, Inv
  <2>2. QED
    BY <1>4, <2>1, AcceptsRefines, RefusesRefines DEF Accepted, Refused
<1>5. ASSUME NEW m \in Messages, Arrive(m) \/ Lose(m)
      PROVE  [Submission!Next]_Submission!vars
  BY <1>5, AcceptsRefines, RefusesRefines DEF Arrive, Lose
<1>6. ASSUME NEW m \in Messages, Finish(m)
      PROVE  [Submission!Next]_Submission!vars
  <2>1. Submission!Finish(m)
    BY <1>6 DEF Finish, Submission!Finish
  <2>2. QED
    BY <2>1 DEF Submission!Next
<1>7. ASSUME NEW w \in Workers,
             \/ FailBefore(w) \/ StartUnavailable(w) \/ Polled(w) \/ Uncertain(w)
             \/ Lookup(w) \/ FinalizeUnavailable(w) \/ Crash(w)
      PROVE  UNCHANGED <<row, provider>>
  BY <1>7 DEF FailBefore, StartUnavailable, Polled, Uncertain, Lookup, FinalizeUnavailable, Crash
<1>8. CASE Configure \/ UNCHANGED vars
  BY <1>1, <1>8 DEF Configure, vars
<1>9. QED
  BY <1>1, <1>2, <1>3, <1>4, <1>5, <1>6, <1>7, <1>8, PostRefines DEF Next, Submit, Reconcile

(* The outbox implements the abstract promise                              *)
(* (ImplementsAtMostOnceSubmission).                                       *)
THEOREM Refinement == Spec => ImplementsAtMostOnceSubmission
<1>1. Init => Submission!Init
  BY DEF Init, Submission!Init, NoRow, Recorded
<1>2. QED
  BY <1>1, StepRefines, Invariant, PTL DEF Spec, Submission!Spec, ImplementsAtMostOnceSubmission
=============================================================================
