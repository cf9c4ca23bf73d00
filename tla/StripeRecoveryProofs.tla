------------------------ MODULE StripeRecoveryProofs ------------------------
(***************************************************************************)
(* Theorems about StripeRecovery for every set of claims and passes: a     *)
(* cycle offers every claim that was due when it began and stayed due, and *)
(* offers none twice.                                                      *)
(***************************************************************************)
EXTENDS StripeRecovery, TLAPS

(* A pass has a candidate exactly while it takes it up; an owner works on  *)
(* a busy claim, and is the only one.                                      *)
Ownership ==
  /\ \A p \in Passes : passes[p].pc \in {"taken", "working"} <=> passes[p].id # None
  /\ \A p \in Passes : passes[p].owns => passes[p].pc = "working" /\ claim[passes[p].id] = "busy"
  /\ \A p, q \in Passes : passes[p].owns /\ passes[q].owns /\ passes[p].id = passes[q].id => p = q

(* What the cycle still owes lies ahead of the cursor and is still due.    *)
OwedIsAhead ==
  \A i \in owed : claim[i] = "due" /\ cursor.after < i /\ i <= cursor.through

(* What it has offered lies behind.                                        *)
OfferedIsBehind ==
  cursor.through # None => \A i \in offered : i <= cursor.after

Inv == TypeOK /\ Ownership /\ OwedIsAhead /\ OfferedIsBehind

(* The bounds are numbers.                                                 *)
LEMMA Numbers == Ids \subseteq Nat /\ None \notin Ids /\ None \in Nat
  BY RecoveryAssumption DEF RecoveryAssumption, None

(* The records a pass goes through are passes.                             *)
LEMMA PassRecords ==
  /\ IdlePass \in PassType /\ ReadyPass \in PassType
  /\ IdlePass.pc = "idle" /\ IdlePass.id = None /\ ~IdlePass.owns
  /\ ReadyPass.pc = "ready" /\ ReadyPass.id = None /\ ~ReadyPass.owns
  BY DEF IdlePass, ReadyPass, PassType

(* So are those a step of the loop makes.                                  *)
LEMMA LoopRecords ==
  ASSUME NEW pass \in PassType
  PROVE  /\ NextCandidate(pass) \in PassType
         /\ NextCandidate(pass).pc = "ready" /\ NextCandidate(pass).id = None /\ ~NextCandidate(pass).owns
         /\ [pass EXCEPT !.pc = "working", !.owns = TRUE] \in PassType
         /\ [pass EXCEPT !.pc = "working", !.owns = TRUE].pc = "working"
         /\ [pass EXCEPT !.pc = "working", !.owns = TRUE].id = pass.id
         /\ [pass EXCEPT !.pc = "working", !.owns = TRUE].owns
  BY DEF PassType, NextCandidate

(* Another commit changes nothing but the freshness of a pass.             *)
LEMMA StaleRecord ==
  ASSUME NEW pass \in PassType, NEW fresh \in BOOLEAN
  PROVE  /\ [pass EXCEPT !.fresh = fresh] \in PassType
         /\ [pass EXCEPT !.fresh = fresh].pc = pass.pc
         /\ [pass EXCEPT !.fresh = fresh].id = pass.id
         /\ [pass EXCEPT !.fresh = fresh].owns = pass.owns
  BY DEF PassType

(* A lost lease changes nothing but the ownership of a pass.               *)
LEMMA LostRecord ==
  ASSUME NEW pass \in PassType
  PROVE  /\ [pass EXCEPT !.owns = FALSE] \in PassType
         /\ [pass EXCEPT !.owns = FALSE].pc = pass.pc
         /\ [pass EXCEPT !.owns = FALSE].id = pass.id
         /\ ~[pass EXCEPT !.owns = FALSE].owns
  BY DEF PassType
-----------------------------------------------------------------------------
(* Moving the cursor keeps the passes passes.                              *)
LEMMA MovedPasses ==
  ASSUME TypeOK, NEW p \in Passes, NEW next, NEW pass \in PassType, Moved(p, next, pass)
  PROVE  /\ passes' \in [Passes -> PassType]
         /\ \A q \in Passes :
              /\ q = p => passes'[q] = pass
              /\ q # p => /\ passes'[q].pc = passes[q].pc
                          /\ passes'[q].id = passes[q].id
                          /\ passes'[q].owns = passes[q].owns
<1>1. \A q \in Passes : passes'[q] = IF q = p THEN pass ELSE [passes[q] EXCEPT !.fresh = FALSE]
  BY DEF Moved
<1>2. \A q \in Passes : passes[q] \in PassType
  BY DEF TypeOK
<1>3. QED
  BY <1>1, <1>2, StaleRecord DEF Moved

(* A step of one pass that has no owner's business keeps the ownership.    *)
LEMMA OnePassStep ==
  ASSUME Inv, NEW p \in Passes, NEW pass \in PassType, passes' = [passes EXCEPT ![p] = pass],
         claim' \in [Ids -> Statuses],
         \A i \in Ids : claim[i] = "busy" /\ (\E q \in Passes \ {p} : passes[q].owns /\ passes[q].id = i)
                          => claim'[i] = "busy",
         pass.pc \in {"taken", "working"} <=> pass.id # None,
         pass.owns => /\ pass.pc = "working" /\ claim'[pass.id] = "busy"
                      /\ \A q \in Passes \ {p} : passes[q].owns => passes[q].id # pass.id
  PROVE  passes' \in [Passes -> PassType] /\ Ownership'
<1>1. \A q \in Passes : passes[q] \in PassType /\ passes'[q] = IF q = p THEN pass ELSE passes[q]
  BY DEF Inv, TypeOK
<1>2. \A q \in Passes : passes[q].owns => passes[q].id \in Ids
  BY <1>1 DEF Inv, Ownership, PassType
<1>3. QED
  BY <1>1, <1>2 DEF Inv, TypeOK, Ownership
-----------------------------------------------------------------------------
(* The end of a cycle is an id, or none, and the cursor is before it.      *)
LEMMA EndsType ==
  ASSUME Inv, NEW through \in Ends
  PROVE  /\ through \in Ids \cup {None}
         /\ cursor.through # None => through = cursor.through
         /\ cursor.through = None => cursor.after = None
<1>1. through \in Ids \cup {None} /\ (cursor.through # None => through = cursor.through)
  BY DEF Inv, TypeOK, Ends, Present
<1>2. cursor.after \in Nat /\ cursor.after <= cursor.through
  BY Numbers DEF Inv, TypeOK
<1>3. cursor.through = None => cursor.after = None
  BY <1>2 DEF None
<1>4. QED
  BY <1>1, <1>3

(* What a cycle owes when it goes on is ahead of the cursor, and due.      *)
LEMMA OwedType ==
  ASSUME Inv, NEW through \in Ends
  PROVE  /\ Owed(through) \subseteq Recoverable(through)
         /\ Offered \subseteq Ids
         /\ \A j \in Offered : j <= cursor.after
<1>1. CASE cursor.through = None
  <2>1. Owed(through) = {i \in Ids : claim[i] = "due" /\ i <= through} /\ Offered = {}
    BY <1>1 DEF Owed, Offered
  <2>2. \A i \in Ids : cursor.after < i
    BY <1>1, EndsType, Numbers, RecoveryAssumption DEF None, RecoveryAssumption
  <2>3. QED
    BY <2>1, <2>2 DEF Recoverable
<1>2. CASE cursor.through # None
  BY <1>2, EndsType DEF Inv, TypeOK, OwedIsAhead, OfferedIsBehind, Owed, Offered, Recoverable
<1>3. QED
  BY <1>1, <1>2

(* Taking the first candidate leaves the rest ahead.                       *)
LEMMA TakeStep ==
  ASSUME Inv, NEW p \in Passes, Take(p)
  PROVE  Inv' /\ OfferedOnce
<1>1. PICK through \in Ends, i \in Ids :
        /\ IsFirst(i, Recoverable(through))
        /\ Moved(p, [after |-> i, through |-> through], [passes[p] EXCEPT !.pc = "taken", !.id = i])
        /\ owed' = Owed(through) \ {i}
        /\ offered' = Offered \cup {i}
  BY DEF Take
<1>2. /\ passes \in [Passes -> PassType] /\ passes[p].pc = "ready" /\ UNCHANGED claim
      /\ ~passes[p].owns
  BY DEF Take, Inv, TypeOK, Ownership
<1>3. /\ cursor' = [after |-> i, through |-> through]
      /\ through \in Ids \cup {None} /\ i <= through /\ cursor.after < i
      /\ i \in Nat /\ cursor.after \in Nat /\ through \in Nat /\ claim[i] = "due"
  BY <1>1, EndsType, Numbers DEF Moved, IsFirst, Recoverable, Inv, TypeOK
<1>4. /\ passes' \in [Passes -> PassType]
      /\ passes'[p].pc = "taken" /\ passes'[p].id = i /\ ~passes'[p].owns
      /\ \A q \in Passes \ {p} : /\ passes'[q].pc = passes[q].pc
                                 /\ passes'[q].id = passes[q].id
                                 /\ passes'[q].owns = passes[q].owns
  <2> DEFINE pass == [passes[p] EXCEPT !.pc = "taken", !.id = i]
  <2>1. pass \in PassType /\ pass.pc = "taken" /\ pass.id = i /\ ~pass.owns
    BY <1>2 DEF PassType
  <2>2. Moved(p, [after |-> i, through |-> through], pass)
    BY <1>1
  <2> HIDE DEF pass
  <2>3. QED
    BY <2>1, <2>2, MovedPasses DEF Inv
<1>5. Ownership'
  BY <1>2, <1>3, <1>4, Numbers DEF Inv, Ownership
<1>6. TypeOK'
  BY <1>1, <1>2, <1>3, <1>4, OwedType DEF Inv, TypeOK, Recoverable
<1>7. OwedIsAhead'
  <2> SUFFICES ASSUME NEW j \in Owed(through), j # i
               PROVE  claim[j] = "due" /\ i < j /\ j <= through
    BY <1>1, <1>2, <1>3 DEF OwedIsAhead
  <2>1. j \in Recoverable(through)
    BY OwedType
  <2>2. QED
    BY <1>1, <1>3, <2>1, Numbers DEF IsFirst, Recoverable
<1>8. OfferedIsBehind'
  <2> SUFFICES ASSUME NEW j \in Offered PROVE j <= i
    BY <1>1, <1>3 DEF OfferedIsBehind
  <2>1. j <= cursor.after /\ j \in Nat
    BY OwedType, Numbers
  <2>2. QED
    BY <1>3, <2>1
<1>9. OfferedOnce
  <2> SUFFICES ASSUME NEW q \in Passes, passes[q].pc = "ready", passes'[q].pc = "taken",
                      cursor.through # None
               PROVE  passes'[q].id \notin offered
    BY DEF OfferedOnce
  <2>1. q = p
    BY <1>4
  <2>2. \A j \in offered : j <= cursor.after /\ j \in Nat
    BY Numbers DEF Inv, OfferedIsBehind, TypeOK
  <2>3. QED
    BY <1>3, <1>4, <2>1, <2>2
<1>10. QED
  BY <1>5, <1>6, <1>7, <1>8, <1>9 DEF Inv

(* A cycle ends when it owes nothing.                                      *)
LEMMA CompleteStep ==
  ASSUME Inv, NEW p \in Passes, CompleteCycle(p)
  PROVE  Inv'
<1>1. PICK through \in Ends :
        /\ Recoverable(through) = {}
        /\ Moved(p, NoCycle, [IdlePass EXCEPT !.pc = "complete"])
        /\ owed' = Owed(through) /\ offered' = Offered
  BY DEF CompleteCycle
<1>2. owed' = {} /\ UNCHANGED claim
  BY <1>1, OwedType DEF CompleteCycle
<1>3. /\ cursor' = NoCycle
      /\ cursor' \in [after : Ids \cup {None}, through : Ids \cup {None}]
      /\ cursor'.through = None /\ cursor'.after = None
  BY <1>1 DEF Moved, NoCycle
<1>4. /\ passes' \in [Passes -> PassType]
      /\ passes'[p].pc = "complete" /\ passes'[p].id = None /\ ~passes'[p].owns
      /\ \A q \in Passes \ {p} : /\ passes'[q].pc = passes[q].pc
                                 /\ passes'[q].id = passes[q].id
                                 /\ passes'[q].owns = passes[q].owns
  <2> DEFINE pass == [IdlePass EXCEPT !.pc = "complete"]
  <2>1. pass \in PassType /\ pass.pc = "complete" /\ pass.id = None /\ ~pass.owns
    BY DEF PassType, IdlePass
  <2>2. Moved(p, NoCycle, pass)
    BY <1>1
  <2> HIDE DEF pass
  <2>3. QED
    BY <2>1, <2>2, MovedPasses DEF Inv
<1>5. Ownership'
  BY <1>2, <1>4 DEF Inv, Ownership
<1>6. TypeOK'
  BY <1>1, <1>2, <1>3, <1>4, OwedType DEF Inv, TypeOK, None
<1>7. QED
  BY <1>2, <1>3, <1>5, <1>6 DEF Inv, OwedIsAhead, OfferedIsBehind
-----------------------------------------------------------------------------
(* A step that leaves the cycle alone and makes no claim of it less than   *)
(* due without settling what is owed for it.                               *)
LEMMA SameCycle ==
  ASSUME Inv, UNCHANGED <<cursor, offered>>, passes' \in [Passes -> PassType], Ownership',
         claim' \in [Ids -> Statuses], owed' \subseteq owed,
         \A i \in owed' : claim[i] = "due" => claim'[i] = "due"
  PROVE  Inv'
  BY DEF Inv, TypeOK, OwedIsAhead, OfferedIsBehind

(* A claim that changes while nobody owns it, and is owed nothing.         *)
LEMMA OneClaimStep ==
  ASSUME Inv, UNCHANGED <<cursor, passes, offered>>, NEW i \in Ids, NEW status \in Statuses,
         claim' = [claim EXCEPT ![i] = status],
         \A p \in Passes : passes[p].owns => passes[p].id # i,
         owed' \subseteq owed, status # "due" => i \notin owed'
  PROVE  Inv'
<1>1. claim' \in [Ids -> Statuses]
  BY DEF Inv, TypeOK
<1>2. Ownership'
  <2>1. \A p \in Passes : passes[p].owns => passes[p].id \in Ids
    BY DEF Inv, TypeOK, Ownership, PassType
  <2>2. QED
    BY <2>1 DEF Inv, TypeOK, Ownership
<1>3. QED
  BY <1>1, <1>2, SameCycle DEF Inv, TypeOK

(* A claim whose status is not busy has no owner.                          *)
LEMMA NotBusyNotOwned ==
  ASSUME Inv, NEW i \in Ids, claim[i] # "busy", NEW p \in Passes, passes[p].owns
  PROVE  passes[p].id # i
  BY DEF Inv, Ownership

(* Every step of a pass but the moves of the cursor.                       *)
LEMMA LoopStep ==
  ASSUME Inv, NEW p \in Passes,
         Start(p) \/ StaleRead(p) \/ Acquire(p) \/ Unavailable(p) \/ EndAttempt(p) \/ Stop(p)
  PROVE  Inv'
<1>1. /\ passes \in [Passes -> PassType] /\ claim \in [Ids -> Statuses] /\ passes[p] \in PassType
  BY DEF Inv, TypeOK
<1>2. CASE Start(p)
  BY <1>1, <1>2, PassRecords, OnePassStep, SameCycle DEF Start, history
<1>3. CASE StaleRead(p)
  <2> DEFINE pass == [passes[p] EXCEPT !.fresh = TRUE]
  <2>1. /\ pass \in PassType /\ pass.pc = passes[p].pc /\ pass.id = passes[p].id
        /\ pass.owns = passes[p].owns
    BY <1>1, StaleRecord
  <2>2. passes' = [passes EXCEPT ![p] = pass] /\ UNCHANGED <<claim, cursor, history>>
        /\ passes[p].pc = "ready"
    BY <1>1, <1>3 DEF StaleRead
  <2> HIDE DEF pass
  <2>3. passes' \in [Passes -> PassType] /\ Ownership'
    BY <1>1, <2>1, <2>2, OnePassStep DEF Inv, Ownership
  <2>4. QED
    BY <1>1, <2>2, <2>3, SameCycle DEF history
<1>4. CASE Acquire(p)
  <2> DEFINE i == passes[p].id
             working == [passes[p] EXCEPT !.pc = "working", !.owns = TRUE]
             next == NextCandidate(passes[p])
  <2>1. /\ i \in Ids /\ claim[i] = "due" /\ passes[p].pc = "taken" /\ owed' = owed \ {i}
        /\ UNCHANGED <<cursor, offered>>
    BY <1>1, <1>4 DEF Acquire, Inv, Ownership, PassType
  <2>2. \A q \in Passes : passes[q].owns => passes[q].id # i
    BY <2>1, NotBusyNotOwned
  <2>3. CASE claim' = [claim EXCEPT ![i] = "busy"] /\ passes' = [passes EXCEPT ![p] = working]
    <3>1. working \in PassType /\ working.pc = "working" /\ working.id = i /\ working.owns
      BY <1>1, <2>1, LoopRecords
    <3>2. claim' \in [Ids -> Statuses] /\ claim'[i] = "busy"
          /\ \A j \in Ids \ {i} : claim'[j] = claim[j]
      BY <1>1, <2>1, <2>3 DEF Statuses
    <3> HIDE DEF working
    <3>3. passes' \in [Passes -> PassType] /\ Ownership'
      BY <1>1, <2>1, <2>2, <2>3, <3>1, <3>2, Numbers, OnePassStep
    <3>4. \A j \in owed' : j \in Ids \ {i}
      BY <2>1 DEF Inv, TypeOK
    <3>5. QED
      BY <2>1, <3>2, <3>3, <3>4, SameCycle
  <2>4. CASE claim' = [claim EXCEPT ![i] = "review"] /\ passes' = [passes EXCEPT ![p] = next]
    <3>1. next \in PassType /\ next.pc = "ready" /\ next.id = None /\ ~next.owns
      BY <1>1, <2>1, LoopRecords
    <3>2. claim' \in [Ids -> Statuses]
          /\ \A j \in Ids \ {i} : claim'[j] = claim[j]
      BY <1>1, <2>1, <2>4 DEF Statuses
    <3> HIDE DEF next
    <3>3. passes' \in [Passes -> PassType] /\ Ownership'
      BY <1>1, <2>1, <2>2, <2>4, <3>1, <3>2, OnePassStep
    <3>4. \A j \in owed' : j \in Ids \ {i}
      BY <2>1 DEF Inv, TypeOK
    <3>5. QED
      BY <2>1, <3>2, <3>3, <3>4, SameCycle
  <2>5. QED
    BY <1>4, <2>3, <2>4 DEF Acquire
<1>5. CASE Unavailable(p) \/ EndAttempt(p)
  <2> DEFINE i == passes[p].id
             next == NextCandidate(passes[p])
  <2>1. /\ i \in Ids /\ passes[p].pc \in {"taken", "working"}
        /\ passes' = [passes EXCEPT ![p] = next] /\ UNCHANGED <<cursor, history>>
    BY <1>1, <1>5 DEF Unavailable, EndAttempt, Inv, Ownership, PassType
  <2>2. next \in PassType /\ next.pc = "ready" /\ next.id = None /\ ~next.owns
    BY <1>1, <2>1, LoopRecords
  <2> HIDE DEF next
  <2>3. CASE UNCHANGED claim
    <3>1. passes' \in [Passes -> PassType] /\ Ownership'
      BY <1>1, <2>1, <2>2, <2>3, OnePassStep
    <3>2. QED
      BY <1>1, <2>1, <2>3, <3>1, SameCycle DEF history
  <2>4. CASE passes[p].owns /\ \E status \in Outcomes : claim' = [claim EXCEPT ![i] = status]
    <3>1. claim[i] = "busy" /\ \A q \in Passes \ {p} : passes[q].owns => passes[q].id # i
      BY <2>4 DEF Inv, Ownership
    <3>2. claim' \in [Ids -> Statuses] /\ \A j \in Ids \ {i} : claim'[j] = claim[j]
      BY <1>1, <2>1, <2>4 DEF Outcomes, Statuses
    <3>3. passes' \in [Passes -> PassType] /\ Ownership'
      BY <1>1, <2>1, <2>2, <3>1, <3>2, OnePassStep
    <3>4. \A j \in owed' : j \in Ids \ {i}
      BY <2>1, <3>1 DEF Inv, TypeOK, OwedIsAhead, history
    <3>5. QED
      BY <2>1, <3>2, <3>3, <3>4, SameCycle DEF history
  <2>5. QED
    BY <1>5, <2>3, <2>4 DEF Unavailable, EndAttempt
<1>6. CASE Stop(p)
  BY <1>1, <1>6, PassRecords, OnePassStep, SameCycle DEF Stop, history
<1>7. QED
  BY <1>2, <1>3, <1>4, <1>5, <1>6

(* Every step of the rest of the system.                                   *)
LEMMA ClaimStep ==
  ASSUME Inv, NEW i \in Ids,
         Enqueue(i) \/ WebhookAcquire(i) \/ WebhookEnd(i) \/ Expire(i) \/ FallDue(i)
  PROVE  Inv'
<1>1. CASE Enqueue(i) \/ FallDue(i)
  BY <1>1, OneClaimStep, NotBusyNotOwned DEF Enqueue, FallDue, Statuses, history
<1>2. CASE WebhookAcquire(i)
  <2>1. claim[i] # "busy" /\ owed' = owed \ {i} /\ UNCHANGED <<cursor, passes, offered>>
        /\ \E status \in {"busy", "review"} : claim' = [claim EXCEPT ![i] = status]
    BY <1>2 DEF WebhookAcquire
  <2>2. QED
    BY <2>1, OneClaimStep, NotBusyNotOwned DEF Statuses
<1>3. CASE WebhookEnd(i)
  <2>1. /\ claim[i] = "busy" /\ UNCHANGED <<cursor, passes, owed, offered>>
        /\ \A p \in Passes : passes[p].owns => passes[p].id # i
        /\ \E status \in Outcomes : claim' = [claim EXCEPT ![i] = status]
    BY <1>3 DEF WebhookEnd, Owned, history
  <2>2. i \notin owed
    BY <2>1 DEF Inv, OwedIsAhead
  <2>3. QED
    BY <2>1, <2>2, OneClaimStep DEF Statuses, Outcomes
<1>4. CASE Expire(i)
  <2>1. /\ claim[i] = "busy" /\ claim' = [claim EXCEPT ![i] = "due"]
        /\ \A p \in Passes : passes'[p] = IF passes[p].id = i THEN [passes[p] EXCEPT !.owns = FALSE]
                                                              ELSE passes[p]
        /\ UNCHANGED <<cursor, owed, offered>>
    BY <1>4 DEF Expire, history
  <2>2. passes \in [Passes -> PassType] /\ claim \in [Ids -> Statuses]
    BY DEF Inv, TypeOK
  <2>3. \A p \in Passes :
          /\ passes'[p] \in PassType /\ passes'[p].pc = passes[p].pc /\ passes'[p].id = passes[p].id
          /\ passes'[p].owns => passes[p].owns /\ passes[p].id # i
    BY <2>1, <2>2, LostRecord
  <2>4. passes' \in [Passes -> PassType]
    BY <1>4, <2>3 DEF Expire
  <2>5. claim' \in [Ids -> Statuses] /\ claim'[i] = "due" /\ \A j \in Ids \ {i} : claim'[j] = claim[j]
    BY <2>1, <2>2 DEF Statuses
  <2>6. Ownership'
    <3>1. \A p \in Passes : passes[p].owns => passes[p].id \in Ids
      BY <2>2 DEF Inv, Ownership, PassType
    <3>2. QED
      BY <2>3, <2>5, <3>1 DEF Inv, Ownership
  <2>7. \A j \in owed' : claim[j] = "due" => claim'[j] = "due"
    BY <2>1, <2>5 DEF Inv, TypeOK
  <2>8. QED
    BY <2>1, <2>4, <2>5, <2>6, <2>7, SameCycle
<1>5. QED
  BY <1>1, <1>2, <1>3, <1>4
-----------------------------------------------------------------------------
(* The invariant is kept, and no step offers a claim twice in a cycle.     *)
LEMMA InvStep ==
  ASSUME Inv, [Next]_vars
  PROVE  Inv' /\ [OfferedOnce]_vars
<1>1. ASSUME NEW p \in Passes, Take(p) PROVE Inv' /\ OfferedOnce
  BY <1>1, TakeStep
<1>2. ASSUME NEW p \in Passes, CompleteCycle(p) PROVE Inv' /\ OfferedOnce
  <2>1. \A q \in Passes : passes'[q].pc # passes[q].pc => passes'[q].pc = "complete"
    <3>1. \A q \in Passes : passes[q] \in PassType
      BY DEF Inv, TypeOK
    <3>2. \A q \in Passes : passes'[q] = IF q = p THEN [IdlePass EXCEPT !.pc = "complete"]
                                                  ELSE [passes[q] EXCEPT !.fresh = FALSE]
      BY <1>2 DEF CompleteCycle, Moved
    <3>3. [IdlePass EXCEPT !.pc = "complete"].pc = "complete"
      BY DEF IdlePass
    <3>4. QED
      BY <3>1, <3>2, <3>3, StaleRecord
  <2>2. OfferedOnce
    BY <2>1 DEF OfferedOnce
  <2>3. QED
    BY <1>2, <2>2, CompleteStep
<1>3. ASSUME NEW p \in Passes,
             Start(p) \/ StaleRead(p) \/ Acquire(p) \/ Unavailable(p) \/ EndAttempt(p) \/ Stop(p)
      PROVE  Inv' /\ OfferedOnce
  <2>1. \A q \in Passes : passes[q] \in PassType
    BY DEF Inv, TypeOK
  <2>2. \A q \in Passes : passes'[q].pc = "taken" => passes[q].pc = "taken"
    <3>1. \A q \in Passes \ {p} : passes'[q] = passes[q]
      BY <1>3 DEF Start, StaleRead, Acquire, Unavailable, EndAttempt, Stop, Inv, TypeOK
    <3>2. passes'[p] \in {ReadyPass, IdlePass, NextCandidate(passes[p]),
                          [passes[p] EXCEPT !.fresh = TRUE],
                          [passes[p] EXCEPT !.pc = "working", !.owns = TRUE]}
      BY <1>3 DEF Start, StaleRead, Acquire, Unavailable, EndAttempt, Stop, Inv, TypeOK
    <3>3. /\ ReadyPass.pc = "ready" /\ IdlePass.pc = "idle"
          /\ NextCandidate(passes[p]).pc = "ready"
          /\ [passes[p] EXCEPT !.fresh = TRUE].pc = passes[p].pc
          /\ [passes[p] EXCEPT !.pc = "working", !.owns = TRUE].pc = "working"
      BY <2>1, PassRecords DEF NextCandidate, PassType
    <3>4. passes'[p].pc \in {"ready", "idle", "working", passes[p].pc}
      BY <3>2, <3>3
    <3>5. QED
      BY <3>1, <3>4
  <2>3. OfferedOnce
    BY <2>2 DEF OfferedOnce
  <2>4. QED
    BY <1>3, <2>3, LoopStep
<1>4. ASSUME NEW i \in Ids,
             Enqueue(i) \/ WebhookAcquire(i) \/ WebhookEnd(i) \/ Expire(i) \/ FallDue(i)
      PROVE  Inv' /\ OfferedOnce
  <2>1. \A q \in Passes : passes[q] \in PassType
    BY DEF Inv, TypeOK
  <2>2. \A q \in Passes : passes'[q].pc = passes[q].pc
    BY <1>4, <2>1, LostRecord DEF Enqueue, WebhookAcquire, WebhookEnd, Expire, FallDue
  <2>3. OfferedOnce
    BY <2>2 DEF OfferedOnce
  <2>4. QED
    BY <1>4, <2>3, ClaimStep
<1>5. CASE UNCHANGED vars
  BY <1>5 DEF vars, history, Inv, TypeOK, Ownership, OwedIsAhead, OfferedIsBehind
<1>6. QED
  BY <1>1, <1>2, <1>3, <1>4, <1>5 DEF Next, Work

(* It holds at first.                                                      *)
LEMMA InvInit == Init => Inv
<1> SUFFICES ASSUME Init PROVE Inv
  OBVIOUS
<1>1. TypeOK
  BY PassRecords DEF Init, TypeOK, Statuses, NoCycle, None
<1>2. QED
  BY <1>1, PassRecords DEF Init, Inv, Ownership, OwedIsAhead, OfferedIsBehind, NoCycle, None

(* The state is always well typed, and the cursor lies in its cycle.       *)
THEOREM TypeCorrect == Spec => []TypeOK
<1>1. Inv => TypeOK
  BY DEF Inv
<1>2. QED
  BY <1>1, InvInit, InvStep, PTL DEF Spec

(* A cycle passes nobody over: it ends only when every claim that was due  *)
(* when it began and stayed due has been offered.                          *)
THEOREM NobodyIsPassedOver == Spec => []CycleOffersAllDue
<1>1. Inv => CycleOffersAllDue
  <2> SUFFICES ASSUME Inv, cursor.through = None, NEW i \in owed PROVE FALSE
    BY DEF CycleOffersAllDue
  <2>1. i \in Nat /\ i # None /\ i <= None
    BY Numbers DEF Inv, TypeOK, OwedIsAhead
  <2>2. QED
    BY <2>1 DEF None
<1>2. QED
  BY <1>1, InvInit, InvStep, PTL DEF Spec

(* No cycle offers a claim twice.                                          *)
THEOREM NobodyIsOfferedTwice == Spec => OncePerCycle
<1>1. Inv /\ [Next]_vars => [OfferedOnce]_vars
  BY InvStep
<1>2. QED
  BY <1>1, InvInit, InvStep, PTL DEF Spec, OncePerCycle
=============================================================================
