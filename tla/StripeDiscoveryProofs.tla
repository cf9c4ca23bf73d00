----------------------- MODULE StripeDiscoveryProofs -----------------------
(***************************************************************************)
(* Theorems about StripeDiscovery for every set of sessions and passes and *)
(* every page size, overlap, window and clock skew: no timely session is   *)
(* skipped by the scan, and an exhausted report is true.                   *)
(***************************************************************************)
EXTENDS StripeDiscovery, FiniteSetTheorems, TLAPS

(* What the rows and the clocks satisfy once there is a checkpoint.        *)
Ranges ==
  checkpoint.set =>
    /\ checkpoint.gte >= origin
    /\ checkpoint.gte + Overlap <= checkpoint.lte
    /\ origin + Overlap < checkpoint.lte
    /\ checkpoint.lte <= now
    /\ checkpoint.after # NoSession => status[checkpoint.after] = "complete"

(* A fresh copy is the row; only the steps that use a copy hold one.       *)
Copies ==
  \A p \in Passes :
    /\ passes[p].now <= now
    /\ passes[p].fresh =>
         /\ passes[p].cp = checkpoint
         /\ passes[p].pc \in {"init", "ready", "fetched"}
         /\ passes[p].pc = "init" <=> ~checkpoint.set
    /\ passes[p].pc = "exhausted" => checkpoint.set
    /\ passes[p].pc = "init" /\ ~passes[p].fresh => checkpoint.set

(* The sessions the scan of a range owes a claim.                          *)
Due(s, cp) == status[s] = "complete" /\ InRange(s, cp) /\ completedAt[s] < cp.lte

(* Those at or above the cursor: the part of the range already read.       *)
Behind(s, cp) == cp.after # NoSession /\ ~Before(cp.after, s)

(* What was read has claims.                                               *)
Scanned ==
  checkpoint.set =>
    \A s \in Sessions : Due(s, checkpoint) /\ Behind(s, checkpoint) => s \in recorded

(* A page that can still be committed holds every session owed a claim     *)
(* down to its last.                                                       *)
PageComplete(pass) ==
  /\ \A s \in pass.page : status[s] = "complete"
  /\ pass.more => /\ pass.last \in pass.page
                  /\ \A s \in pass.page : s = pass.last \/ Before(s, pass.last)
  /\ \A s \in Sessions :
       Due(s, checkpoint) /\ ~Behind(s, checkpoint)
         => s \in pass.page \/ (pass.more /\ Before(pass.last, s))

Pages ==
  \A p \in Passes : passes[p].pc = "fetched" /\ passes[p].fresh => PageComplete(passes[p])

Inv ==
  /\ TypeOK /\ Ranges /\ Copies /\ Scanned /\ Pages
  /\ TimelySessionsAreRecorded /\ ExhaustedReportIsTrue
-----------------------------------------------------------------------------
(***************************************************************************)
(* Type correctness.                                                       *)
(***************************************************************************)

(* The records a pass goes through are passes.                             *)
LEMMA PassRecords ==
  /\ Unset \in CheckpointType /\ IdlePass \in PassType
  /\ \A gte, lte \in Int : OpenRange(gte, lte) \in CheckpointType
  BY DEF Unset, OpenRange, CheckpointType, IdlePass, PassType

(* A pass that was given a clock is a pass.                                *)
LEMMA StartedType ==
  ASSUME NEW pass \in PassType, NEW t \in Int
  PROVE  /\ [pass EXCEPT !.pc = "begin", !.now = t] \in PassType
         /\ [pass EXCEPT !.pc = "exhausted", !.now = t] \in PassType
  BY DEF PassType

(* So are those a commit by another pass makes stale.                      *)
LEMMA StaleCopies ==
  ASSUME NEW pass \in PassType
  PROVE  /\ [pass EXCEPT !.fresh = FALSE] \in PassType
         /\ ~[pass EXCEPT !.fresh = FALSE].fresh
         /\ [pass EXCEPT !.fresh = FALSE].now = pass.now
         /\ [pass EXCEPT !.fresh = FALSE].pc = pass.pc
  BY DEF PassType

(* And those that have fetched a page.                                     *)
LEMMA FetchedType ==
  ASSUME NEW pass \in PassType, NEW page \in SUBSET Sessions,
         NEW last \in Sessions \cup {NoSession}
  PROVE  FetchedPass(pass, page, last) \in PassType
<1>1. (page # Remaining(pass.cp)) \in BOOLEAN
  OBVIOUS
<1>2. ASSUME NEW more \in BOOLEAN
      PROVE  [pass EXCEPT !.pc = "fetched", !.page = page, !.last = last, !.more = more] \in PassType
  BY DEF PassType
<1>3. QED
  BY <1>1, <1>2 DEF FetchedPass

(* The next checkpoint of a fetched pass is one, and is not empty.         *)
LEMMA NextCheckpointType ==
  ASSUME NEW pass \in PassType, pass.cp.gte <= pass.cp.lte
  PROVE  /\ NextCheckpoint(pass) \in CheckpointType
         /\ NextCheckpoint(pass).gte <= NextCheckpoint(pass).lte
         /\ AfterCommit(pass, NextCheckpoint(pass)) \in PassType
<1>1. /\ NextCheckpoint(pass) \in CheckpointType
      /\ NextCheckpoint(pass).gte <= NextCheckpoint(pass).lte
  BY DiscoveryAssumption
     DEF DiscoveryAssumption, PassType, CheckpointType, NextCheckpoint, OpenRange, Later
<1>2. ASSUME NEW cp \in CheckpointType PROVE AfterCommit(pass, cp) \in PassType
  <2>1. CASE ExhaustedThroughInvocation(pass)
    BY <2>1, PassRecords, StartedType DEF AfterCommit, PassType
  <2>2. CASE ~ExhaustedThroughInvocation(pass)
    <3>1. [IdlePass EXCEPT !.pc = "ready", !.now = pass.now, !.cp = cp, !.fresh = TRUE] \in PassType
      BY PassRecords DEF PassType
    <3>2. QED
      BY <2>2, <3>1 DEF AfterCommit
  <2>3. QED
    BY <2>1, <2>2
<1>3. QED
  BY <1>1, <1>2

(* Every step keeps the types; a fresh copy is the row, so what is written *)
(* back is a range again.                                                  *)
LEMMA TypeStep ==
  ASSUME TypeOK, Copies, [Next]_vars
  PROVE  TypeOK'
<1>1. ASSUME NEW p \in Passes, Start(p) PROVE TypeOK'
  <2>1. [IdlePass EXCEPT !.pc = "begin", !.now = now] \in PassType
    <3>1. now \in Int
      BY DiscoveryAssumption DEF TypeOK, DiscoveryAssumption
    <3>2. QED
      BY <3>1, PassRecords, StartedType
  <2>2. QED
    BY <1>1, <2>1 DEF TypeOK, Start, stripe
<1>2. ASSUME NEW p \in Passes, ReadCheckpoint(p) PROVE TypeOK'
  <2> DEFINE read == [passes[p] EXCEPT
                 !.pc = IF checkpoint.set THEN "ready" ELSE "init", !.cp = checkpoint, !.fresh = TRUE]
  <2>1. read \in PassType
    BY DEF TypeOK, PassType
  <2>2. passes' = [passes EXCEPT ![p] = read]
    BY <1>2 DEF ReadCheckpoint, TypeOK
  <2>3. QED
    BY <1>2, <2>1, <2>2 DEF TypeOK, ReadCheckpoint, stripe
<1>3. ASSUME NEW p \in Passes, Initialize(p) PROVE TypeOK'
  <2> DEFINE first == OpenRange(passes[p].now - Window, passes[p].now)
  <2>1. passes[p] \in PassType /\ passes[p].now - Window \in Int /\ passes[p].now \in Int
    BY DiscoveryAssumption DEF TypeOK, PassType, DiscoveryAssumption
  <2>2. first \in CheckpointType /\ first.gte <= first.lte /\ first.gte \in Int
    BY <2>1, PassRecords, DiscoveryAssumption DEF OpenRange, DiscoveryAssumption
  <2>3. CASE passes[p].fresh
    <3>1. [passes[p] EXCEPT !.pc = "ready", !.cp = first] \in PassType
      BY <2>1, <2>2 DEF PassType
    <3>2. passes' \in [Passes -> PassType]
      BY <1>3, <2>3, <3>1, StaleCopies DEF Initialize, Committed, TypeOK
    <3>3. QED
      BY <1>3, <2>2, <2>3, <3>2 DEF Initialize, Committed, TypeOK, stripe
  <2>4. CASE ~passes[p].fresh
    <3>1. [passes[p] EXCEPT !.pc = "ready", !.cp = checkpoint, !.fresh = TRUE] \in PassType
      BY <2>1 DEF TypeOK, PassType
    <3>2. passes' = [passes EXCEPT ![p] = [passes[p] EXCEPT !.pc = "ready", !.cp = checkpoint, !.fresh = TRUE]]
      BY <1>3, <2>4 DEF Initialize, TypeOK
    <3>3. QED
      BY <1>3, <2>4, <3>1, <3>2 DEF Initialize, TypeOK, stripe
  <2>5. QED
    BY <2>3, <2>4
<1>4. ASSUME NEW p \in Passes, Fetch(p) PROVE TypeOK'
  <2>1. PICK page \in SUBSET Remaining(passes[p].cp), last \in Sessions \cup {NoSession} :
          passes' = [passes EXCEPT ![p] = FetchedPass(passes[p], page, last)]
    BY <1>4 DEF Fetch, TypeOK, FetchedPass
  <2>2. FetchedPass(passes[p], page, last) \in PassType
    BY FetchedType DEF TypeOK, Remaining
  <2>3. QED
    BY <1>4, <2>1, <2>2 DEF TypeOK, Fetch, stripe
<1>5. ASSUME NEW p \in Passes, Commit(p) PROVE TypeOK'
  <2> DEFINE pass == passes[p]
  <2>1. pass \in PassType /\ pass.cp.gte <= pass.cp.lte /\ pass.page \subseteq Sessions
    BY <1>5 DEF Commit, Copies, TypeOK, PassType
  <2>2. passes' \in [Passes -> PassType]
    BY <1>5, <2>1, NextCheckpointType, StaleCopies DEF Commit, Committed, TypeOK
  <2>3. QED
    BY <1>5, <2>1, <2>2, NextCheckpointType DEF Commit, Committed, TypeOK, stripe
<1>6. ASSUME NEW p \in Passes, Stale(p) \/ Stop(p) PROVE TypeOK'
  BY <1>6, PassRecords DEF TypeOK, Stale, Stop, stripe
<1>7. ASSUME NEW s \in Sessions, Create(s) \/ CompleteSession(s) \/ Webhook(s) PROVE TypeOK'
  <2>1. CASE Create(s)
    BY <2>1, DiscoveryAssumption DEF TypeOK, Create, DiscoveryAssumption
  <2>2. CASE CompleteSession(s)
    BY <2>2 DEF TypeOK, CompleteSession
  <2>3. CASE Webhook(s)
    BY <2>3 DEF TypeOK, Webhook, stripe
  <2>4. QED
    BY <1>7, <2>1, <2>2, <2>3
<1>8. CASE Tick
  BY <1>8, DiscoveryAssumption DEF TypeOK, Tick, stripe, DiscoveryAssumption
<1>9. CASE UNCHANGED vars
  BY <1>9 DEF TypeOK, vars, stripe
<1>10. QED
  BY <1>1, <1>2, <1>3, <1>4, <1>5, <1>6, <1>7, <1>8, <1>9 DEF Next, Work
-----------------------------------------------------------------------------
(***************************************************************************)
(* The list.                                                               *)
(***************************************************************************)

(* Stripe's order is a strict total order.                                 *)
LEMMA TotalOrder ==
  ASSUME TypeOK, NEW s \in Sessions, NEW t \in Sessions
  PROVE  /\ ~Before(s, s)
         /\ s # t => Before(s, t) \/ Before(t, s)
         /\ Before(s, t) => ~Before(t, s)
         /\ \A u \in Sessions : Before(s, t) /\ Before(t, u) => Before(s, u)
<1>1. created \in [Sessions -> Int] /\ Sessions \subseteq Nat
  BY DiscoveryAssumption DEF TypeOK, DiscoveryAssumption
<1>2. QED
  BY <1>1 DEF Before

(* A page that is not the whole rest is not empty.                         *)
LEMMA PageNotEmpty ==
  ASSUME NEW page, NEW cp, IsPage(page, cp), page # Remaining(cp)
  PROVE  page # {}
<1>1. Cardinality(page) = PageSize /\ PageSize # 0
  BY DiscoveryAssumption DEF IsPage, DiscoveryAssumption
<1>2. QED
  BY <1>1, FS_EmptySet

(* What the fetch of a fresh copy brings is complete.                      *)
LEMMA FetchedPageComplete ==
  ASSUME TypeOK, NEW pass \in PassType, pass.cp = checkpoint,
         NEW page \in SUBSET Remaining(pass.cp), NEW last \in Sessions \cup {NoSession},
         IsPage(page, pass.cp), IsLast(page, last)
  PROVE  PageComplete(FetchedPass(pass, page, last))
<1> DEFINE got == FetchedPass(pass, page, last)
<1>1. /\ got.page = page /\ got.last = last
      /\ got.more <=> page # Remaining(checkpoint)
  BY DEF FetchedPass, PassType
<1>2. \A s \in page : s \in Sessions /\ status[s] = "complete"
  BY DEF Remaining
<1>3. ASSUME got.more
      PROVE  last \in page /\ \A s \in page : s = last \/ Before(s, last)
  BY <1>1, <1>3, PageNotEmpty DEF IsLast
<1>4. ASSUME NEW s \in Sessions, Due(s, checkpoint), ~Behind(s, checkpoint)
      PROVE  s \in page \/ (got.more /\ Before(last, s))
  <2>1. s \in Remaining(checkpoint)
    BY <1>4 DEF Due, Behind, Remaining
  <2>2. CASE ~got.more
    BY <1>1, <2>1, <2>2
  <2>3. CASE got.more /\ s \notin page
    BY <1>2, <1>3, <2>1, <2>3 DEF IsPage
  <2>4. QED
    BY <2>2, <2>3
<1>5. QED
  BY <1>1, <1>2, <1>3, <1>4 DEF PageComplete
-----------------------------------------------------------------------------
(***************************************************************************)
(* The invariant, by kinds of step.                                        *)
(***************************************************************************)

(* A step that changes one pass only keeps the invariant if what the pass  *)
(* holds is as Copies and Pages say.                                       *)
LEMMA OnePassStep ==
  ASSUME Inv, UNCHANGED <<now, stripe, recorded, checkpoint, origin>>,
         NEW p \in Passes, NEW pass \in PassType, passes' = [passes EXCEPT ![p] = pass],
         pass.now <= now, pass.pc # "exhausted", pass.pc = "init" => pass.fresh,
         pass.fresh => /\ pass.cp = checkpoint
                       /\ pass.pc \in {"init", "ready", "fetched"}
                       /\ pass.pc = "init" <=> ~checkpoint.set,
         pass.pc = "fetched" /\ pass.fresh => PageComplete(pass)
  PROVE  (Ranges /\ Copies /\ Scanned /\ Pages
            /\ TimelySessionsAreRecorded /\ ExhaustedReportIsTrue)'
<1>1. passes \in [Passes -> PassType] /\ \A q \in Passes : passes'[q] = IF q = p THEN pass ELSE passes[q]
  BY DEF Inv, TypeOK
<1>2. Ranges'
  BY DEF Inv, Ranges, stripe
<1>3. Copies'
  BY <1>1 DEF Inv, Copies
<1>4. Scanned'
  BY DEF Inv, Scanned, Due, Behind, InRange, Before, stripe
<1>5. Pages'
  BY <1>1 DEF Inv, Pages, PageComplete, Due, Behind, InRange, Before, stripe
<1>6. TimelySessionsAreRecorded'
  BY DEF Inv, TimelySessionsAreRecorded, RolledForward, ExhaustedThrough, Timely, stripe
<1>7. ExhaustedReportIsTrue'
  BY <1>1 DEF Inv, ExhaustedReportIsTrue, Timely, stripe
<1>8. QED
  BY <1>2, <1>3, <1>4, <1>5, <1>6, <1>7

(* A step outside the cron only adds: to the clock, to the claims, and     *)
(* complete sessions that completed no earlier than any range ends.        *)
LEMMA OutsideStep ==
  ASSUME Inv, TypeOK', UNCHANGED <<checkpoint, passes, origin>>,
         now <= now', recorded \subseteq recorded',
         \A s \in Sessions : status[s] = "complete" =>
            status'[s] = "complete" /\ created'[s] = created[s] /\ completedAt'[s] = completedAt[s],
         \A s \in Sessions : status[s] # "complete" /\ status'[s] = "complete" =>
            completedAt'[s] >= now
  PROVE  (Ranges /\ Copies /\ Scanned /\ Pages
            /\ TimelySessionsAreRecorded /\ ExhaustedReportIsTrue)'
<1>1. /\ now \in Int /\ now' \in Int /\ Overlap \in Int
      /\ checkpoint \in CheckpointType /\ passes \in [Passes -> PassType]
      /\ completedAt \in [Sessions -> Int] /\ completedAt' \in [Sessions -> Int]
  BY DiscoveryAssumption DEF Inv, TypeOK, DiscoveryAssumption
<1>2. /\ checkpoint.after \in Sessions \cup {NoSession} /\ checkpoint.lte \in Int /\ checkpoint.gte \in Int
      /\ \A p \in Passes : passes[p].now \in Int /\ passes[p].page \subseteq Sessions
  BY <1>1 DEF CheckpointType, PassType
<1>3. Ranges'
  BY <1>1, <1>2 DEF Inv, Ranges
<1>4. Copies'
  BY <1>1, <1>2 DEF Inv, Copies
<1>5. ASSUME NEW s \in Sessions, checkpoint.set, Due(s, checkpoint)'
      PROVE  Due(s, checkpoint) /\ status[s] = "complete"
  BY <1>1, <1>2, <1>5 DEF Inv, Ranges, Due, InRange
<1>6. ASSUME NEW s \in Sessions, NEW t \in Sessions, status[s] = "complete", status[t] = "complete"
      PROVE  Before(s, t)' <=> Before(s, t)
  BY <1>6 DEF Before
<1>7. ASSUME NEW s \in Sessions, checkpoint.set, status[s] = "complete"
      PROVE  Behind(s, checkpoint)' <=> Behind(s, checkpoint)
  BY <1>2, <1>6, <1>7 DEF Inv, Ranges, Behind
<1>8. Scanned'
  BY <1>5, <1>7 DEF Inv, Scanned
<1>9. Pages'
  <2> SUFFICES ASSUME NEW p \in Passes, passes[p].pc = "fetched", passes[p].fresh
               PROVE  PageComplete(passes[p])'
    BY DEF Pages
  <2>1. PageComplete(passes[p]) /\ checkpoint.set
    BY DEF Inv, Pages, Copies
  <2>2. \A s \in passes[p].page : s \in Sessions /\ status[s] = "complete"
    BY <1>2, <2>1 DEF PageComplete
  <2>3. \A s \in passes[p].page : status'[s] = "complete"
    BY <2>2
  <2>4. ASSUME passes[p].more
        PROVE  /\ passes[p].last \in passes[p].page
               /\ \A s \in passes[p].page : s = passes[p].last \/ Before(s, passes[p].last)'
    BY <1>6, <2>1, <2>2, <2>4 DEF PageComplete
  <2>5. ASSUME NEW s \in Sessions, Due(s, checkpoint)', ~Behind(s, checkpoint)'
        PROVE  s \in passes[p].page \/ (passes[p].more /\ Before(passes[p].last, s)')
    BY <1>5, <1>6, <1>7, <2>1, <2>2, <2>5 DEF PageComplete
  <2>6. QED
    BY <2>3, <2>4, <2>5 DEF PageComplete
<1>10. TimelySessionsAreRecorded'
  <2> SUFFICES ASSUME NEW s \in Sessions, RolledForward, Timely(s)',
                      created'[s] <= ExhaustedThrough, completedAt'[s] < ExhaustedThrough
               PROVE  s \in recorded
    BY DEF TimelySessionsAreRecorded, RolledForward, ExhaustedThrough
  <2>1. ExhaustedThrough <= now
    BY <1>1, <1>2 DEF Inv, Ranges, RolledForward, ExhaustedThrough
  <2>2. status[s] = "complete"
    BY <1>1, <1>2, <2>1 DEF Timely, ExhaustedThrough
  <2>3. QED
    BY <2>2 DEF Inv, TimelySessionsAreRecorded, Timely
<1>11. ExhaustedReportIsTrue'
  <2> SUFFICES ASSUME NEW p \in Passes, passes[p].pc = "exhausted", NEW s \in Sessions, Timely(s)',
                      created'[s] <= passes[p].now, completedAt'[s] < passes[p].now
               PROVE  s \in recorded
    BY DEF ExhaustedReportIsTrue
  <2>1. status[s] = "complete"
    BY <1>1, <1>2 DEF Inv, Copies, Timely
  <2>2. QED
    BY <2>1 DEF Inv, ExhaustedReportIsTrue, Timely
<1>12. QED
  BY <1>3, <1>4, <1>8, <1>9, <1>10, <1>11

(* The first range: nothing has been read, nothing is owed.                *)
LEMMA InitializeStep ==
  ASSUME Inv, NEW p \in Passes, Initialize(p), passes[p].fresh
  PROVE  (Ranges /\ Copies /\ Scanned /\ Pages
            /\ TimelySessionsAreRecorded /\ ExhaustedReportIsTrue)'
<1> DEFINE first == OpenRange(passes[p].now - Window, passes[p].now)
<1>1. /\ passes \in [Passes -> PassType] /\ passes[p].now \in Int /\ passes[p].now <= now
      /\ now \in Int /\ origin \in Int
      /\ Overlap \in Int /\ Window \in Int /\ Overlap < Window
  BY DiscoveryAssumption DEF Inv, TypeOK, Copies, PassType, DiscoveryAssumption
<1>2. /\ first.set /\ first.gte = passes[p].now - Window /\ first.lte = passes[p].now
      /\ first.after = NoSession
  BY DEF OpenRange
<1>3. /\ checkpoint' = first /\ origin' = first.gte
      /\ UNCHANGED <<now, stripe, recorded>>
      /\ ~checkpoint.set
  BY DEF Initialize, Committed, Inv, Copies
<1>4. \A q \in Passes :
        /\ passes'[q].now = passes[q].now
        /\ q = p => passes'[q].pc = "ready" /\ passes'[q].cp = first
        /\ q # p => ~passes'[q].fresh /\ passes'[q].pc = passes[q].pc
  <2> DEFINE begun == [passes[p] EXCEPT !.pc = "ready", !.cp = first]
  <2>1. \A q \in Passes : passes'[q] = IF q = p THEN begun ELSE [passes[q] EXCEPT !.fresh = FALSE]
    BY DEF Initialize, Committed
  <2>2. begun.now = passes[p].now /\ begun.pc = "ready" /\ begun.cp = first
    BY <1>1 DEF PassType
  <2>3. QED
    BY <1>1, <2>1, <2>2, StaleCopies
<1>5. Ranges'
  BY <1>1, <1>2, <1>3 DEF Ranges
<1>6. Copies'
  BY <1>1, <1>2, <1>3, <1>4 DEF Inv, Copies
<1>7. Scanned'
  BY <1>2, <1>3 DEF Scanned, Behind
<1>8. Pages'
  BY <1>4 DEF Pages
<1>9. TimelySessionsAreRecorded'
  BY <1>3 DEF TimelySessionsAreRecorded, RolledForward
<1>10. ExhaustedReportIsTrue'
  BY <1>3, <1>4 DEF Inv, Copies, ExhaustedReportIsTrue
<1>11. QED
  BY <1>5, <1>6, <1>7, <1>8, <1>9, <1>10

(* The last page of a range covers it: a timely session stamped before the *)
(* range was recorded with the ranges before, by the overlap; any other is *)
(* behind the cursor or on the page.                                       *)
LEMMA RangeCovered ==
  ASSUME Inv, NEW p \in Passes, passes[p].pc = "fetched", passes[p].fresh, ~passes[p].more,
         NEW s \in Sessions, Timely(s),
         created[s] <= checkpoint.lte, completedAt[s] < checkpoint.lte
  PROVE  s \in recorded \cup passes[p].page
<1>1. /\ checkpoint.set /\ PageComplete(passes[p])
      /\ checkpoint.gte \in Int /\ checkpoint.lte \in Int /\ origin \in Int
      /\ created[s] \in Int /\ completedAt[s] \in Int /\ Overlap \in Int
  BY DiscoveryAssumption DEF Inv, Copies, Pages, TypeOK, CheckpointType, DiscoveryAssumption
<1>2. CASE created[s] >= checkpoint.gte
  <2>1. Due(s, checkpoint)
    BY <1>1, <1>2 DEF Due, InRange, Timely
  <2>2. QED
    BY <1>1, <2>1 DEF Inv, Scanned, PageComplete
<1>3. CASE created[s] < checkpoint.gte
  <2>1. RolledForward
    BY <1>1, <1>3 DEF RolledForward, Timely
  <2>2. created[s] <= ExhaustedThrough /\ completedAt[s] < ExhaustedThrough
    BY <1>1, <1>3, DiscoveryAssumption DEF ExhaustedThrough, Timely, DiscoveryAssumption
  <2>3. QED
    BY <2>1, <2>2 DEF Inv, TimelySessionsAreRecorded
<1>4. QED
  BY <1>1, <1>2, <1>3

(* A commit of a page in the middle of a range.                            *)
LEMMA PageStep ==
  ASSUME Inv, NEW p \in Passes, Commit(p), passes[p].more
  PROVE  (Ranges /\ Copies /\ Scanned /\ Pages
            /\ TimelySessionsAreRecorded /\ ExhaustedReportIsTrue)'
<1> DEFINE next == [checkpoint EXCEPT !.after = passes[p].last]
<1>1. /\ passes \in [Passes -> PassType] /\ checkpoint \in CheckpointType
      /\ passes[p].cp = checkpoint /\ checkpoint.set /\ PageComplete(passes[p])
      /\ UNCHANGED <<now, stripe, origin>> /\ recorded' = recorded \cup passes[p].page
  BY DEF Inv, TypeOK, Copies, Pages, Commit
<1>2. /\ NextCheckpoint(passes[p]) = next
      /\ AfterCommit(passes[p], next)
           = [IdlePass EXCEPT !.pc = "ready", !.now = passes[p].now, !.cp = next, !.fresh = TRUE]
  BY <1>1 DEF NextCheckpoint, AfterCommit, ExhaustedThroughInvocation
<1>3. /\ next.set /\ next.gte = checkpoint.gte /\ next.lte = checkpoint.lte
      /\ next.after = passes[p].last
      /\ checkpoint' = next
  BY <1>1, <1>2 DEF Commit, Committed, CheckpointType
<1>4. \A q \in Passes :
        /\ passes'[q].now = passes[q].now
        /\ q = p => passes'[q].pc = "ready" /\ passes'[q].cp = next
        /\ q # p => ~passes'[q].fresh /\ passes'[q].pc = passes[q].pc
  <2> DEFINE begun == [IdlePass EXCEPT !.pc = "ready", !.now = passes[p].now, !.cp = next, !.fresh = TRUE]
  <2>1. \A q \in Passes : passes'[q] = IF q = p THEN begun ELSE [passes[q] EXCEPT !.fresh = FALSE]
    BY <1>2 DEF Commit, Committed
  <2>2. begun.now = passes[p].now /\ begun.pc = "ready" /\ begun.cp = next
    BY PassRecords DEF PassType
  <2>3. passes'[p].now = passes[p].now /\ passes'[p].pc = "ready" /\ passes'[p].cp = next
    BY <2>1, <2>2
  <2>4. ASSUME NEW q \in Passes, q # p
        PROVE  passes'[q].now = passes[q].now /\ ~passes'[q].fresh /\ passes'[q].pc = passes[q].pc
    BY <1>1, <2>1, <2>4, StaleCopies
  <2>5. QED
    BY <2>3, <2>4
<1>5. passes[p].last \in Sessions /\ status[passes[p].last] = "complete"
  BY <1>1 DEF PageComplete, PassType
<1>6. Ranges'
  BY <1>1, <1>3, <1>5 DEF Inv, Ranges, stripe
<1>7. Copies'
  BY <1>1, <1>3, <1>4 DEF Inv, Copies
<1>8. Scanned'
  <2>1. ASSUME NEW s \in Sessions, Due(s, checkpoint)', Behind(s, checkpoint)'
        PROVE  s \in recorded'
    <3>1. Due(s, checkpoint)
      BY <1>1, <1>3, <2>1 DEF Due, InRange, stripe
    <3>2. ~Before(passes[p].last, s)
      BY <1>1, <1>3, <2>1 DEF Behind, Before, stripe
    <3>3. QED
      BY <1>1, <3>1, <3>2 DEF Inv, Scanned, PageComplete
  <2>2. QED
    BY <2>1 DEF Scanned
<1>9. Pages'
  BY <1>4 DEF Pages
<1>10. TimelySessionsAreRecorded'
  BY <1>1, <1>3 DEF Inv, TimelySessionsAreRecorded, RolledForward, ExhaustedThrough, Timely, stripe
<1>11. ExhaustedReportIsTrue'
  BY <1>1, <1>4 DEF Inv, ExhaustedReportIsTrue, Timely, stripe
<1>12. QED
  BY <1>6, <1>7, <1>8, <1>9, <1>10, <1>11

(* A commit of the last page: the next range opens.                        *)
LEMMA ExhaustingStep ==
  ASSUME Inv, NEW p \in Passes, Commit(p), ~passes[p].more
  PROVE  (Ranges /\ Copies /\ Scanned /\ Pages
            /\ TimelySessionsAreRecorded /\ ExhaustedReportIsTrue)'
<1> DEFINE next == OpenRange(checkpoint.lte - Overlap, Later(passes[p].now, checkpoint.lte))
<1>1. /\ passes \in [Passes -> PassType] /\ checkpoint \in CheckpointType
      /\ passes[p].cp = checkpoint /\ checkpoint.set
      /\ passes[p].pc = "fetched" /\ passes[p].fresh
      /\ UNCHANGED <<now, stripe, origin>> /\ recorded' = recorded \cup passes[p].page
  BY DEF Inv, TypeOK, Copies, Commit
<1>2. /\ checkpoint.lte \in Int /\ now \in Int /\ origin \in Int /\ Overlap \in Nat
      /\ \A q \in Passes : passes[q].now \in Int /\ passes[q].now <= now
      /\ \A s \in Sessions : created[s] \in Int /\ completedAt[s] \in Int
  BY <1>1, DiscoveryAssumption DEF Inv, TypeOK, Copies, CheckpointType, PassType, DiscoveryAssumption
<1>3. NextCheckpoint(passes[p]) = next
  BY <1>1 DEF NextCheckpoint
<1>4. /\ next.set /\ next.gte = checkpoint.lte - Overlap /\ next.after = NoSession
      /\ checkpoint.lte <= next.lte /\ next.lte <= now /\ next.lte \in Int
      /\ checkpoint' = next
  BY <1>1, <1>2, <1>3 DEF Inv, Ranges, OpenRange, Later, Commit, Committed
<1>5. \A q \in Passes :
        /\ passes'[q].now = passes[q].now
        /\ q = p => \/ passes'[q].pc = "ready" /\ passes'[q].cp = next
                    \/ /\ passes'[q].pc = "exhausted" /\ ~passes'[q].fresh
                       /\ passes[p].now <= checkpoint.lte
        /\ q # p => ~passes'[q].fresh /\ passes'[q].pc = passes[q].pc
  <2>1. IdlePass.fresh = FALSE /\ IdlePass \in PassType
    BY PassRecords DEF IdlePass
  <2>2. \A q \in Passes : passes'[q] = IF q = p THEN AfterCommit(passes[p], next)
                                                ELSE [passes[q] EXCEPT !.fresh = FALSE]
    BY <1>1, <1>3 DEF Commit, Committed
  <2>3. ASSUME NEW q \in Passes, q # p
        PROVE  passes'[q].now = passes[q].now /\ ~passes'[q].fresh /\ passes'[q].pc = passes[q].pc
    BY <1>1, <2>2, <2>3, StaleCopies
  <2>4. CASE ExhaustedThroughInvocation(passes[p])
    <3>1. passes'[p] = [IdlePass EXCEPT !.pc = "exhausted", !.now = passes[p].now]
      BY <2>2, <2>4 DEF AfterCommit
    <3>2. passes'[p].now = passes[p].now /\ passes'[p].pc = "exhausted" /\ ~passes'[p].fresh
      BY <3>1, <2>1 DEF PassType
    <3>3. passes[p].now <= checkpoint.lte
      BY <1>1, <1>2, <2>4 DEF ExhaustedThroughInvocation
    <3>4. QED
      BY <2>3, <3>2, <3>3
  <2>5. CASE ~ExhaustedThroughInvocation(passes[p])
    <3>1. passes'[p] = [IdlePass EXCEPT !.pc = "ready", !.now = passes[p].now, !.cp = next, !.fresh = TRUE]
      BY <2>2, <2>5 DEF AfterCommit
    <3>2. passes'[p].now = passes[p].now /\ passes'[p].pc = "ready" /\ passes'[p].cp = next
      BY <3>1, <2>1 DEF PassType
    <3>3. QED
      BY <2>3, <3>2
  <2>6. QED
    BY <2>4, <2>5
<1>6. \A s \in Sessions :
        Timely(s) /\ created[s] <= checkpoint.lte /\ completedAt[s] < checkpoint.lte => s \in recorded'
  BY <1>1, RangeCovered DEF Commit
<1>7. Ranges'
  BY <1>1, <1>2, <1>4 DEF Inv, Ranges
<1>8. Copies'
  BY <1>1, <1>2, <1>4, <1>5 DEF Inv, Copies
<1>9. Scanned'
  BY <1>4 DEF Scanned, Behind
<1>10. Pages'
  BY <1>5 DEF Pages
<1>11. TimelySessionsAreRecorded'
  BY <1>1, <1>2, <1>4, <1>6 DEF TimelySessionsAreRecorded, RolledForward, ExhaustedThrough, Timely, stripe
<1>12. ExhaustedReportIsTrue'
  <2> SUFFICES ASSUME NEW q \in Passes, passes'[q].pc = "exhausted", NEW s \in Sessions, Timely(s),
                      created[s] <= passes[q].now, completedAt[s] < passes[q].now
               PROVE  s \in recorded'
    BY <1>1, <1>5 DEF ExhaustedReportIsTrue, Timely, stripe
  <2>1. CASE q = p
    BY <1>2, <1>5, <1>6, <2>1
  <2>2. CASE q # p
    BY <1>1, <1>5, <2>2 DEF Inv, ExhaustedReportIsTrue
  <2>3. QED
    BY <2>1, <2>2
<1>13. QED
  BY <1>7, <1>8, <1>9, <1>10, <1>11, <1>12
-----------------------------------------------------------------------------
(***************************************************************************)
(* The theorems.                                                           *)
(***************************************************************************)

(* The invariant holds at first and every step keeps it.                   *)
LEMMA InvStep ==
  ASSUME Inv, [Next]_vars
  PROVE  Inv'
<1> DEFINE Rest == Ranges /\ Copies /\ Scanned /\ Pages
                     /\ TimelySessionsAreRecorded /\ ExhaustedReportIsTrue
<1>1. TypeOK'
  BY TypeStep DEF Inv
<1>2. passes \in [Passes -> PassType] /\ checkpoint \in CheckpointType /\ now \in Int
  BY DiscoveryAssumption DEF Inv, TypeOK, DiscoveryAssumption
<1>3. ASSUME NEW p \in Passes, Start(p) PROVE Rest'
  <2> DEFINE started == [IdlePass EXCEPT !.pc = "begin", !.now = now]
  <2>1. started \in PassType
    BY <1>2, PassRecords, StartedType
  <2>2. started.pc = "begin" /\ started.now = now /\ ~started.fresh
    BY DEF IdlePass
  <2>3. /\ UNCHANGED <<now, stripe, recorded, checkpoint, origin>>
        /\ passes' = [passes EXCEPT ![p] = started]
    BY <1>3 DEF Start
  <2> HIDE DEF started
  <2>4. started.now <= now
    BY <1>2, <2>2
  <2>5. QED
    BY <2>1, <2>2, <2>3, <2>4, OnePassStep
<1>4. ASSUME NEW p \in Passes, ReadCheckpoint(p) PROVE Rest'
  <2> DEFINE read == [passes[p] EXCEPT
                 !.pc = IF checkpoint.set THEN "ready" ELSE "init", !.cp = checkpoint, !.fresh = TRUE]
  <2>1. /\ read \in PassType /\ read.now = passes[p].now /\ read.cp = checkpoint
        /\ read.pc = IF checkpoint.set THEN "ready" ELSE "init"
    BY <1>2 DEF PassType
  <2>2. passes' = [passes EXCEPT ![p] = read]
    BY <1>2, <1>4 DEF ReadCheckpoint
  <2>3. QED
    <3>1. read.now <= now /\ read.fresh
      BY <1>2, <2>1 DEF PassType, Inv, Copies
    <3>2. read.pc # "exhausted" /\ read.pc # "fetched"
      BY <2>1
    <3>3. read.pc \in {"init", "ready", "fetched"} /\ (read.pc = "init" <=> ~checkpoint.set)
      BY <2>1
    <3>4. UNCHANGED <<now, stripe, recorded, checkpoint, origin>>
      BY <1>4 DEF ReadCheckpoint
    <3>5. QED
      BY <2>1, <2>2, <3>1, <3>2, <3>3, <3>4, OnePassStep
<1>5. ASSUME NEW p \in Passes, Initialize(p) PROVE Rest'
  <2>1. CASE passes[p].fresh
    BY <1>5, <2>1, InitializeStep
  <2>2. CASE ~passes[p].fresh
    <3> DEFINE read == [passes[p] EXCEPT !.pc = "ready", !.cp = checkpoint, !.fresh = TRUE]
    <3>1. /\ read \in PassType /\ read.now = passes[p].now /\ read.cp = checkpoint
          /\ read.pc = "ready"
      BY <1>2 DEF PassType
    <3>2. passes' = [passes EXCEPT ![p] = read]
      BY <1>2, <1>5, <2>2 DEF Initialize
    <3>3. checkpoint.set
      BY <1>5, <2>2 DEF Initialize, Inv, Copies
    <3>4. QED
      BY <1>5, <2>2, <3>1, <3>2, <3>3, OnePassStep DEF Initialize, Inv, Copies
  <2>3. QED
    BY <2>1, <2>2
<1>6. ASSUME NEW p \in Passes, Fetch(p) PROVE Rest'
  <2>1. PICK page \in SUBSET Remaining(passes[p].cp), last \in Sessions \cup {NoSession} :
          /\ IsPage(page, passes[p].cp) /\ IsLast(page, last)
          /\ passes' = [passes EXCEPT ![p] = FetchedPass(passes[p], page, last)]
    BY <1>2, <1>6 DEF Fetch
  <2> DEFINE got == FetchedPass(passes[p], page, last)
  <2>2. /\ got \in PassType /\ got.now = passes[p].now /\ got.cp = passes[p].cp
        /\ got.pc = "fetched" /\ got.fresh = passes[p].fresh
    <3>1. got \in PassType
      BY <1>2, <2>1, FetchedType DEF Remaining
    <3>2. QED
      BY <1>2, <3>1 DEF FetchedPass, PassType
  <2>3. got.fresh => PageComplete(got)
    BY <1>2, <2>1, <2>2, FetchedPageComplete DEF Inv, Copies
  <2>4. QED
    BY <1>6, <2>1, <2>2, <2>3, OnePassStep DEF Fetch, Inv, Copies
<1>7. ASSUME NEW p \in Passes, Commit(p) PROVE Rest'
  BY <1>7, PageStep, ExhaustingStep
<1>8. ASSUME NEW p \in Passes, Stale(p) \/ Stop(p) PROVE Rest'
  <2>1. IdlePass \in PassType /\ IdlePass.pc = "idle" /\ ~IdlePass.fresh /\ IdlePass.now = 0
    BY PassRecords DEF IdlePass
  <2>2. 0 <= now
    BY DiscoveryAssumption DEF Inv, TypeOK, DiscoveryAssumption
  <2>3. QED
    BY <1>8, <2>1, <2>2, OnePassStep DEF Stale, Stop
<1>9. ASSUME NEW s \in Sessions, Create(s) \/ CompleteSession(s) \/ Webhook(s) PROVE Rest'
  <2>1. CASE Create(s)
    BY <1>1, <1>2, <2>1, OutsideStep DEF Create, Inv, TypeOK
  <2>2. CASE CompleteSession(s)
    BY <1>1, <1>2, <2>2, OutsideStep DEF CompleteSession, Inv, TypeOK
  <2>3. CASE Webhook(s)
    BY <1>1, <1>2, <2>3, OutsideStep DEF Webhook, stripe
  <2>4. QED
    BY <1>9, <2>1, <2>2, <2>3
<1>10. ASSUME Tick PROVE Rest'
  <2>1. now <= now' /\ UNCHANGED <<status, created, completedAt, recorded, checkpoint, passes, origin>>
    BY <1>2, <1>10 DEF Tick, stripe
  <2>2. QED
    BY <1>1, <2>1, OutsideStep
<1>11. ASSUME UNCHANGED vars PROVE Rest'
  <2>1. now <= now' /\ UNCHANGED <<status, created, completedAt, recorded, checkpoint, passes, origin>>
    BY <1>2, <1>11 DEF vars, stripe
  <2>2. QED
    BY <1>1, <2>1, OutsideStep
<1>12. QED
  BY <1>1, <1>3, <1>4, <1>5, <1>6, <1>7, <1>8, <1>9, <1>10, <1>11 DEF Next, Work, Inv

(* The invariant holds throughout.                                         *)
LEMMA InvHolds == Spec => []Inv
<1>1. Init => Inv
  <2> SUFFICES ASSUME Init PROVE Inv
    OBVIOUS
  <2>1. TypeOK
    BY PassRecords, DiscoveryAssumption DEF Init, TypeOK, Unset, DiscoveryAssumption
  <2>2. checkpoint.set = FALSE
    BY DEF Init, Unset
  <2>3. \A p \in Passes : passes[p].pc = "idle" /\ ~passes[p].fresh /\ passes[p].now = 0 /\ now = 0
    BY DEF Init, IdlePass
  <2>4. QED
    BY <2>1, <2>2, <2>3 DEF Inv, Ranges, Copies, Scanned, Pages,
       TimelySessionsAreRecorded, RolledForward, ExhaustedReportIsTrue
<1>2. QED
  BY <1>1, InvStep, PTL DEF Spec

(* The state is always well typed, and the range a commit writes is never  *)
(* one the repository refuses.                                             *)
THEOREM TypeCorrect == Spec => []TypeOK
<1>1. Inv => TypeOK
  BY DEF Inv
<1>2. QED
  BY <1>1, InvHolds, PTL

(* No timely session is skipped: once the scan has rolled forward, every   *)
(* session stamped and completed before the end of the exhausted ranges    *)
(* has a claim.                                                            *)
THEOREM NoTimelySessionIsSkipped == Spec => []TimelySessionsAreRecorded
<1>1. Inv => TimelySessionsAreRecorded
  BY DEF Inv
<1>2. QED
  BY <1>1, InvHolds, PTL

(* An invocation that reports its range exhausted has missed no timely     *)
(* session stamped and completed before it began.                          *)
THEOREM ExhaustedReportsHold == Spec => []ExhaustedReportIsTrue
<1>1. Inv => ExhaustedReportIsTrue
  BY DEF Inv
<1>2. QED
  BY <1>1, InvHolds, PTL
=============================================================================
