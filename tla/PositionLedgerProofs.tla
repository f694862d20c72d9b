------------------------ MODULE PositionLedgerProofs ------------------------
(***************************************************************************)
(* Theorems about PositionLedger, for any contributions, drafts, numbers   *)
(* of snapshots and restarts: its type invariant, its safety invariants,   *)
(* the action properties that rest on them and the refinement of           *)
(* PositionPromise.                                                        *)
(***************************************************************************)
EXTENDS PositionLedger, TLAPS

Statuses == {"absent", "pending", "skipped", "applied", "reconciled"}

-----------------------------------------------------------------------------
(* Type correctness. *)

LEMMA IncludedType ==
  ASSUME TypeOK, NEW all \in BOOLEAN
  PROVE  Included(all) \in [Items -> Statuses]
  BY DEF Included, TypeOK, Statuses

LEMMA MaintainCycleType ==
  ASSUME activeCycle \in Nat, lastCycle \in Nat, NEW positive \in BOOLEAN,
         MaintainCycle(positive)
  PROVE  activeCycle' \in Nat /\ lastCycle' \in Nat
<1>1. CASE ~positive
  BY <1>1 DEF MaintainCycle
<1>2. CASE positive /\ activeCycle = 0
  BY <1>2 DEF MaintainCycle
<1>3. CASE positive /\ activeCycle # 0
  BY <1>3 DEF MaintainCycle
<1> QED
  BY <1>1, <1>2, <1>3

(* Whatever snapshot replaces the position, the cycle stays well typed.    *)
LEMMA ReplaceType ==
  ASSUME TypeOK, NEW s, s.seen \in SUBSET Items, s.units \in BOOLEAN, Replace(s)
  PROVE  /\ position' \in {"none", "zero", "positive"}
         /\ estimated' \in BOOLEAN
         /\ positionSync' \in BOOLEAN
         /\ activeCycle' \in Nat
         /\ lastCycle' \in Nat
         /\ baseline' \in SUBSET Items
         /\ added' \in SUBSET Estimates
         /\ late' \in SUBSET Items
<1>1. lastCycle \in Nat /\ activeCycle \in Nat
  BY DEF TypeOK
<1>2. activeCycle' \in Nat /\ lastCycle' \in Nat
  BY <1>1, MaintainCycleType DEF Replace
<1> QED
  BY <1>2 DEF Replace

LEMMA ShownType ==
  ASSUME TypeOK
  PROVE  Shown.seen \in SUBSET Items /\ Shown.units \in BOOLEAN
  BY DEF Shown, TypeOK

LEMMA DraftType ==
  ASSUME TypeOK, NEW k \in Tokens, drafts[k] # NoDraft
  PROVE  drafts[k] \in Drafts
  BY DEF TypeOK

LEMMA InitTypeOK == Init => TypeOK
<1> SUFFICES ASSUME Init
             PROVE  TypeOK
  OBVIOUS
<1>1. syncs \in 0..MaxSyncs
  BY LedgerAssumption DEF LedgerAssumption, Init
<1>2. status \in [Items -> Statuses]
  BY DEF Init, Statuses
<1>3. drafts \in [Tokens -> Drafts \cup {NoDraft}]
  BY DEF Init
<1>4. /\ settlements \in SUBSET Manual /\ gainEvents \in SUBSET Nat
      /\ queue \in SUBSET Estimates /\ elapsed \in SUBSET Estimates
      /\ settled \in SUBSET Items
      /\ baseline \in SUBSET Items /\ added \in SUBSET Estimates
      /\ late \in SUBSET Items
  BY DEF Init
<1>5. activeCycle \in Nat /\ lastCycle \in Nat
  BY DEF Init
<1>6. /\ hasFee \in BOOLEAN /\ settingsSync \in BOOLEAN /\ positionSync \in BOOLEAN
      /\ estimated \in BOOLEAN /\ holding \in BOOLEAN
      /\ position \in {"none", "zero", "positive"}
      /\ job \in {"idle", "dca", "manual"}
  BY DEF Init
<1> QED
  BY <1>1, <1>2, <1>3, <1>4, <1>5, <1>6 DEF TypeOK, Statuses

LEMMA PlatformTypeOK ==
  ASSUME TypeOK,
         \/ \E i \in Items : Settle(i)
         \/ Redeem
         \/ \E i \in Estimates : NavPublished(i)
  PROVE  TypeOK'
<1> USE DEF TypeOK, dbVars, jobVars, ghostVars
<1>1. CASE \E i \in Items : Settle(i)
  BY <1>1 DEF Settle
<1>2. CASE Redeem
  BY <1>2 DEF Redeem
<1>3. CASE \E i \in Estimates : NavPublished(i)
  BY <1>3 DEF NavPublished
<1> QED
  BY <1>1, <1>2, <1>3

LEMMA RecordingTypeOK ==
  ASSUME TypeOK,
         \/ SetFundFee
         \/ \E i \in Dca, skipped \in BOOLEAN : CreateOccurrence(i, skipped)
         \/ \E i \in Manual : RecordEstimate(i)
         \/ \E i \in Unestimated : RecordUnestimated(i)
         \/ \E i \in Unestimated : RecordIncluded(i)
         \/ \E i \in Dca : DcaSkip(i)
  PROVE  TypeOK'
<1> USE DEF TypeOK, jobVars, platformVars, ghostVars
<1>1. CASE SetFundFee
  BY <1>1 DEF SetFundFee
<1>2. CASE \E i \in Dca, skipped \in BOOLEAN : CreateOccurrence(i, skipped)
  BY <1>2 DEF CreateOccurrence, Record
<1>3. CASE \E i \in Manual : RecordEstimate(i)
  BY <1>3 DEF RecordEstimate, Record
<1>4. CASE \E i \in Unestimated : RecordUnestimated(i)
  BY <1>4 DEF RecordUnestimated, Record
<1>5. CASE \E i \in Unestimated : RecordIncluded(i)
  BY <1>5 DEF RecordIncluded, Record
<1>6. CASE \E i \in Dca : DcaSkip(i)
  BY <1>6 DEF DcaSkip
<1> QED
  BY <1>1, <1>2, <1>3, <1>4, <1>5, <1>6

LEMMA SyncPositionTypeOK ==
  ASSUME TypeOK, NEW k \in Tokens, SyncPosition(k)
  PROVE  TypeOK'
<1> USE DEF jobVars, platformVars, ghostVars
<1>1. syncs' \in 0..MaxSyncs
  BY LedgerAssumption DEF LedgerAssumption, SyncPosition, TypeOK
<1>2. CASE Pending = {}
  <2>1. Replace(Shown) /\ settingsSync' = FALSE /\ drafts' = drafts
    BY <1>2 DEF SyncPosition
  <2> QED
    BY <1>1, <2>1, ShownType, ReplaceType DEF SyncPosition, TypeOK
<1>3. CASE Pending # {}
  <2>1. [keys |-> Pending, seen |-> settled, units |-> holding,
         completed |-> FALSE] \in Drafts
    BY DEF Drafts, Pending, TypeOK
  <2>2. drafts' \in [Tokens -> Drafts \cup {NoDraft}]
    BY <1>3, <2>1 DEF SyncPosition, TypeOK
  <2> QED
    BY <1>1, <1>3, <2>2 DEF SyncPosition, TypeOK
<1> QED
  BY <1>2, <1>3

LEMMA ReconcileTypeOK ==
  ASSUME TypeOK, NEW k \in Tokens, NEW all \in BOOLEAN, Reconcile(k, all)
  PROVE  TypeOK'
<1> USE DEF jobVars, platformVars
<1>1. drafts[k] \in Drafts
  BY DraftType DEF Reconcile
<1>2. Replace(drafts[k]) /\ drafts[k].seen \in SUBSET Items /\ drafts[k].units \in BOOLEAN
  BY <1>1 DEF Drafts, Reconcile
<1>3. status' \in [Items -> Statuses]
  BY IncludedType DEF Reconcile
<1>4. settingsSync' \in BOOLEAN
  BY DEF Reconcile, SyncStillRequired
<1>5. drafts' \in [Tokens -> Drafts \cup {NoDraft}]
  BY <1>1 DEF Reconcile, TypeOK, Drafts
<1> QED
  BY <1>2, <1>3, <1>4, <1>5, ReplaceType DEF Reconcile, TypeOK, Statuses

LEMMA CloseTypeOK ==
  ASSUME TypeOK, NEW c, Close(c)
  PROVE  TypeOK'
<1> USE DEF jobVars, platformVars
<1>1. syncs' \in 0..MaxSyncs
  BY LedgerAssumption DEF LedgerAssumption, Close, TypeOK
<1> QED
  BY <1>1, ShownType, ReplaceType DEF Close, TypeOK

LEMMA JobTypeOK ==
  ASSUME TypeOK,
         \/ \E k \in Tokens : DropDraft(k)
         \/ StartNavJob
         \/ ListEstimates
         \/ \E i \in Estimates : PassOver(i)
         \/ \E i \in Dca : HolidaySkip(i)
         \/ \E reached \in BOOLEAN : EndNavJob(reached)
         \/ Crash
  PROVE  TypeOK'
<1> USE DEF TypeOK, dbVars, jobVars, platformVars, ghostVars
<1>1. CASE \E k \in Tokens : DropDraft(k)
  BY <1>1 DEF DropDraft
<1>2. CASE StartNavJob
  BY <1>2 DEF StartNavJob, Estimates
<1>3. CASE ListEstimates
  BY <1>3 DEF ListEstimates, Estimates
<1>4. CASE \E i \in Estimates : PassOver(i)
  BY <1>4 DEF PassOver
<1>5. CASE \E i \in Dca : HolidaySkip(i)
  <2>1. status' \in [Items -> Statuses]
    BY <1>5 DEF HolidaySkip, Statuses
  <2> QED
    BY <1>5, <2>1 DEF HolidaySkip, Statuses
<1>6. CASE \E reached \in BOOLEAN : EndNavJob(reached)
  BY <1>6 DEF EndNavJob
<1>7. CASE Crash
  BY <1>7, LedgerAssumption DEF LedgerAssumption, Crash
<1> QED
  BY <1>1, <1>2, <1>3, <1>4, <1>5, <1>6, <1>7

LEMMA ApplyTypeOK ==
  ASSUME TypeOK, NEW i \in Estimates, Apply(i)
  PROVE  TypeOK'
<1>1. activeCycle' \in Nat /\ lastCycle' \in Nat
  BY MaintainCycleType DEF Apply, TypeOK
<1>2. status' \in [Items -> Statuses]
  BY DEF Apply, TypeOK, Statuses
<1> QED
  BY <1>1, <1>2 DEF Apply, TypeOK, Statuses, platformVars

LEMMA NextTypeOK == TypeOK /\ [Next]_vars => TypeOK'
<1> SUFFICES ASSUME TypeOK, [Next]_vars
             PROVE  TypeOK'
  OBVIOUS
<1>1. CASE UNCHANGED vars
  BY <1>1 DEF TypeOK, vars, dbVars, jobVars, platformVars, ghostVars
<1>2. CASE Next
  BY <1>2, PlatformTypeOK, RecordingTypeOK, SyncPositionTypeOK, ReconcileTypeOK,
     CloseTypeOK, JobTypeOK, ApplyTypeOK
  DEF Next
<1> QED
  BY <1>1, <1>2

(***************************************************************************)
(* Every reachable state of the ledger is well typed, whatever the number  *)
(* of contributions, drafts, snapshots and restarts.                       *)
(***************************************************************************)
THEOREM TypeCorrect == Spec => []TypeOK
  BY InitTypeOK, NextTypeOK, PTL DEF Spec

-----------------------------------------------------------------------------
(* Nothing is counted twice. *)

LEMMA InitBooks == Init => BooksInStep
  BY DEF Init, BooksInStep, NoDoubleCount

(* Items may change their status as long as none becomes pending and no    *)
(* applied one changes.                                                    *)
LEMMA OnwardBooks ==
  ASSUME TypeOK, BooksInStep,
         UNCHANGED <<baseline, added, late>>,
         \A i \in Items :
           /\ status'[i] = "pending" => status[i] = "pending"
           /\ status[i] = "applied" => status'[i] = "applied"
  PROVE  BooksInStep'
<1>1. added \subseteq Items /\ baseline \subseteq Items
  BY DEF TypeOK, Items
<1> QED
  BY <1>1 DEF BooksInStep, NoDoubleCount

(* What is recorded although the snapshot holds it is late. *)
LEMMA RecordBooks ==
  ASSUME TypeOK, BooksInStep, NEW i \in Items, NEW st \in Statuses, Record(i, st)
  PROVE  BooksInStep'
<1>1. \A j \in Items : status'[j] = IF j = i THEN st ELSE status[j]
  BY DEF Record, TypeOK
<1>2. late' = late \cup ({i} \cap baseline) /\ baseline' = baseline /\ added' = added
  BY DEF Record
<1>3. i \notin added
  BY DEF Record, BooksInStep
<1>4. added \subseteq Items /\ Estimates \subseteq Items
  BY DEF TypeOK, Items
<1> QED
  BY <1>1, <1>2, <1>3, <1>4 DEF BooksInStep, NoDoubleCount

LEMMA RecordingBooks ==
  ASSUME TypeOK, BooksInStep,
         \/ \E i \in Dca, skipped \in BOOLEAN : CreateOccurrence(i, skipped)
         \/ \E i \in Manual : RecordEstimate(i)
         \/ \E i \in Unestimated : RecordUnestimated(i)
         \/ \E i \in Unestimated : RecordIncluded(i)
  PROVE  BooksInStep'
<1>1. PICK i \in Items, st \in Statuses : Record(i, st)
  BY DEF CreateOccurrence, RecordEstimate, RecordUnestimated, RecordIncluded, Items,
         Estimates, Statuses
<1> QED
  BY <1>1, RecordBooks

LEMMA SkippingBooks ==
  ASSUME TypeOK, BooksInStep,
         (\E i \in Dca : DcaSkip(i)) \/ (\E i \in Dca : HolidaySkip(i))
  PROVE  BooksInStep'
<1>1. \A j \in Items : status'[j] = status[j]
                       \/ (status[j] = "pending" /\ status'[j] = "skipped")
  BY DEF DcaSkip, HolidaySkip, Skippable, TypeOK
<1>2. UNCHANGED <<baseline, added, late>>
  BY DEF DcaSkip, HolidaySkip, ghostVars
<1> QED
  BY <1>1, <1>2, OnwardBooks

(* A snapshot that replaces the position when nothing waits for it.        *)
LEMMA ShownBooks ==
  ASSUME TypeOK, BooksInStep, Pending = {}, Replace(Shown), UNCHANGED status
  PROVE  BooksInStep'
<1>1. added' = {}
  BY DEF Replace
<1>2. \A i \in Estimates : status[i] # "pending"
  BY DEF Pending, Items
<1> QED
  BY <1>1, <1>2 DEF BooksInStep, NoDoubleCount

LEMMA SyncPositionBooks ==
  ASSUME TypeOK, BooksInStep, NEW k \in Tokens, SyncPosition(k)
  PROVE  BooksInStep'
<1>1. CASE Pending = {}
  BY <1>1, ShownBooks DEF SyncPosition
<1>2. CASE Pending # {}
  BY <1>2, OnwardBooks DEF SyncPosition, ghostVars
<1> QED
  BY <1>1, <1>2

(* The answer to a draft: what the snapshot includes no longer waits, for  *)
(* the pending set is the one the user judged.                             *)
LEMMA ReconcileBooks ==
  ASSUME TypeOK, BooksInStep, NEW k \in Tokens, NEW all \in BOOLEAN, Reconcile(k, all)
  PROVE  BooksInStep'
<1>1. baseline' = drafts[k].seen /\ added' = {}
  BY DEF Reconcile, Replace
<1>2. \A i \in Items : status'[i] = "pending" => status[i] = "pending" /\ ~all
  BY DEF Reconcile, Included
<1>3. \A i \in baseline' \cap Estimates : status'[i] # "pending"
  <2> SUFFICES ASSUME NEW i \in drafts[k].seen, i \in Estimates, status'[i] = "pending"
               PROVE  FALSE
    BY <1>1
  <2>1. i \in Pending /\ ~all
    BY <1>2 DEF Pending, Items
  <2>2. drafts[k].keys = Pending /\ drafts[k].keys \cap drafts[k].seen = {}
    BY <2>1 DEF Reconcile, StillPending, Answers
  <2> QED
    BY <2>1, <2>2
<1> QED
  BY <1>1, <1>3 DEF BooksInStep, NoDoubleCount

LEMMA ApplyBooks ==
  ASSUME TypeOK, BooksInStep, NEW i \in Estimates, Apply(i)
  PROVE  BooksInStep'
<1>1. i \in baseline => i \in late
  BY DEF Apply, Applicable, BooksInStep, NoDoubleCount
<1>2. added' = added \cup {i} /\ UNCHANGED <<baseline, late>>
  BY DEF Apply
<1>3. added \subseteq Items /\ i \in Items
  BY DEF TypeOK, Items
<1>4. \A j \in Items : status'[j] = IF j = i THEN "applied" ELSE status[j]
  BY DEF Apply, TypeOK
<1> QED
  BY <1>1, <1>2, <1>3, <1>4 DEF BooksInStep, NoDoubleCount, Items

LEMMA QuietBooks ==
  ASSUME TypeOK, BooksInStep,
         \/ \E i \in Items : Settle(i)
         \/ Redeem
         \/ \E i \in Estimates : NavPublished(i)
         \/ SetFundFee
         \/ \E k \in Tokens : DropDraft(k)
         \/ StartNavJob
         \/ ListEstimates
         \/ \E i \in Estimates : PassOver(i)
         \/ \E reached \in BOOLEAN : EndNavJob(reached)
         \/ Crash
         \/ UNCHANGED vars
  PROVE  BooksInStep'
<1>1. UNCHANGED <<status, baseline, added, late>>
  BY DEF Settle, Redeem, NavPublished, SetFundFee, DropDraft, StartNavJob,
         ListEstimates, PassOver, EndNavJob, Crash, vars, dbVars, ghostVars
<1> QED
  BY <1>1, OnwardBooks

LEMMA NextBooks == TypeOK /\ BooksInStep /\ [Next]_vars => BooksInStep'
<1> SUFFICES ASSUME TypeOK, BooksInStep, [Next]_vars
             PROVE  BooksInStep'
  OBVIOUS
<1>1. CASE \E c \in 1..(MaxSyncs + 1) : Close(c)
  BY <1>1, ShownBooks DEF Close
<1>2. CASE [Next]_vars /\ ~(\E c \in 1..(MaxSyncs + 1) : Close(c))
  BY <1>2, RecordingBooks, SkippingBooks, SyncPositionBooks, ReconcileBooks,
     ApplyBooks, QuietBooks
  DEF Next
<1> QED
  BY <1>1, <1>2

(***************************************************************************)
(* What the last snapshot accounted for is neither added on top of it nor  *)
(* waiting to be, whatever mix of snapshots, answers, skips, NAV jobs and  *)
(* restarts led to the position, except for what was recorded only after   *)
(* that snapshot was adopted.                                              *)
(***************************************************************************)
THEOREM NothingCountedTwice == Spec => []NoDoubleCount
<1>1. BooksInStep => NoDoubleCount
  BY DEF BooksInStep
<1> QED
  BY <1>1, TypeCorrect, InitBooks, NextBooks, PTL DEF Spec

(* If every estimate is recorded before a snapshot that holds it is        *)
(* adopted, none is late.                                                  *)
LEMMA InTimeStep ==
  ASSUME TypeOK, RecordedInTime, NoneLate, [Next]_vars
  PROVE  NoneLate'
<1>1. ASSUME NEW i \in Items, NEW st, Record(i, st)
      PROVE  NoneLate'
  BY <1>1 DEF Record, RecordedInTime, NoneLate
<1>2. CASE late' = {} \/ late' = late
  BY <1>2 DEF NoneLate
<1>3. CASE \/ \E i \in Dca, skipped \in BOOLEAN : CreateOccurrence(i, skipped)
           \/ \E i \in Manual : RecordEstimate(i)
           \/ \E i \in Unestimated : RecordUnestimated(i)
           \/ \E i \in Unestimated : RecordIncluded(i)
  BY <1>1, <1>3 DEF CreateOccurrence, RecordEstimate, RecordUnestimated,
                    RecordIncluded, Items, Estimates
<1>4. ASSUME \/ \E i \in Items : Settle(i)
             \/ Redeem
             \/ \E i \in Estimates : NavPublished(i)
             \/ SetFundFee
             \/ \E i \in Dca : DcaSkip(i)
             \/ \E k \in Tokens : SyncPosition(k)
             \/ \E k \in Tokens : DropDraft(k)
             \/ \E k \in Tokens, all \in BOOLEAN : Reconcile(k, all)
             \/ \E c \in 1..(MaxSyncs + 1) : Close(c)
             \/ StartNavJob
             \/ ListEstimates
             \/ \E i \in Estimates : Apply(i)
             \/ \E i \in Estimates : PassOver(i)
             \/ \E i \in Dca : HolidaySkip(i)
             \/ \E reached \in BOOLEAN : EndNavJob(reached)
             \/ Crash
             \/ UNCHANGED vars
      PROVE  late' = {} \/ late' = late
  BY <1>4
  DEF Settle, Redeem, NavPublished, SetFundFee, DcaSkip, SyncPosition, DropDraft,
      Reconcile, Close, Replace, StartNavJob, ListEstimates, Apply, PassOver,
      HolidaySkip, EndNavJob, Crash, vars, ghostVars
<1> QED
  BY <1>2, <1>3, <1>4 DEF Next

(***************************************************************************)
(* As long as every estimate is recorded before a snapshot that holds it   *)
(* is adopted, nothing is counted twice without exception.  The code does  *)
(* not ensure this for occurrences of dates that failed or were missed.    *)
(***************************************************************************)
THEOREM CountedOnceInTime == Spec /\ []RecordedInTime => []CountedOnce
<1>1. Init => NoneLate
  BY DEF Init, NoneLate
<1>2. NoDoubleCount /\ TypeOK /\ NoneLate => CountedOnce
  BY DEF NoDoubleCount, TypeOK, NoneLate, CountedOnce
<1> QED
  BY <1>1, <1>2, InTimeStep, TypeCorrect, NothingCountedTwice, PTL DEF Spec

-----------------------------------------------------------------------------
(* The marks that a snapshot is required. *)

LEMMA InitSyncMarks == Init => SyncRequiredWhileUnresolved
  BY DEF Init, SyncRequiredWhileUnresolved, Unresolved, Items

(* Only additions without estimate matter to the marks.                    *)
LEMMA FrameSyncMarks ==
  ASSUME SyncRequiredWhileUnresolved,
         UNCHANGED <<settingsSync, positionSync>>,
         \A i \in Unestimated : status'[i] = "pending" <=> status[i] = "pending"
  PROVE  SyncRequiredWhileUnresolved'
  BY DEF SyncRequiredWhileUnresolved, Unresolved

LEMMA ShownSyncMarks ==
  ASSUME Pending = {}, Replace(Shown), settingsSync' = FALSE, UNCHANGED status
  PROVE  SyncRequiredWhileUnresolved'
  BY DEF SyncRequiredWhileUnresolved, Unresolved, Pending, Replace, Items

LEMMA NextSyncMarks ==
  TypeOK /\ SyncRequiredWhileUnresolved /\ [Next]_vars => SyncRequiredWhileUnresolved'
<1> SUFFICES ASSUME TypeOK, SyncRequiredWhileUnresolved, [Next]_vars
             PROVE  SyncRequiredWhileUnresolved'
  OBVIOUS
<1>a. /\ Dca \subseteq Items /\ Manual \subseteq Items /\ Unestimated \subseteq Items
      /\ Estimates \subseteq Items /\ Estimates \cap Unestimated = {}
      /\ Dca \cap Unestimated = {} /\ Manual \cap Unestimated = {}
  BY LedgerAssumption DEF LedgerAssumption, Items, Estimates
<1>1. CASE \E i \in Dca, skipped \in BOOLEAN : CreateOccurrence(i, skipped)
  BY <1>1, <1>a, FrameSyncMarks DEF CreateOccurrence, Record, TypeOK
<1>2. CASE \E i \in Manual : RecordEstimate(i)
  BY <1>2, <1>a, FrameSyncMarks DEF RecordEstimate, Record, TypeOK
<1>3. CASE \E i \in Unestimated : RecordUnestimated(i)
  <2>1. PICK i \in Unestimated : RecordUnestimated(i)
    BY <1>3
  <2>2. status'[i] = "pending" /\ settingsSync'
    BY <2>1, <1>a DEF RecordUnestimated, Record, TypeOK
  <2> QED
    BY <2>2 DEF SyncRequiredWhileUnresolved, Unresolved
<1>4. CASE \E i \in Unestimated : RecordIncluded(i)
  BY <1>4, <1>a, FrameSyncMarks DEF RecordIncluded, Record, TypeOK
<1>5. CASE \E i \in Dca : DcaSkip(i)
  BY <1>5, <1>a, FrameSyncMarks DEF DcaSkip, TypeOK
<1>6. CASE \E i \in Dca : HolidaySkip(i)
  <2>1. PICK i \in Dca : HolidaySkip(i)
    BY <1>6
  <2>2. \A j \in Unestimated : status'[j] = status[j]
    BY <2>1, <1>a DEF HolidaySkip, TypeOK
  <2> QED
    BY <2>1, <2>2, FrameSyncMarks DEF HolidaySkip
<1>7. CASE \E i \in Estimates : Apply(i)
  BY <1>7, <1>a, FrameSyncMarks DEF Apply, TypeOK
<1>8. CASE \E k \in Tokens : SyncPosition(k)
  <2>1. PICK k \in Tokens : SyncPosition(k)
    BY <1>8
  <2>2. CASE Pending = {}
    BY <2>1, <2>2, ShownSyncMarks DEF SyncPosition
  <2>3. CASE Pending # {}
    BY <2>1, <2>3, FrameSyncMarks DEF SyncPosition
  <2> QED
    BY <2>2, <2>3
<1>9. CASE \E k \in Tokens, all \in BOOLEAN : Reconcile(k, all)
  BY <1>9 DEF Reconcile, Replace, SyncStillRequired, SyncRequiredWhileUnresolved,
              Unresolved
<1>10. CASE \E c \in 1..(MaxSyncs + 1) : Close(c)
  BY <1>10, ShownSyncMarks DEF Close
<1>11. CASE UNCHANGED <<status, settingsSync, positionSync>>
  BY <1>11, FrameSyncMarks
<1>12. ASSUME \/ \E i \in Items : Settle(i)
              \/ Redeem
              \/ \E i \in Estimates : NavPublished(i)
              \/ SetFundFee
              \/ \E k \in Tokens : DropDraft(k)
              \/ StartNavJob
              \/ ListEstimates
              \/ \E i \in Estimates : PassOver(i)
              \/ \E reached \in BOOLEAN : EndNavJob(reached)
              \/ Crash
              \/ UNCHANGED vars
       PROVE  UNCHANGED <<status, settingsSync, positionSync>>
  BY <1>12
  DEF Settle, Redeem, NavPublished, SetFundFee, DropDraft, StartNavJob,
      ListEstimates, PassOver, EndNavJob, Crash, vars, dbVars
<1> QED
  BY <1>1, <1>2, <1>3, <1>4, <1>5, <1>6, <1>7, <1>8, <1>9, <1>10, <1>11, <1>12
  DEF Next

(***************************************************************************)
(* The fund asks for a snapshot exactly while an addition of unknown units *)
(* is not covered by one.                                                  *)
(***************************************************************************)
THEOREM SyncMarksExact == Spec => []SyncRequiredWhileUnresolved
  BY TypeCorrect, InitSyncMarks, NextSyncMarks, PTL DEF Spec

-----------------------------------------------------------------------------
(* The position cycle. *)

LEMMA MaintainCycleOpens ==
  ASSUME lastCycle \in Nat, NEW positive \in BOOLEAN, MaintainCycle(positive)
  PROVE  activeCycle' # 0 <=> positive
<1>1. CASE ~positive
  BY <1>1 DEF MaintainCycle
<1>2. CASE positive /\ activeCycle = 0
  BY <1>2 DEF MaintainCycle
<1>3. CASE positive /\ activeCycle # 0
  BY <1>3 DEF MaintainCycle
<1> QED
  BY <1>1, <1>2, <1>3

LEMMA ReplaceCycle ==
  ASSUME TypeOK, NEW s, s.units \in BOOLEAN, Replace(s)
  PROVE  CycleMatchesUnits'
  BY MaintainCycleOpens DEF Replace, CycleMatchesUnits, TypeOK

LEMMA NextCycle == TypeOK /\ CycleMatchesUnits /\ [Next]_vars => CycleMatchesUnits'
<1> SUFFICES ASSUME TypeOK, CycleMatchesUnits, [Next]_vars
             PROVE  CycleMatchesUnits'
  OBVIOUS
<1>1. CASE UNCHANGED <<position, activeCycle>>
  BY <1>1 DEF CycleMatchesUnits
<1>2. ASSUME NEW k \in Tokens, SyncPosition(k)
      PROVE  CycleMatchesUnits'
  BY <1>1, <1>2, ShownType, ReplaceCycle DEF SyncPosition
<1>3. ASSUME NEW k \in Tokens, NEW all \in BOOLEAN, Reconcile(k, all)
      PROVE  CycleMatchesUnits'
  <2>1. drafts[k] \in Drafts
    BY <1>3, DraftType DEF Reconcile
  <2> QED
    BY <1>3, <2>1, ReplaceCycle DEF Reconcile, Drafts
<1>4. ASSUME NEW c, Close(c)
      PROVE  CycleMatchesUnits'
  BY <1>4, ShownType, ReplaceCycle DEF Close
<1>5. ASSUME NEW i \in Estimates, Apply(i)
      PROVE  CycleMatchesUnits'
  BY <1>5, MaintainCycleOpens DEF Apply, CycleMatchesUnits, TypeOK
<1>6. ASSUME \/ \E i \in Items : Settle(i)
             \/ Redeem
             \/ \E i \in Estimates : NavPublished(i)
             \/ SetFundFee
             \/ \E i \in Dca, skipped \in BOOLEAN : CreateOccurrence(i, skipped)
             \/ \E i \in Manual : RecordEstimate(i)
             \/ \E i \in Unestimated : RecordUnestimated(i)
             \/ \E i \in Unestimated : RecordIncluded(i)
             \/ \E i \in Dca : DcaSkip(i)
             \/ \E k \in Tokens : DropDraft(k)
             \/ StartNavJob
             \/ ListEstimates
             \/ \E i \in Estimates : PassOver(i)
             \/ \E i \in Dca : HolidaySkip(i)
             \/ \E reached \in BOOLEAN : EndNavJob(reached)
             \/ Crash
             \/ UNCHANGED vars
      PROVE  UNCHANGED <<position, activeCycle>>
  BY <1>6
  DEF Settle, Redeem, NavPublished, SetFundFee, CreateOccurrence, RecordEstimate,
      RecordUnestimated, RecordIncluded, Record, DcaSkip, DropDraft, StartNavJob,
      ListEstimates, PassOver, HolidaySkip, EndNavJob, Crash, vars, dbVars
<1> QED
  BY <1>1, <1>2, <1>3, <1>4, <1>5, <1>6 DEF Next

(***************************************************************************)
(* A position cycle is open exactly while the tracked position has units.  *)
(***************************************************************************)
THEOREM CyclesFollowUnits == Spec => []CycleMatchesUnits
<1>1. Init => CycleMatchesUnits
  BY DEF Init, CycleMatchesUnits
<1> QED
  BY <1>1, TypeCorrect, NextCycle, PTL DEF Spec

-----------------------------------------------------------------------------
(* What a step may do to a contribution's status. *)

(* The steps that leave every status alone. *)
LEMMA QuietStatus ==
  ASSUME \/ \E i \in Items : Settle(i)
         \/ Redeem
         \/ \E i \in Estimates : NavPublished(i)
         \/ SetFundFee
         \/ \E k \in Tokens : SyncPosition(k)
         \/ \E k \in Tokens : DropDraft(k)
         \/ \E c \in 1..(MaxSyncs + 1) : Close(c)
         \/ StartNavJob
         \/ ListEstimates
         \/ \E i \in Estimates : PassOver(i)
         \/ \E reached \in BOOLEAN : EndNavJob(reached)
         \/ Crash
         \/ UNCHANGED vars
  PROVE  UNCHANGED status
  BY DEF Settle, Redeem, NavPublished, SetFundFee, SyncPosition, DropDraft, Close,
         StartNavJob, ListEstimates, PassOver, EndNavJob, Crash, vars, dbVars

LEMMA RecordedStatus ==
  ASSUME TypeOK,
         \/ \E i \in Dca, skipped \in BOOLEAN : CreateOccurrence(i, skipped)
         \/ \E i \in Manual : RecordEstimate(i)
         \/ \E i \in Unestimated : RecordUnestimated(i)
         \/ \E i \in Unestimated : RecordIncluded(i)
  PROVE  \A j \in Items : status'[j] = status[j]
                          \/ (status[j] = "absent" /\ status'[j] # "applied")
  BY DEF TypeOK, CreateOccurrence, RecordEstimate, RecordUnestimated, RecordIncluded,
         Record

LEMMA SkippedStatus ==
  ASSUME TypeOK,
         (\E i \in Dca : DcaSkip(i)) \/ (\E i \in Dca : HolidaySkip(i))
  PROVE  \A j \in Items : status'[j] = status[j]
                          \/ (status[j] = "pending" /\ status'[j] = "skipped")
  BY DEF TypeOK, DcaSkip, HolidaySkip, Skippable

LEMMA ReconciledStatus ==
  ASSUME TypeOK, NEW k \in Tokens, NEW all \in BOOLEAN, Reconcile(k, all)
  PROVE  \A j \in Items : status'[j] = status[j]
           \/ (status[j] = "pending" /\ status'[j] = "reconciled" /\ j \in baseline')
<1> SUFFICES ASSUME NEW j \in Items, status'[j] # status[j]
             PROVE  status[j] = "pending" /\ status'[j] = "reconciled" /\ j \in baseline'
  OBVIOUS
<1>1. all /\ status[j] = "pending" /\ status'[j] = "reconciled"
  BY DEF Reconcile, Included
<1>2. j \in Pending /\ Pending = drafts[k].keys /\ drafts[k].keys \subseteq drafts[k].seen
  BY <1>1 DEF Pending, Reconcile, StillPending, Answers
<1>3. baseline' = drafts[k].seen
  BY DEF Reconcile, Replace
<1> QED
  BY <1>1, <1>2, <1>3

LEMMA AppliedStatus ==
  ASSUME TypeOK, NEW i \in Estimates, Apply(i)
  PROVE  \A j \in Items : status'[j] = status[j]
           \/ /\ status[j] = "pending" /\ status'[j] = "applied" /\ j \in added'
              /\ position # "none" /\ ~SyncRequired
  BY DEF TypeOK, Apply, Applicable

(* Together: the only ways a status changes. *)
LEMMA StatusStep ==
  ASSUME TypeOK, [Next]_vars, NEW j \in Items
  PROVE  \/ status'[j] = status[j]
         \/ status[j] = "absent" /\ status'[j] # "applied"
         \/ status[j] = "pending" /\ status'[j] = "skipped"
         \/ status[j] = "pending" /\ status'[j] = "reconciled" /\ j \in baseline'
         \/ /\ status[j] = "pending" /\ status'[j] = "applied" /\ j \in added'
            /\ position # "none" /\ ~SyncRequired
  BY QuietStatus, RecordedStatus, SkippedStatus, ReconciledStatus, AppliedStatus
  DEF Next

(***************************************************************************)
(* A contribution that stops waiting was added, or is in the snapshot that *)
(* replaced the position, or was skipped.                                  *)
(***************************************************************************)
THEOREM ResolvedAreCounted == Spec => ResolvedIsCounted
<1>1. TypeOK /\ [Next]_vars =>
        [\A i \in Items : status[i] = "pending" =>
           CASE status'[i] = "applied"    -> i \in added'
             [] status'[i] = "reconciled" -> i \in baseline'
             [] OTHER -> status'[i] \in {"pending", "skipped"}]_vars
  <2> SUFFICES ASSUME TypeOK, [Next]_vars, NEW i \in Items, status[i] = "pending"
               PROVE  CASE status'[i] = "applied"    -> i \in added'
                        [] status'[i] = "reconciled" -> i \in baseline'
                        [] OTHER -> status'[i] \in {"pending", "skipped"}
    OBVIOUS
  <2>1. CASE status'[i] = "applied"
    BY <2>1, StatusStep
  <2>2. CASE status'[i] = "reconciled"
    BY <2>2, StatusStep
  <2>3. CASE status'[i] \notin {"applied", "reconciled"}
    BY <2>3, StatusStep
  <2> QED
    BY <2>1, <2>2, <2>3
<1> QED
  BY <1>1, TypeCorrect, PTL DEF Spec, ResolvedIsCounted

(* What was resolved once keeps its outcome. *)
THEOREM ResolvedStayResolved == Spec => ResolvedOnce
<1>1. TypeOK /\ [Next]_vars =>
        [\A i \in Items : status[i] \in {"skipped", "applied", "reconciled"} =>
           status'[i] = status[i]]_vars
  BY StatusStep
<1> QED
  BY <1>1, TypeCorrect, PTL DEF Spec, ResolvedOnce

(***************************************************************************)
(* Estimates never join a position that is missing or that lacks an        *)
(* addition of unknown units.                                              *)
(***************************************************************************)
THEOREM AppliedOnlyWhenKnown == Spec => AppliedToKnownPosition
<1>1. TypeOK /\ SyncRequiredWhileUnresolved /\ [Next]_vars =>
        [\A i \in Estimates : status[i] # "applied" /\ status'[i] = "applied" =>
           position # "none" /\ ~Unresolved]_vars
  BY StatusStep DEF SyncRequiredWhileUnresolved, SyncRequired, Items
<1> QED
  BY <1>1, TypeCorrect, SyncMarksExact, PTL DEF Spec, AppliedToKnownPosition
-----------------------------------------------------------------------------
(* The ledger implements PositionPromise. *)

(* What each status means for the contribution's fate. *)
LEMMA FateOfIs ==
  /\ FateOf["absent"] = "unknown"
  /\ FateOf["pending"] = "waiting"
  /\ FateOf["skipped"] = "skipped"
  /\ FateOf["applied"] = "counted"
  /\ FateOf["reconciled"] = "counted"
  BY DEF FateOf

LEMMA WaitingIsPending ==
  ASSUME TypeOK
  PROVE  /\ Promise!Waiting = Pending
         /\ \A i \in Items : Fate[i] = "unknown" <=> status[i] = "absent"
         /\ \A i \in Items : Fate[i] = "waiting" <=> status[i] = "pending"
<1>1. \A i \in Items : status[i] \in Statuses /\ Fate[i] = FateOf[status[i]]
  BY DEF TypeOK, Statuses, Fate
<1>2. /\ \A i \in Items : Fate[i] = "unknown" <=> status[i] = "absent"
      /\ \A i \in Items : Fate[i] = "waiting" <=> status[i] = "pending"
  BY <1>1, FateOfIs DEF Statuses
<1> QED
  BY <1>2 DEF Promise!Waiting, Pending

LEMMA SameFate ==
  ASSUME UNCHANGED status
  PROVE  Fate' = Fate
  BY DEF Fate

(* One contribution changes its status, all others keep theirs. *)
LEMMA OneFate ==
  ASSUME TypeOK, NEW i \in Items, NEW st \in Statuses,
         status' = [status EXCEPT ![i] = st]
  PROVE  Fate' = [Fate EXCEPT ![i] = FateOf[st]]
<1>1. \A j \in Items : status'[j] = IF j = i THEN st ELSE status[j]
  BY DEF TypeOK
<1>2. Fate' = [j \in Items |-> IF j = i THEN FateOf[st] ELSE Fate[j]]
  BY <1>1 DEF Fate
<1>3. Fate = [j \in Items |-> Fate[j]]
  BY DEF Fate
<1> QED
  BY <1>2, <1>3

LEMMA PositionPromiseInit == Init => Promise!Init
<1> SUFFICES ASSUME Init PROVE Promise!Init
  OBVIOUS
<1>1. Fate = [i \in Items |-> "unknown"]
  BY FateOfIs DEF Init, Fate
<1> QED
  BY <1>1 DEF Init, Promise!Init

(* A recorded contribution becomes known. *)
LEMMA RecordLearns ==
  ASSUME TypeOK, NEW i \in Items, NEW st \in {"pending", "skipped", "reconciled"},
         Record(i, st), st = "reconciled" => i \in baseline
  PROVE  Promise!Next
<1>1. Fate[i] = "unknown" /\ Fate' = [Fate EXCEPT ![i] = FateOf[st]]
  BY WaitingIsPending, OneFate DEF Record, Statuses
<1>2. /\ FateOf[st] \in {"waiting", "counted", "skipped"}
      /\ FateOf[st] = "counted" => i \in baseline
  BY FateOfIs
<1>3. Promise!Learn(i)
  BY <1>1, <1>2 DEF Promise!Learn, Record
<1> QED
  BY <1>3 DEF Promise!Next

LEMMA RecordingLearns ==
  ASSUME TypeOK,
         \/ \E i \in Dca, skipped \in BOOLEAN : CreateOccurrence(i, skipped)
         \/ \E i \in Manual : RecordEstimate(i)
         \/ \E i \in Unestimated : RecordUnestimated(i)
         \/ \E i \in Unestimated : RecordIncluded(i)
  PROVE  Promise!Next
<1>1. PICK i \in Items, st \in {"pending", "skipped", "reconciled"} :
        Record(i, st) /\ (st = "reconciled" => i \in baseline)
  BY DEF CreateOccurrence, RecordEstimate, RecordUnestimated, RecordIncluded, Items,
         Estimates
<1> QED
  BY <1>1, RecordLearns

(* A button or the holiday policy takes a waiting contribution off. *)
LEMMA SkippingSkips ==
  ASSUME TypeOK, (\E i \in Dca : DcaSkip(i)) \/ (\E i \in Dca : HolidaySkip(i))
  PROVE  Promise!Next \/ UNCHANGED <<Fate, baseline, added, late>>
<1>1. UNCHANGED <<baseline, added, late>>
  BY DEF DcaSkip, HolidaySkip, ghostVars
<1>2. PICK i \in Dca :
        \/ UNCHANGED status
        \/ status[i] = "pending" /\ status' = [status EXCEPT ![i] = "skipped"]
  <2>1. ASSUME NEW j \in Dca, status' = [status EXCEPT ![j] = @]
        PROVE  UNCHANGED status
    BY <2>1 DEF TypeOK
  <2> QED
    BY <2>1 DEF DcaSkip, HolidaySkip, Skippable
<1>3. CASE UNCHANGED status
  BY <1>1, <1>3, SameFate
<1>4. CASE status[i] = "pending" /\ status' = [status EXCEPT ![i] = "skipped"]
  <2>1. i \in Items /\ i \in Promise!Waiting
    BY <1>4, WaitingIsPending DEF Items, Estimates, Pending
  <2>2. Fate' = [Fate EXCEPT ![i] = "skipped"]
    BY <1>4, <2>1, OneFate, FateOfIs DEF Statuses
  <2>3. Promise!Skip(i)
    BY <1>1, <2>1, <2>2 DEF Promise!Skip
  <2> QED
    BY <2>1, <2>3 DEF Promise!Next
<1> QED
  BY <1>2, <1>3, <1>4

(* An estimate is applied only where it is missing: what is waiting is     *)
(* not on top of the copy, and not in it unless late, and no mark asks for *)
(* another.                                                                *)
LEMMA ApplyEstimates ==
  ASSUME TypeOK, BooksInStep, SyncRequiredWhileUnresolved,
         NEW i \in Estimates, Apply(i)
  PROVE  Promise!Next
<1>1. i \in Items /\ i \notin Unestimated
  BY LedgerAssumption DEF LedgerAssumption, Items
<1>2. i \in Pending /\ i \notin baseline \ late /\ i \notin added
  BY <1>1 DEF Apply, Applicable, Pending, BooksInStep, NoDoubleCount
<1>3. Pending \cap Unestimated = {}
  BY DEF Apply, Applicable, SyncRequired, SyncRequiredWhileUnresolved, Unresolved,
         Pending
<1>4. Fate' = [Fate EXCEPT ![i] = "counted"]
  BY <1>1, OneFate, FateOfIs DEF Apply, Statuses
<1>5. Promise!Estimate(i)
  BY <1>1, <1>2, <1>3, <1>4, WaitingIsPending DEF Promise!Estimate, Apply
<1> QED
  BY <1>1, <1>5 DEF Promise!Next

(* A copy that replaces the position while nothing waits counts nothing. *)
LEMMA ReplacingAdopts ==
  ASSUME TypeOK, NEW s, s.seen \in SUBSET Items, Replace(s), Pending = {},
         UNCHANGED status
  PROVE  Promise!Next
<1>1. Fate' = [i \in Items |-> IF Fate[i] = "waiting" /\ i \in baseline' THEN "counted"
                               ELSE Fate[i]]
  BY SameFate, WaitingIsPending DEF Pending, Fate
<1>2. Promise!Adopt
  BY <1>1 DEF Promise!Adopt, Replace
<1> QED
  BY <1>2 DEF Promise!Next

(* The answer to a draft counts exactly those waiting that its copy        *)
(* contains: all that were shown, which are all that wait, or none.        *)
LEMMA ReconcileAdopts ==
  ASSUME TypeOK, NEW k \in Tokens, NEW all \in BOOLEAN, Reconcile(k, all)
  PROVE  Promise!Next
<1>1. drafts[k].seen \in SUBSET Items
  BY DraftType DEF Reconcile, Drafts
<1>2. baseline' = drafts[k].seen /\ added' = {} /\ late' = {}
  BY DEF Reconcile, Replace
<1>3. IF all THEN Pending \subseteq baseline' ELSE Pending \cap baseline' = {}
  BY <1>2 DEF Reconcile, StillPending, Answers
<1>4. \A i \in Items : status'[i] = IF status[i] = "pending" /\ i \in baseline'
                                    THEN "reconciled" ELSE status[i]
  BY <1>3 DEF Reconcile, Included, Pending
<1>5. \A i \in Items : FateOf[status'[i]] =
        IF Fate[i] = "waiting" /\ i \in baseline' THEN "counted" ELSE Fate[i]
  BY <1>4, WaitingIsPending, FateOfIs DEF Fate
<1>6. Fate' = [i \in Items |-> IF Fate[i] = "waiting" /\ i \in baseline' THEN "counted"
                               ELSE Fate[i]]
  BY <1>5 DEF Fate
<1>7. Promise!Adopt
  BY <1>1, <1>2, <1>6 DEF Promise!Adopt
<1> QED
  BY <1>7 DEF Promise!Next

LEMMA CopiesAdopt ==
  ASSUME TypeOK,
         \/ \E k \in Tokens : SyncPosition(k)
         \/ \E k \in Tokens, all \in BOOLEAN : Reconcile(k, all)
         \/ \E c \in 1..(MaxSyncs + 1) : Close(c)
  PROVE  Promise!Next \/ UNCHANGED <<Fate, baseline, added, late>>
<1>1. CASE \E k \in Tokens : SyncPosition(k)
  <2>1. UNCHANGED status
    BY <1>1 DEF SyncPosition
  <2>2. CASE Pending = {}
    <3>1. Replace(Shown)
      BY <1>1, <2>2 DEF SyncPosition
    <3> QED
      BY <2>1, <2>2, <3>1, ShownType, ReplacingAdopts
  <2>3. CASE Pending # {}
    <3>1. UNCHANGED <<baseline, added, late>>
      BY <1>1, <2>3 DEF SyncPosition, ghostVars
    <3> QED
      BY <2>1, <3>1, SameFate
  <2> QED
    BY <2>2, <2>3
<1>2. CASE \E k \in Tokens, all \in BOOLEAN : Reconcile(k, all)
  BY <1>2, ReconcileAdopts
<1>3. CASE \E c \in 1..(MaxSyncs + 1) : Close(c)
  <2>1. Replace(Shown) /\ Pending = {} /\ UNCHANGED status
    BY <1>3 DEF Close
  <2> QED
    BY <2>1, ShownType, ReplacingAdopts
<1> QED
  BY <1>1, <1>2, <1>3

(* The platform, the calendar, dropped drafts, the NAV job's own steps and *)
(* a restart are not seen.                                                 *)
LEMMA UnseenSteps ==
  ASSUME \/ \E i \in Items : Settle(i)
         \/ Redeem
         \/ \E i \in Estimates : NavPublished(i)
         \/ SetFundFee
         \/ \E k \in Tokens : DropDraft(k)
         \/ StartNavJob
         \/ ListEstimates
         \/ \E i \in Estimates : PassOver(i)
         \/ \E reached \in BOOLEAN : EndNavJob(reached)
         \/ Crash
         \/ UNCHANGED vars
  PROVE  UNCHANGED <<Fate, baseline, added, late>>
<1>1. UNCHANGED status
  BY QuietStatus
<1>2. UNCHANGED <<baseline, added, late>>
  BY DEF Settle, Redeem, NavPublished, SetFundFee, DropDraft, StartNavJob,
         ListEstimates, PassOver, EndNavJob, Crash, vars, ghostVars
<1> QED
  BY <1>1, <1>2, SameFate

LEMMA PositionPromiseStep ==
  ASSUME TypeOK, BooksInStep, SyncRequiredWhileUnresolved, [Next]_vars
  PROVE  [Promise!Next]_(Promise!vars)
<1>1. Promise!Next \/ UNCHANGED <<Fate, baseline, added, late>>
  BY RecordingLearns, SkippingSkips, ApplyEstimates, CopiesAdopt, UnseenSteps DEF Next
<1> QED
  BY <1>1 DEF Promise!vars

(***************************************************************************)
(* The ledger implements PositionPromise: whatever drafts, answers,        *)
(* buttons, jobs and restarts do, a contribution is resolved once, an      *)
(* answer to a copied position resolves exactly the waiting contributions  *)
(* the copy contains, and estimates join only a copy that lacks nothing of *)
(* unknown units and that lacks them, or was adopted before they were      *)
(* recorded.                                                               *)
(***************************************************************************)
THEOREM ImplementsPositionPromise == Spec => KeepsPositionPromise
<1>1. Spec => []BooksInStep
  BY InitBooks, TypeCorrect, NextBooks, PTL DEF Spec
<1>2. TypeOK /\ BooksInStep /\ SyncRequiredWhileUnresolved /\ [Next]_vars
        => [Promise!Next]_(Promise!vars)
  BY PositionPromiseStep
<1> QED
  BY <1>1, <1>2, PositionPromiseInit, TypeCorrect, SyncMarksExact, PTL
  DEF Spec, KeepsPositionPromise, Promise!Spec
=============================================================================
