--------------------------- MODULE PositionLedger ---------------------------
(***************************************************************************)
(* The tracked position of one feeder fund (db.py): contributions that are *)
(* waiting for a NAV, the estimates applied from them, the snapshots the   *)
(* user copies from the sales platform (/sync_position), and the position  *)
(* cycle.  Telegram handlers run one after another; the NAV job runs beside*)
(* them under the work lock, which the handlers that record additions or   *)
(* synchronise take too, while /dca_skip and the close button do not.      *)
(*                                                                         *)
(* Units and costs are abstracted to what they were made from: the         *)
(* contributions the last snapshot accounted for (baseline) and those      *)
(* applied on top of it (added).  The platform is external: contributions  *)
(* settle there in their own time, and the user copies what it shows.      *)
(***************************************************************************)
EXTENDS Integers, FiniteSets

CONSTANTS
  Dca,          \* scheduled DCA occurrences
  Manual,       \* manual additions recorded with an estimate
  Unestimated,  \* manual additions recorded without one
  Tokens,       \* confirmation drafts of /sync_position
  NoDraft,
  MaxSyncs      \* bound on snapshots the user supplies

Estimates == Dca \cup Manual
Items     == Estimates \cup Unestimated

ASSUME LedgerAssumption ==
  /\ Dca \cap Manual = {}
  /\ Estimates \cap Unestimated = {}
  /\ MaxSyncs \in Nat

VARIABLES
  (* the database *)
  status,        \* of each contribution, or "absent"
  hasFee,        \* fund_settings.fee_mode IS NOT NULL
  settingsSync,  \* fund_settings.position_sync_required_since IS NOT NULL
  positionSync,  \* position_snapshots.position_sync_required_since, likewise
  position,      \* position_snapshots: "none", "zero" or "positive" units
  estimated,     \* position_snapshots.is_estimated
  activeCycle,   \* id of the position cycle that has not ended, or 0
  lastCycle,     \* the last id given to a position cycle
  settlements,   \* manual_add_settled alert events
  gainEvents,    \* cycles a Price-Gain reminder refers to
  (* the process *)
  drafts,        \* position_sync_drafts
  job,           \* the NAV job: "idle", "dca" or "manual"
  queue,         \* the rows it has listed and not yet handled
  (* outside *)
  elapsed,       \* contributions whose effective day is over, NAV published
  settled,       \* contributions the platform has ever shown
  holding,       \* does the platform show units?
  (* kept for the properties and the user's knowledge only *)
  baseline,      \* what the last snapshot accounted for
  added,         \* what was applied since
  late,          \* what was recorded since, when the snapshot already held it
  syncs

dbVars == <<status, hasFee, settingsSync, positionSync, position, estimated,
            activeCycle, lastCycle, settlements, gainEvents>>
platformVars == <<elapsed, settled, holding>>
jobVars == <<job, queue>>
ghostVars == <<baseline, added, late>>
vars == <<dbVars, drafts, jobVars, platformVars, ghostVars, syncs>>

(* A snapshot in the user's hand: what the platform accounted for when it  *)
(* was copied, and whether it showed units.                                *)
Shown == [seen |-> settled, units |-> holding]

Drafts == [keys : SUBSET Items, seen : SUBSET Items, units : BOOLEAN,
           completed : BOOLEAN]

SyncRequired == settingsSync \/ positionSync

(* list_pending_position_items: pending estimates and occurrences, and the *)
(* additions without estimate that no snapshot has included yet.           *)
Pending == {i \in Items : status[i] = "pending"}

(* Mutant: the cycle is left open at zero units. *)
MaintainCycleStaysOpen(positive) ==
  /\ activeCycle' = IF positive /\ activeCycle = 0 THEN lastCycle + 1 ELSE activeCycle
  /\ lastCycle' = IF positive /\ activeCycle = 0 THEN lastCycle + 1 ELSE lastCycle

(* _maintain_position_cycle *)
MaintainCycle(positive) ==
  /\ activeCycle' = CASE ~positive -> 0
                      [] positive /\ activeCycle = 0 -> lastCycle + 1
                      [] OTHER -> activeCycle
  /\ lastCycle' = IF positive /\ activeCycle = 0 THEN lastCycle + 1 ELSE lastCycle

(* The position becomes the snapshot s: exact, with nothing added since.   *)
Replace(s) ==
  /\ position' = IF s.units THEN "positive" ELSE "zero"
  /\ estimated' = FALSE
  /\ positionSync' = FALSE
  /\ MaintainCycle(s.units)
  /\ baseline' = s.seen
  /\ added' = {}
  /\ late' = {}

-----------------------------------------------------------------------------
(* The platform and the calendar (external). *)

(* A contribution shows up in the platform's units, whether the bot knows  *)
(* of it or not: a due date that failed or was missed is evaluated days    *)
(* later.                                                                  *)
Settle(i) ==
  /\ i \notin settled
  /\ settled' = settled \cup {i}
  /\ holding' = TRUE
  /\ UNCHANGED <<dbVars, drafts, jobVars, elapsed, ghostVars, syncs>>

(* Everything is redeemed. *)
Redeem ==
  /\ holding
  /\ holding' = FALSE
  /\ UNCHANGED <<dbVars, drafts, jobVars, elapsed, settled, ghostVars, syncs>>

(* The effective open day of an estimate ends and its NAV is published.    *)
NavPublished(i) ==
  /\ status[i] # "absent"
  /\ i \notin elapsed
  /\ elapsed' = elapsed \cup {i}
  /\ UNCHANGED <<dbVars, drafts, jobVars, settled, holding, ghostVars, syncs>>

-----------------------------------------------------------------------------
(* Recording contributions. *)

SetFundFee ==
  /\ ~hasFee
  /\ hasFee' = TRUE
  /\ UNCHANGED <<status, settingsSync, positionSync, position, estimated,
                 activeCycle, lastCycle, settlements, gainEvents, drafts, jobVars,
                 platformVars, ghostVars, syncs>>

(* A contribution is recorded with a status.  Only RecordIncluded asks     *)
(* whether the last snapshot holds it already.                             *)
Record(i, st) ==
  /\ job = "idle"
  /\ status[i] = "absent"
  /\ status' = [status EXCEPT ![i] = st]
  /\ late' = late \cup ({i} \cap baseline)
  /\ UNCHANGED <<hasFee, position, estimated, activeCycle, lastCycle, settlements,
                 gainEvents, drafts, jobVars, platformVars, baseline, added, syncs>>

(* create_scheduled_dca_occurrence, by the DCA job under the work lock: on *)
(* the due date, or later for a date that failed or was missed.            *)
CreateOccurrence(i, skipped) ==
  /\ hasFee
  /\ Record(i, IF skipped THEN "skipped" ELSE "pending")
  /\ UNCHANGED <<settingsSync, positionSync>>

(* record_manual_addition with an estimate: the plan must be READY.        *)
RecordEstimate(i) ==
  /\ hasFee /\ position # "none" /\ ~SyncRequired
  /\ Record(i, "pending")
  /\ UNCHANGED <<settingsSync, positionSync>>

(* record_manual_addition without one: a new snapshot is required.         *)
RecordUnestimated(i) ==
  /\ Record(i, "pending")
  /\ settingsSync' = TRUE
  /\ positionSync' = (position # "none")

(* record_manual_addition of a past addition that, as the user states, the *)
(* exact snapshot already includes.                                        *)
RecordIncluded(i) ==
  /\ position # "none" /\ ~estimated /\ ~SyncRequired
  /\ i \in baseline
  /\ Record(i, "reconciled")
  /\ UNCHANGED <<settingsSync, positionSync>>

(* Mutant: any occurrence can be skipped, whatever became of it. *)
SkippableAlways(i) == status[i] # "absent"

(* skip_scheduled_dca_occurrence changes a pending occurrence only.        *)
Skippable(i) == status[i] = "pending"

(* "Deduction failed", confirmed; not under the work lock.                 *)
DcaSkip(i) ==
  /\ Skippable(i)
  /\ status' = [status EXCEPT ![i] = "skipped"]
  /\ UNCHANGED <<hasFee, settingsSync, positionSync, position, estimated,
                 activeCycle, lastCycle, settlements, gainEvents, drafts, jobVars,
                 platformVars, ghostVars, syncs>>

-----------------------------------------------------------------------------
(* /sync_position. *)

(* With nothing pending the snapshot replaces the position at once; else   *)
(* the user is shown what is pending and a draft waits for the answer.     *)
SyncPosition(k) ==
  /\ job = "idle"
  /\ syncs < MaxSyncs
  /\ syncs' = syncs + 1
  /\ IF Pending = {}
     THEN /\ Replace(Shown)
          /\ settingsSync' = FALSE
          /\ UNCHANGED drafts
     ELSE /\ drafts[k] = NoDraft
          /\ drafts' = [drafts EXCEPT ![k] =
               [keys |-> Pending, seen |-> settled, units |-> holding,
                completed |-> FALSE]]
          /\ UNCHANGED <<settingsSync, positionSync, position, estimated,
                         activeCycle, lastCycle, ghostVars>>
  /\ UNCHANGED <<status, hasFee, settlements, gainEvents, jobVars, platformVars>>

(* The draft is cancelled, answered with "partial", or ten minutes old.    *)
DropDraft(k) ==
  /\ drafts[k] # NoDraft
  /\ drafts' = [drafts EXCEPT ![k] = NoDraft]
  /\ UNCHANGED <<dbVars, jobVars, platformVars, ghostVars, syncs>>

(* The user answers truthfully: all of the draft's items are in the        *)
(* snapshot, or none is.                                                   *)
Answers(f) == {all \in BOOLEAN : IF all THEN f.keys \subseteq f.seen
                                 ELSE f.keys \cap f.seen = {}}

(* Mutant: the displayed set is not compared with the present one. *)
StillPendingUnchecked(f) == TRUE

StillPending(f) == Pending = f.keys

(* Mutants: occurrences are forgotten; a status the table does not know.   *)
IncludedExceptDca(all) ==
  [i \in Items |-> IF all /\ status[i] = "pending" /\ i \notin Dca
                   THEN "reconciled" ELSE status[i]]

IncludedMisnamed(all) ==
  [i \in Items |-> IF all /\ status[i] = "pending" THEN "included" ELSE status[i]]

(* reconcile_position_snapshot: what an answer makes of the pending items. *)
Included(all) ==
  [i \in Items |-> IF all /\ status[i] = "pending" THEN "reconciled" ELSE status[i]]

(* Mutant: any answer clears the flag. *)
SyncNeverRequired(st) == FALSE

(* Does an addition without estimate remain that the snapshot lacks? *)
SyncStillRequired(st) == \E i \in Unestimated : st[i] = "pending"

(* reconcile_position_snapshot, for the answer to a draft. *)
Reconcile(k, all) ==
  /\ job = "idle"
  /\ drafts[k] # NoDraft
  /\ ~drafts[k].completed
  /\ all \in Answers(drafts[k])
  /\ StillPending(drafts[k])
  /\ Replace(drafts[k])
  /\ status' = Included(all)
  /\ settingsSync' = SyncStillRequired(Included(all))
  /\ drafts' = [drafts EXCEPT ![k].completed = TRUE]
  /\ UNCHANGED <<hasFee, settlements, gainEvents, jobVars, platformVars, syncs>>

(* The zero button of a Price-Gain reminder about cycle c, pressed twice   *)
(* once the platform shows no units; not under the work lock.              *)
Close(c) ==
  /\ c \in gainEvents
  /\ activeCycle = c
  /\ position = "positive"
  /\ Pending = {}
  /\ ~holding
  /\ syncs < MaxSyncs
  /\ syncs' = syncs + 1
  /\ Replace(Shown)
  /\ settingsSync' = FALSE
  /\ UNCHANGED <<status, hasFee, settlements, gainEvents, drafts, jobVars,
                 platformVars>>

-----------------------------------------------------------------------------
(* run_scheduled_fund_nav_process, under the work lock. *)

StartNavJob ==
  /\ job = "idle"
  /\ job' = "dca"
  /\ queue' = Pending \cap Dca
  /\ UNCHANGED <<dbVars, drafts, platformVars, ghostVars, syncs>>

ListEstimates ==
  /\ job = "dca"
  /\ queue = {}
  /\ job' = "manual"
  /\ queue' = Pending \cap Manual
  /\ UNCHANGED <<dbVars, drafts, platformVars, ghostVars, syncs>>

(* Mutants: a required snapshot is not waited for; a known zero position   *)
(* is taken for a missing one.                                             *)
ApplicableUnsynced(i) == status[i] = "pending" /\ i \in elapsed /\ position # "none"

ApplicableToUnits(i) ==
  status[i] = "pending" /\ i \in elapsed /\ position = "positive" /\ ~SyncRequired

Applicable(i) ==
  /\ status[i] = "pending"
  /\ i \in elapsed
  /\ position # "none"
  /\ ~SyncRequired

(* apply_scheduled_dca_occurrence, apply_manual_add_estimate *)
Apply(i) ==
  /\ i \in queue
  /\ Applicable(i)
  /\ queue' = queue \ {i}
  /\ status' = [status EXCEPT ![i] = "applied"]
  /\ position' = "positive"
  /\ estimated' = TRUE
  /\ MaintainCycle(TRUE)
  /\ settlements' = settlements \cup ({i} \cap Manual)
  /\ added' = added \cup {i}
  /\ UNCHANGED <<hasFee, settingsSync, positionSync, gainEvents, drafts, job,
                 platformVars, baseline, late, syncs>>

(* The row stays as it is: its day is not over, a sync is required, the    *)
(* position is missing, NAV or calendar are unavailable, or it was skipped.*)
PassOver(i) ==
  /\ i \in queue
  /\ queue' = queue \ {i}
  /\ UNCHANGED <<dbVars, drafts, job, platformVars, ghostVars, syncs>>

(* The due date turns out to be closed and the rule says holiday:skip.     *)
HolidaySkip(i) ==
  /\ i \in queue \cap Dca
  /\ i \notin elapsed
  /\ queue' = queue \ {i}
  /\ status' = [status EXCEPT ![i] = IF Skippable(i) THEN "skipped" ELSE @]
  /\ UNCHANGED <<hasFee, settingsSync, positionSync, position, estimated,
                 activeCycle, lastCycle, settlements, gainEvents, drafts, job,
                 platformVars, ghostVars, syncs>>

(* Last, the gains are evaluated, which may leave a reminder about the     *)
(* active cycle.                                                           *)
EndNavJob(reached) ==
  /\ job = "manual"
  /\ queue = {}
  /\ reached => position = "positive" /\ activeCycle # 0 /\ ~SyncRequired
  /\ job' = "idle"
  /\ gainEvents' = IF reached THEN gainEvents \cup {activeCycle} ELSE gainEvents
  /\ UNCHANGED <<status, hasFee, settingsSync, positionSync, position, estimated,
                 activeCycle, lastCycle, settlements, drafts, queue, platformVars,
                 ghostVars, syncs>>

(* Drafts and the job are in memory only. *)
Crash ==
  /\ drafts' = [k \in Tokens |-> NoDraft]
  /\ job' = "idle"
  /\ queue' = {}
  /\ UNCHANGED <<dbVars, platformVars, ghostVars, syncs>>

-----------------------------------------------------------------------------
Init ==
  /\ status = [i \in Items |-> "absent"]
  /\ hasFee = FALSE
  /\ settingsSync = FALSE /\ positionSync = FALSE
  /\ position = "none"
  /\ estimated = FALSE
  /\ activeCycle = 0 /\ lastCycle = 0
  /\ settlements = {} /\ gainEvents = {}
  /\ drafts = [k \in Tokens |-> NoDraft]
  /\ job = "idle" /\ queue = {}
  /\ elapsed = {} /\ settled = {}
  /\ holding \in BOOLEAN
  /\ baseline = {} /\ added = {} /\ late = {}
  /\ syncs = 0

Next ==
  \/ \E i \in Items : Settle(i)
  \/ Redeem
  \/ \E i \in Estimates : NavPublished(i)
  \/ SetFundFee
  \/ \E i \in Dca, skipped \in BOOLEAN : CreateOccurrence(i, skipped)
  \/ \E i \in Manual : RecordEstimate(i)
  \/ \E i \in Unestimated : RecordUnestimated(i)
  \/ \E i \in Unestimated : RecordIncluded(i)
  \/ \E i \in Dca : DcaSkip(i)
  \/ \E k \in Tokens : SyncPosition(k)
  \/ \E k \in Tokens : DropDraft(k)
  \/ \E k \in Tokens, all \in BOOLEAN : Reconcile(k, all)
  \/ \E c \in 1..(MaxSyncs + 1) : Close(c)
  \/ StartNavJob
  \/ ListEstimates
  \/ \E i \in Estimates : Apply(i)
  \/ \E i \in Estimates : PassOver(i)
  \/ \E i \in Dca : HolidaySkip(i)
  \/ \E reached \in BOOLEAN : EndNavJob(reached)
  \/ Crash

Spec == Init /\ [][Next]_vars

-----------------------------------------------------------------------------
(* Properties. *)

TypeOK ==
  /\ status \in [Items -> {"absent", "pending", "skipped", "applied", "reconciled"}]
  /\ hasFee \in BOOLEAN
  /\ settingsSync \in BOOLEAN
  /\ positionSync \in BOOLEAN
  /\ position \in {"none", "zero", "positive"}
  /\ estimated \in BOOLEAN
  /\ activeCycle \in Nat
  /\ lastCycle \in Nat
  /\ settlements \in SUBSET Manual
  /\ gainEvents \in SUBSET Nat
  /\ drafts \in [Tokens -> Drafts \cup {NoDraft}]
  /\ job \in {"idle", "dca", "manual"}
  /\ queue \in SUBSET Estimates
  /\ elapsed \in SUBSET Estimates
  /\ settled \in SUBSET Items
  /\ holding \in BOOLEAN
  /\ baseline \in SUBSET Items
  /\ added \in SUBSET Estimates
  /\ late \in SUBSET Items
  /\ syncs \in 0..MaxSyncs

(***************************************************************************)
(* What the last snapshot accounted for is not added on top of it, nor     *)
(* still waiting to be, whatever mix of answers, drafts, skips and NAV jobs*)
(* led there, unless it was recorded only after that snapshot was adopted: *)
(* an occurrence of a date that failed or was missed and is evaluated late *)
(* does go into the position a second time, until the next snapshot.       *)
(***************************************************************************)
NoDoubleCount ==
  /\ baseline \cap added \subseteq late
  /\ \A i \in baseline \cap Estimates : status[i] = "pending" => i \in late

(* The inductive form: only what was applied is in added. *)
BooksInStep ==
  /\ NoDoubleCount
  /\ \A i \in added : status[i] = "applied"

(* Without the exception, where every estimate that a snapshot holds was   *)
(* recorded before the snapshot was adopted.                               *)
CountedOnce ==
  /\ baseline \cap added = {}
  /\ \A i \in baseline \cap Estimates : status[i] # "pending"

RecordedInTime == \A i \in baseline \cap Estimates : status[i] # "absent"

NoneLate == late \cap Estimates = {}

Unresolved == \E i \in Unestimated : status[i] = "pending"

(***************************************************************************)
(* The fund is marked as needing a snapshot exactly while an addition      *)
(* recorded without an estimate is not covered by one; the mark on the     *)
(* position row never outlives the one in the settings.                    *)
(***************************************************************************)
SyncRequiredWhileUnresolved ==
  /\ settingsSync <=> Unresolved
  /\ positionSync => settingsSync

(***************************************************************************)
(* A position cycle is open exactly while units are held, through every    *)
(* way units change: snapshot, answer to a draft, estimate, zero button.   *)
(***************************************************************************)
CycleMatchesUnits == activeCycle # 0 <=> position = "positive"

(***************************************************************************)
(* A contribution that stops waiting is accounted for: it was added to the *)
(* position, or the snapshot that took its place includes it, or the user  *)
(* or the holiday policy skipped it.  A draft cannot resolve an item its   *)
(* reader was not shown.                                                   *)
(***************************************************************************)
ResolvedIsCounted ==
  [][\A i \in Items : status[i] = "pending" =>
       CASE status'[i] = "applied"    -> i \in added'
         [] status'[i] = "reconciled" -> i \in baseline'
         [] OTHER -> status'[i] \in {"pending", "skipped"}]_vars

(* What was resolved once keeps its outcome: an old button or a stale list *)
(* of the NAV job changes nothing.                                         *)
ResolvedOnce ==
  [][\A i \in Items : status[i] \in {"skipped", "applied", "reconciled"} =>
       status'[i] = status[i]]_vars

(***************************************************************************)
(* Estimates are added only to a position that lacks nothing else: never   *)
(* before the first snapshot, never while an addition of unknown units is  *)
(* missing from it.                                                        *)
(***************************************************************************)
AppliedToKnownPosition ==
  [][\A i \in Estimates : status[i] # "applied" /\ status'[i] = "applied" =>
       position # "none" /\ ~Unresolved]_vars

(* The abstract promise: what becomes of a contribution. *)
FateOf ==
  [st \in {"absent", "pending", "skipped", "applied", "reconciled"} |->
     CASE st = "absent"  -> "unknown"
       [] st = "pending" -> "waiting"
       [] st = "skipped" -> "skipped"
       [] OTHER          -> "counted"]

Fate == [i \in Items |-> FateOf[status[i]]]

Promise == INSTANCE PositionPromise WITH fate <- Fate, copy <- baseline, onTop <- added

(***************************************************************************)
(* Whatever drafts, answers, buttons and jobs do: an answer to a copied    *)
(* position resolves exactly the waiting contributions the copy contains,  *)
(* each contribution is resolved once, and estimates are put on top only   *)
(* of a copy that lacks nothing of unknown units and lacks them too, or    *)
(* that was adopted before they were recorded.                             *)
(***************************************************************************)
KeepsPositionPromise == Promise!Spec

(***************************************************************************)
(* Fairness: the NAV job runs every morning and handles every row it       *)
(* listed; data sources and calendar answer again and again; the process   *)
(* does not restart for ever.                                              *)
(***************************************************************************)
Fairness ==
  /\ WF_vars(StartNavJob)
  /\ WF_vars(ListEstimates)
  /\ WF_vars(\E i \in Estimates : Apply(i) \/ PassOver(i))
  /\ WF_vars(\E reached \in BOOLEAN : EndNavJob(reached))
  /\ SF_vars(\E i \in Estimates : Apply(i))
  /\ <>[][~Crash]_vars

FairSpec == Spec /\ Fairness

Waiting(i) == status[i] = "pending" /\ i \in elapsed /\ position # "none"

(***************************************************************************)
(* An estimate whose NAV is out does not wait for ever, unless a snapshot  *)
(* is asked for first: again and again none is waiting.                    *)
(***************************************************************************)
PendingEndsUp == []<>(SyncRequired \/ \A i \in Estimates : ~Waiting(i))
=============================================================================
