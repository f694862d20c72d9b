---------------------------- MODULE DrawdownPlan ----------------------------
(***************************************************************************)
(* One drawdown plan (rules/drawdown_plan.py, checks.py 381-810): its      *)
(* drawdown cycles, the tiers it found reached, the reminders it reserved  *)
(* and what the user did about them.                                       *)
(*                                                                         *)
(* An evaluation reads the cycle and the user's preferences, computes, and *)
(* persists in a later transaction, under the work lock.  Recording an     *)
(* addition and changing the margin take the lock too; snoozing, skipping  *)
(* and disabling the rule do not.  Telegram handlers run one after another.*)
(*                                                                         *)
(* Dates are positions in the sequence of closes (trading days only), and  *)
(* prices are integers.  A row is a record, a table a set of rows; the row *)
(* of a snooze or skip is present when its flag is set.                    *)
(***************************************************************************)
EXTENDS Integers, Sequences, FiniteSets

CONSTANTS
  Prices,          \* what a market close or a quote may be
  Tiers,           \* the drawdowns of the plan, in per cent
  Margins,         \* values of rearm_margin, in per cent
  Lookback,        \* lookback_days, in trading days
  History,         \* trading days before the plan was added
  Payout,          \* what a dividend takes off earlier closes, in per cent
  NoEvent,
  MaxDate,         \* bound on trading days
  MaxRestatements, \* bound on restatements of the price history
  MaxDrafts,       \* bound on confirmations open at a time
  MaxCrashes       \* bound on restarts

ASSUME PlanAssumption ==
  /\ Prices \subseteq Nat \ {0}
  /\ Tiers \subseteq 1..99
  /\ Margins \subseteq 1..99
  /\ Margins # {}
  /\ Lookback \in Nat \ {0}
  /\ History \in 1..MaxDate + 1
  /\ Payout \in 0..99
  /\ MaxDate \in Nat
  /\ MaxRestatements \in Nat
  /\ MaxDrafts \in Nat
  /\ MaxCrashes \in Nat

VARIABLES
  (* the market *)
  closes,       \* confirmed closing prices, restated for dividends (qfq)
  session,      \* "open" before today's close is confirmed, else "closed"
  restatements,
  (* the database *)
  enabled,      \* rules.enabled
  margin,       \* rules.params_json: rearm_margin
  cycles,       \* drawdown_cycles; the last one is the active one
  records,      \* drawdown_tier_records
  events,       \* alert_events of this plan
  added,        \* manual_add_actions
  skipped,      \* drawdown_tier_reminder_states.skipped_for_cycle
  snoozed,      \* drawdown_tier_reminder_states.snoozed_market_date
  (* the process *)
  job,          \* the scheduled check that holds the work lock
  press,        \* a snooze or skip button between its read and its write
  drafts,       \* manual_add_drafts
  crashes

marketVars == <<closes, session, restatements>>
ruleVars == <<enabled, margin>>
factVars == <<cycles, records, events>>
userVars == <<added, skipped, snoozed>>
vars == <<marketVars, ruleVars, factVars, userVars, job, press, drafts, crashes>>

Dates == 1..(MaxDate + 1)
Today == IF session = "open" THEN Len(closes) + 1 ELSE Len(closes)

Events == [phase : {"action", "pre_alert"}, cycle : Nat, date : Dates,
           tiers : SUBSET Tiers]
Cycles == [anchor : Dates, peak : Dates, evaluated : Dates]
Drafts == [cycle : Nat, date : Dates, historical : BOOLEAN,
           tiers : SUBSET Tiers]
Presses == [kind : {"snooze", "skip"}, cycle : Nat, date : Dates,
            tiers : SUBSET Tiers]

(* A reminder is no stand-in for there being none. *)
ASSUME NoEventAssumption == NoEvent \notin Events

NoPress == [kind |-> "none", cycle |-> 0, date |-> 0, tiers |-> {}]
NoJob == [step |-> "idle", purpose |-> "none", date |-> 0, cycle |-> 0,
          evaluated |-> 0, hidden |-> {}, tiers |-> {}]

LockFree == job.step = "idle"
HandlerFree == press = NoPress

-----------------------------------------------------------------------------
(* Rows.  A cycle's id is its position in cycles; 0 stands for no cycle.   *)
ActiveId == Len(cycles)
Active == cycles[ActiveId]
EvaluatedUpTo == IF cycles = <<>> THEN 0 ELSE Active.evaluated

(* Mutant: additions count as facts, the source filter is forgotten. *)
RecordedOfAnySource(c) == {r.tier : r \in {q \in records : q.cycle = c}}

(* list_drawdown_tier_records(source="close_confirmed"). *)
Recorded(c) ==
  {r.tier : r \in {q \in records : q.cycle = c /\ q.source = "close_confirmed"}}

Added(c) == {a.tier : a \in {b \in added : b.cycle = c}}

(* _drawdown_reminder_key_sets: added, skipped for the cycle, snoozed on d. *)
Suppressed(c, d) ==
  Added(c) \cup {t \in Tiers : <<c, t>> \in skipped \/ <<c, t, d>> \in snoozed}

-----------------------------------------------------------------------------
(* The arithmetic of one evaluation.                                       *)
FirstHighest(S) ==
  CHOOSE i \in S : \A j \in S : closes[j] < closes[i] \/ (closes[j] = closes[i] /\ i <= j)
LastHighest(S) ==
  CHOOSE i \in S : \A j \in S : closes[j] < closes[i] \/ (closes[j] = closes[i] /\ j <= i)

Reached(price, top) == {t \in Tiers : 100 * (top - price) >= t * top}
Gains(high, low, percent) == 100 * (high - low) >= percent * low

(* Mutant: the stored peak is trusted, the history behind it not rescanned. *)
TrustedPeak == Active.peak

(* _recover_cycle, first loop: a restatement may have moved the peak.      *)
RecoveredPeak ==
  LET top == FirstHighest(Active.anchor .. Active.evaluated)
  IN IF closes[top] > closes[Active.peak] THEN top ELSE Active.peak

(* Mutant: a restatement or a lowered margin rearms without a new close. *)
RearmsOnOldRows(d) ==
  LET peak == FirstHighest({RecoveredPeak} \cup (Active.evaluated + 1) .. d)
  IN [anchor |-> Active.anchor, peak |-> peak,
      fresh |-> Gains(closes[peak], closes[Active.anchor], margin)]

(* _recover_cycle: only closes newer than the last evaluation may start a  *)
(* new cycle.  The code compares every new high of the batch with the      *)
(* anchor, the last and highest of them decides.                           *)
Recover(d) ==
  LET peak == FirstHighest({RecoveredPeak} \cup (Active.evaluated + 1) .. d)
  IN [anchor |-> Active.anchor, peak |-> peak,
      fresh |-> peak > Active.evaluated
                /\ Gains(closes[peak], closes[Active.anchor], margin)]

(* _initial_peak: the latest highest close of the lookback window.         *)
Initial(d) ==
  LET peak == LastHighest({i \in 1..d : i > d - Lookback})
  IN [anchor |-> peak, peak |-> peak, fresh |-> TRUE]

(* evaluate_drawdown_plan: the cycle as of the close of date d.            *)
Evaluation(d) ==
  IF cycles = <<>> THEN Initial(d)
  ELSE IF Recover(d).fresh THEN [Recover(d) EXCEPT !.anchor = Recover(d).peak]
  ELSE Recover(d)

-----------------------------------------------------------------------------
(* Mutant: one action reminder per cycle, the date left out of the key.    *)
AlertKeyOfCycle(e) ==
  IF e.phase = "pre_alert" THEN <<e.phase, e.date>> ELSE <<e.phase, e.cycle>>

(* Alert keys are unique in alert_events.                                  *)
AlertKey(e) ==
  IF e.phase = "pre_alert" THEN <<e.phase, e.date>> ELSE <<e.phase, e.cycle, e.date>>

KeyTaken(e) == \E f \in events : AlertKey(f) = AlertKey(e)
PreAlerted(d) == \E f \in events : f.phase = "pre_alert" /\ f.date = d

(* What the evaluation that holds the lock has read: state and preferences.*)
Reading(purpose, d) ==
  [step |-> "evaluate", purpose |-> purpose, date |-> d, cycle |-> ActiveId,
   evaluated |-> EvaluatedUpTo, hidden |-> Suppressed(ActiveId, d), tiers |-> {}]

(* evaluate_drawdown_plan_rules, after the close of today.                 *)
BeginAfterClose ==
  /\ session = "closed"
  /\ LockFree
  /\ enabled
  /\ EvaluatedUpTo < Len(closes)
  /\ job' = Reading("after_close", Len(closes))
  /\ UNCHANGED <<marketVars, ruleVars, factVars, userVars, press, drafts, crashes>>

(* evaluate_drawdown_plan_prealerts, before today's close: first bring the *)
(* cycle up to the last confirmed close, if it is not.                     *)
BeginPreAlert ==
  LET d == Len(closes)
  IN /\ session = "open"
     /\ LockFree
     /\ enabled
     /\ ~ (PreAlerted(d + 1) /\ EvaluatedUpTo >= d)
     /\ job' = IF EvaluatedUpTo >= d
               THEN [NoJob EXCEPT !.step = "quote", !.purpose = "catch_up",
                                  !.date = d, !.cycle = ActiveId]
               ELSE Reading(IF cycles = <<>> THEN "initialize" ELSE "catch_up", d)
     /\ UNCHANGED <<marketVars, ruleVars, factVars, userVars, press, drafts, crashes>>

-----------------------------------------------------------------------------
(* Mutant: what the cycle has recorded is recorded again. *)
CrossedAgain(ev, d) == Reached(closes[d], closes[ev.peak])

(* evaluate_drawdown_plan: tiers this close reaches and the cycle has not  *)
(* recorded; a new cycle has recorded nothing.  Only an evaluation records *)
(* facts, so what this one read under the lock is still so.                *)
Crossed(ev, d) ==
  Reached(closes[d], closes[ev.peak]) \ (IF ev.fresh THEN {} ELSE Recorded(ActiveId))

(* Mutant: the old cycle's preferences also silence the new cycle. *)
ActionableAsBefore(ev, d) ==
  Reached(closes[d], closes[ev.peak]) \ job.hidden

(* select_actionable_tiers with what the evaluation read before.           *)
Actionable(ev, d) ==
  Reached(closes[d], closes[ev.peak]) \ (IF ev.fresh THEN {} ELSE job.hidden)

(* persist_drawdown_plan_evaluation: what must still hold in the write     *)
(* transaction for it to go through.                                       *)
StillExpected == enabled /\ job.cycle = ActiveId /\ job.evaluated = EvaluatedUpTo

(* Mutant: the id of the next cycle is taken before it is known to begin. *)
RecordFactsUnderNextId(id, d, tiers, event) ==
  records \cup {[cycle |-> ActiveId + 1, tier |-> t, source |-> "close_confirmed",
                 date |-> d, event |-> NoEvent] : t \in tiers}

(* drawdown_tier_records: a confirmed close replaces what the user marked. *)
RecordFacts(id, d, tiers, event) ==
  {r \in records : r.cycle # id \/ r.tier \notin tiers}
  \cup {[cycle |-> id, tier |-> t, source |-> "close_confirmed", date |-> d,
         event |-> IF event # NoEvent /\ t \in event.tiers THEN event ELSE NoEvent] :
         t \in tiers}

(* Where the check goes on after its evaluation has been persisted.        *)
Continue(id) ==
  IF job.purpose = "after_close" \/ PreAlerted(job.date + 1) THEN NoJob
  ELSE [NoJob EXCEPT !.step = "quote", !.purpose = job.purpose,
                     !.date = job.date, !.cycle = id]

(* evaluate_drawdown_plan_rule and persist_drawdown_plan_evaluation.       *)
CommitEvaluation ==
  LET d     == job.date
      ev    == Evaluation(d)
      id    == IF ev.fresh THEN ActiveId + 1 ELSE ActiveId
      row   == [anchor |-> ev.anchor, peak |-> ev.peak, evaluated |-> d]
      quiet == job.purpose = "initialize"
      facts == IF quiet THEN {} ELSE Crossed(ev, d)
      shown == IF quiet THEN {} ELSE Actionable(ev, d)
      event == IF shown = {} THEN NoEvent
               ELSE [phase |-> "action", cycle |-> id, date |-> d, tiers |-> shown]
  IN /\ job.step = "evaluate"
     /\ IF StillExpected /\ (event = NoEvent \/ ~ KeyTaken(event))
        THEN /\ cycles' = IF ev.fresh THEN Append(cycles, row)
                          ELSE [cycles EXCEPT ![ActiveId] = row]
             /\ records' = RecordFacts(id, d, facts, event)
             /\ events' = events \cup ({event} \ {NoEvent})
             /\ job' = Continue(id)
        ELSE /\ UNCHANGED factVars
             /\ job' = NoJob
     /\ UNCHANGED <<marketVars, ruleVars, userVars, press, drafts, crashes>>

(* The realtime quote p, the preferences read after it, and the tiers the  *)
(* estimate reaches.                                                       *)
Quote(p) ==
  LET tiers == Reached(p, closes[RecoveredPeak]) \ Suppressed(job.cycle, job.date + 1)
  IN /\ job.step = "quote"
     /\ ~ PreAlerted(job.date + 1)
     /\ job' = IF tiers = {} THEN NoJob
               ELSE [job EXCEPT !.step = "announce", !.tiers = tiers]
     /\ UNCHANGED <<marketVars, ruleVars, factVars, userVars, press, drafts, crashes>>

(* add_drawdown_plan_pre_alert_event.                                      *)
Announce ==
  LET event == [phase |-> "pre_alert", cycle |-> job.cycle, date |-> job.date + 1,
                tiers |-> job.tiers]
  IN /\ job.step = "announce"
     /\ events' = IF enabled /\ ~ KeyTaken(event) THEN events \cup {event} ELSE events
     /\ job' = NoJob
     /\ UNCHANGED <<marketVars, ruleVars, cycles, records, userVars, press, drafts,
                    crashes>>

(* No usable quote, or today's pre-alert is out: the check of this rule ends. *)
GiveUpQuote ==
  /\ job.step = "quote"
  /\ job' = NoJob
  /\ UNCHANGED <<marketVars, ruleVars, factVars, userVars, press, drafts, crashes>>

-----------------------------------------------------------------------------
(* The buttons of a reminder, good on its own date and in its own cycle.   *)
ButtonsWork(e) == e \in events /\ enabled /\ e.date = Today /\ e.cycle = ActiveId

(* defer_drawdown_event: its reads, without the work lock.                 *)
PressSnooze(e) ==
  LET tiers == {t \in e.tiers \ Added(ActiveId) : <<ActiveId, t>> \notin skipped}
  IN /\ HandlerFree
     /\ ButtonsWork(e)
     /\ \E t \in tiers : <<ActiveId, t, Today>> \notin snoozed
     /\ press' = [kind |-> "snooze", cycle |-> ActiveId, date |-> Today, tiers |-> tiers]
     /\ UNCHANGED <<marketVars, ruleVars, factVars, userVars, job, drafts, crashes>>

(* drawdown_skip_callback with apply: all tiers or one, without the lock.  *)
PressSkip(e) ==
  /\ HandlerFree
  /\ ButtonsWork(e)
  /\ \E chosen \in {e.tiers} \cup {{t} : t \in e.tiers} :
       LET tiers == chosen \ Added(ActiveId)
       IN /\ \E t \in tiers : <<ActiveId, t>> \notin skipped
          /\ press' = [kind |-> "skip", cycle |-> ActiveId, date |-> Today,
                       tiers |-> tiers]
  /\ UNCHANGED <<marketVars, ruleVars, factVars, userVars, job, drafts, crashes>>

(* snooze_drawdown_tiers_for_date: one date per tier, the last one wins.   *)
WriteSnooze ==
  /\ press.kind = "snooze"
  /\ snoozed' = {s \in snoozed : s[1] # press.cycle \/ s[2] \notin press.tiers}
                \cup {<<press.cycle, t, press.date>> : t \in press.tiers}
  /\ press' = NoPress
  /\ UNCHANGED <<marketVars, ruleVars, factVars, added, skipped, job, drafts, crashes>>

(* skip_drawdown_tiers_for_cycle: a skip replaces a snooze.                *)
WriteSkip ==
  /\ press.kind = "skip"
  /\ skipped' = skipped \cup {<<press.cycle, t>> : t \in press.tiers}
  /\ snoozed' = {s \in snoozed : s[1] # press.cycle \/ s[2] \notin press.tiers}
  /\ press' = NoPress
  /\ UNCHANGED <<marketVars, ruleVars, factVars, added, job, drafts, crashes>>

-----------------------------------------------------------------------------
(* load_manual_add_selection, same day: tiers of one of today's reminders, *)
(* by its buttons or by /mark_added.                                       *)
DraftToday(e, tiers) ==
  /\ HandlerFree
  /\ Cardinality(drafts) < MaxDrafts
  /\ ButtonsWork(e)
  /\ tiers \subseteq e.tiers \ Added(ActiveId)
  /\ tiers # {}
  /\ drafts' = drafts \cup {[cycle |-> ActiveId, date |-> Today, historical |-> FALSE,
                             tiers |-> tiers]}
  /\ UNCHANGED <<marketVars, ruleVars, factVars, userVars, job, press, crashes>>

(* Tiers a close of the cycle had confirmed by date d.                     *)
ConfirmedBy(c, d) ==
  {r.tier : r \in {q \in records : q.cycle = c /\ q.source = "close_confirmed" /\ q.date <= d}}

(* The same for a past date: tiers a close had confirmed by then.          *)
DraftHistorical(d, tiers) ==
  /\ HandlerFree
  /\ Cardinality(drafts) < MaxDrafts
  /\ enabled
  /\ cycles # <<>>
  /\ d < Today
  /\ tiers \subseteq ConfirmedBy(ActiveId, d) \ Added(ActiveId)
  /\ tiers # {}
  /\ drafts' = drafts \cup {[cycle |-> ActiveId, date |-> d, historical |-> TRUE,
                             tiers |-> tiers]}
  /\ UNCHANGED <<marketVars, ruleVars, factVars, userVars, job, press, crashes>>

(* Mutants: the cycle may have changed; the work lock is not taken.        *)
EligibleInAnyCycle(f) ==
  /\ LockFree
  /\ enabled
  /\ IF f.historical THEN f.tiers \subseteq ConfirmedBy(f.cycle, f.date)
     ELSE f.date = Today
EligibleWithoutLock(f) ==
  /\ enabled
  /\ f.cycle = ActiveId
  /\ IF f.historical THEN f.tiers \subseteq ConfirmedBy(f.cycle, f.date)
     ELSE f.date = Today

(* commit_manual_add and record_manual_addition: what is checked again     *)
(* under the work lock.  The reminder's own row never changes; that its    *)
(* tiers and cycle are the draft's was checked when the draft was made.    *)
Eligible(f) ==
  /\ LockFree
  /\ enabled
  /\ f.cycle = ActiveId
  /\ IF f.historical THEN f.tiers \subseteq ConfirmedBy(f.cycle, f.date)
     ELSE f.date = Today

(* Mutant: the tier record is not inserted with the addition. *)
NoMarkedRecord(c, d, tiers) == records

(* record_manual_addition, INSERT OR IGNORE INTO drawdown_tier_records.    *)
MarkRecords(c, d, tiers) ==
  records \cup {[cycle |-> c, tier |-> t, source |-> "user_marked_added", date |-> d,
                 event |-> NoEvent] :
                 t \in {u \in tiers : \A r \in records : r.cycle # c \/ r.tier # u}}

(* record_manual_addition: tiers not yet added in the cycle, if any.  What *)
(* it does to the position is in PositionLedger.                           *)
ConfirmAddition(f) ==
  LET new == f.tiers \ Added(f.cycle)
  IN /\ HandlerFree
     /\ f \in drafts
     /\ Eligible(f)
     /\ added' = added \cup {[cycle |-> f.cycle, tier |-> t, date |-> f.date] : t \in new}
     /\ skipped' = {s \in skipped : s[1] # f.cycle \/ s[2] \notin new}
     /\ records' = MarkRecords(f.cycle, f.date, new)
     /\ drafts' = drafts \ {f}
     /\ UNCHANGED <<marketVars, ruleVars, cycles, events, snoozed, job, press, crashes>>

(* Cancelled, expired (purge_drafts), or refused for good.                 *)
DropDraft(f) ==
  /\ HandlerFree
  /\ f \in drafts
  /\ drafts' = drafts \ {f}
  /\ UNCHANGED <<marketVars, ruleVars, factVars, userVars, job, press, crashes>>

(* update_drawdown_plan_rearm_margin, under the work lock.                 *)
SetRearm(m) ==
  /\ LockFree
  /\ HandlerFree
  /\ enabled
  /\ margin' = m
  /\ UNCHANGED <<marketVars, enabled, factVars, userVars, job, press, drafts, crashes>>

(* delete_rule disables a plan, at any time; nothing enables it again.     *)
DeleteRule ==
  /\ HandlerFree
  /\ enabled
  /\ enabled' = FALSE
  /\ UNCHANGED <<marketVars, margin, factVars, userVars, job, press, drafts, crashes>>

-----------------------------------------------------------------------------
(* The market: a session begins, and its close is confirmed.  A dividend   *)
(* restates the closes up to some date x, which the provider may do       *)
(* days late.  No check runs overnight.                                    *)
StartDay ==
  /\ session = "closed"
  /\ Len(closes) < MaxDate
  /\ LockFree
  /\ session' = "open"
  /\ \/ UNCHANGED <<closes, restatements>>
     \/ /\ restatements < MaxRestatements
        /\ restatements' = restatements + 1
        /\ \E x \in DOMAIN closes :
             closes' = [i \in DOMAIN closes |->
                          IF i <= x THEN (closes[i] * (100 - Payout)) \div 100 ELSE closes[i]]
  /\ UNCHANGED <<ruleVars, factVars, userVars, job, press, drafts, crashes>>

CloseMarket(p) ==
  /\ session = "open"
  /\ session' = "closed"
  /\ closes' = Append(closes, p)
  /\ UNCHANGED <<restatements, ruleVars, factVars, userVars, job, press, drafts, crashes>>

(* A restart loses what is in memory.                                      *)
Crash ==
  /\ crashes < MaxCrashes
  /\ crashes' = crashes + 1
  /\ job' = NoJob
  /\ press' = NoPress
  /\ drafts' = {}
  /\ UNCHANGED <<marketVars, ruleVars, factVars, userVars>>

-----------------------------------------------------------------------------
Init ==
  /\ closes \in [1..History -> Prices]
  /\ session = "closed"
  /\ restatements = 0
  /\ enabled = TRUE
  /\ margin \in Margins
  /\ cycles = <<>>
  /\ records = {}
  /\ events = {}
  /\ added = {}
  /\ skipped = {}
  /\ snoozed = {}
  /\ job = NoJob
  /\ press = NoPress
  /\ drafts = {}
  /\ crashes = 0

Handlers ==
  \/ \E e \in events : PressSnooze(e) \/ PressSkip(e)
  \/ WriteSnooze \/ WriteSkip
  \/ \E e \in events, tiers \in SUBSET Tiers : DraftToday(e, tiers)
  \/ \E d \in Dates, tiers \in SUBSET Tiers : DraftHistorical(d, tiers)
  \/ \E f \in drafts : ConfirmAddition(f) \/ DropDraft(f)
  \/ \E m \in Margins : SetRearm(m)
  \/ DeleteRule

Checks ==
  \/ BeginAfterClose \/ BeginPreAlert \/ CommitEvaluation
  \/ \E p \in Prices : Quote(p)
  \/ Announce \/ GiveUpQuote

Next == Checks \/ Handlers \/ StartDay \/ (\E p \in Prices : CloseMarket(p)) \/ Crash

Spec == Init /\ [][Next]_vars

(* Both checks are cron jobs; a check once begun comes to its end.  Prices *)
(* are published in the end, so a check that finds none is not modelled.   *)
FairSpec ==
  /\ Spec
  /\ WF_vars(BeginAfterClose)
  /\ WF_vars(BeginPreAlert)
  /\ WF_vars(CommitEvaluation)
  /\ WF_vars(Announce)
  /\ WF_vars(GiveUpQuote)

-----------------------------------------------------------------------------
TypeOK ==
  /\ closes \in Seq(Nat) /\ Len(closes) <= MaxDate + 1
  /\ session \in {"open", "closed"}
  /\ restatements \in 0..MaxRestatements
  /\ enabled \in BOOLEAN
  /\ margin \in Margins
  /\ cycles \in Seq(Cycles)
  /\ \A r \in records : /\ r.cycle \in DOMAIN cycles /\ r.tier \in Tiers
                        /\ r.source \in {"close_confirmed", "user_marked_added"}
                        /\ r.date \in Dates /\ r.event \in events \cup {NoEvent}
  /\ events \subseteq Events
  /\ \A a \in added : a.cycle \in DOMAIN cycles /\ a.tier \in Tiers /\ a.date \in Dates
  /\ skipped \subseteq (DOMAIN cycles) \X Tiers
  /\ snoozed \subseteq (DOMAIN cycles) \X Tiers \X Dates
  /\ job.step \in {"idle", "evaluate", "quote", "announce"}
  /\ press \in Presses \cup {NoPress}
  /\ drafts \subseteq Drafts /\ Cardinality(drafts) <= MaxDrafts
  /\ crashes \in 0..MaxCrashes

(* What a step that persists an evaluation leaves behind.                  *)
Persists == cycles' # cycles
NewActive == cycles'[Len(cycles')]
HighestSince(first, last) ==
  CHOOSE n \in {closes[i] : i \in first..last} : \A i \in first..last : closes[i] <= n
ReachedAtNewDate ==
  Reached(closes[NewActive.evaluated], HighestSince(NewActive.anchor, NewActive.evaluated))

(* A close-confirmed tier record is never altered or removed, whatever is  *)
(* evaluated, marked or skipped later.                                     *)
FactsNeverChange ==
  [][\A r \in records : r.source = "close_confirmed" => r \in records']_vars

(* An evaluation leaves every tier that its close reached, from the highest*)
(* close of its cycle, recorded as confirmed: also when the user had marked*)
(* it, when days were missed and when the cycle is new.                    *)
ReachedTiersRecorded ==
  [][Persists /\ job.purpose # "initialize" =>
       \A t \in ReachedAtNewDate : \E r \in records' :
         /\ r.cycle = Len(cycles') /\ r.tier = t /\ r.source = "close_confirmed"]_vars

(* An evaluation reminds of every tier its close reached, unless the user  *)
(* added, skipped or (for that date) snoozed it in the same cycle.         *)
PendingTiersReminded ==
  [][Persists /\ job.purpose # "initialize" =>
       \A t \in ReachedAtNewDate :
         \/ \E e \in events' : /\ e.phase = "action" /\ e.cycle = Len(cycles')
                               /\ e.date = NewActive.evaluated /\ t \in e.tiers
         \/ \E a \in added : a.cycle = Len(cycles') /\ a.tier = t
         \/ <<Len(cycles'), t>> \in skipped
         \/ \E s \in snoozed : s[1] = Len(cycles') /\ s[2] = t /\ s[3] >= NewActive.evaluated]_vars

(* After an evaluation the peak of the cycle is the highest close since its*)
(* anchor, after missed days and restated prices too.                      *)
PeakIsHighest ==
  [][Persists => closes[NewActive.peak] = HighestSince(NewActive.anchor, NewActive.evaluated)]_vars

(* A cycle ends only by a close nobody had evaluated that gains the margin *)
(* on the anchor and exceeds all of the cycle: not by a restatement, not by*)
(* a lowered margin, not by an equal high.                                 *)
RearmOnlyByNewHigh ==
  [][Len(cycles') > Len(cycles) /\ cycles # <<>> =>
       /\ NewActive.anchor > Active.evaluated
       /\ Gains(closes[NewActive.anchor], closes[Active.anchor], margin)
       /\ HighestSince(Active.anchor, Active.evaluated) < closes[NewActive.anchor]]_vars

(* No reminder or pre-alert is reserved for a tier that is added in its    *)
(* cycle, although a check reads the additions long before it writes.      *)
NoReminderForAdded ==
  [][\A e \in events' \ events : \A a \in added : a.cycle = e.cycle => a.tier \notin e.tiers]_vars

(* The guide's promise for skipped tiers, which the code does not keep: the*)
(* skip button takes no lock, so a check may have read the list before.    *)
NoReminderForSkipped ==
  [][\A e \in events' \ events : \A t \in e.tiers : <<e.cycle, t>> \notin skipped]_vars

(* Every addition has a tier record in its cycle (pending items are listed *)
(* by joining the two), and was offered on its date or confirmed by then.  *)
AdditionsAreExplained ==
  \A a \in added :
    /\ \E r \in records : r.cycle = a.cycle /\ r.tier = a.tier
    /\ \/ \E e \in events : e.cycle = a.cycle /\ e.date = a.date /\ a.tier \in e.tiers
       \/ a.tier \in ConfirmedBy(a.cycle, a.date)

(* A confirmation opened in one cycle never books its tiers once another   *)
(* cycle has begun.                                                        *)
AdditionsJoinActiveCycle ==
  [][\A a \in added' \ added : a.cycle = Len(cycles')]_vars

(* Every confirmed close of an enabled plan is evaluated in the end, alone *)
(* or with later ones: no alert key, draft or restart stalls the plan.     *)
CatchesUp ==
  \A n \in 1..MaxDate : (Len(closes) >= n /\ enabled) ~> (~ enabled \/ EvaluatedUpTo >= n)
=============================================================================
