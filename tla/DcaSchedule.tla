----------------------------- MODULE DcaSchedule -----------------------------
(***************************************************************************)
(* The scheduled DCA reminders (scheduler.py, checks.py, db.py): which due *)
(* dates of which rules become an occurrence and a reminder.  A date is    *)
(* evaluated by the morning job, by the catch-up at start-up, or by /check.*)
(* A cursor in the database says up to which date the first two have come; *)
(* a rule that could not be evaluated on a date leaves a failure row, which*)
(* is retried without moving the cursor.                                   *)
(*                                                                         *)
(* An evaluation runs under the work lock and is a series of transactions; *)
(* reading the cursor and the failures, dispatching the reminders and      *)
(* writing the cursor are outside the lock, so the calls overlap there, and*)
(* the process may stop between any two steps.                             *)
(*                                                                         *)
(* A date is a calendar day, counted from 1.  The fee is fixed and shared, *)
(* as by rules of one fund; with a fee that is too high for an amount no   *)
(* occurrence can be created, until the fee or the amount is corrected.    *)
(***************************************************************************)
EXTENDS Integers

CONSTANTS
  Rules,
  Due,          \* the due dates of each rule
  Callers,      \* who evaluates: "job", "catchup" and "check", or some of them
  Amounts, Fees,
  MaxDate,      \* the last day that is modelled
  MaxChanges,   \* bound on changes of rules and fee, and on /check
  MaxCrashes    \* bound on restarts, and on dispatches that raise

Dates  == 1..MaxDate
NoDate == -1

ASSUME ScheduleAssumption ==
  /\ MaxDate \in Nat \ {0}
  /\ MaxChanges \in Nat /\ MaxCrashes \in Nat
  /\ Due \in [Rules -> SUBSET Dates]
  /\ Callers \subseteq {"job", "catchup", "check"}
  /\ Amounts \subseteq Nat \ {0} /\ Amounts # {} /\ Fees \subseteq Nat

VARIABLES
  (* outside *)
  today, late,   \* the date, and is the reminder time past?
  (* the database *)
  state,         \* of a rule: "absent", "enabled" or "removed"
  created,       \* rules.created_at, as a date
  amount,        \* of a rule, in params_json
  fee,           \* fund_settings.fee_value
  cursor,        \* app_metadata, dca_last_checked_date, or NoDate
  failures,      \* dca_evaluation_failures
  occurrences,   \* scheduled_dca_occurrences: their amounts, or NoOccurrence
  events,        \* the alert_events of rules and dates
  (* the process *)
  up,
  call,          \* of each caller
  (* kept for the properties only *)
  since,         \* the day before the first one the cursor counts from
  changes, crashes

outsideVars == <<today, late>>
ruleVars == <<state, created, amount, fee>>
dbVars == <<ruleVars, cursor, failures, occurrences, events>>
bounds == <<changes, crashes>>
vars == <<outsideVars, dbVars, up, call, since, bounds>>

Keys == Rules \X Dates

NoOccurrence == 0

NoEvent == [status |-> "none", amount |-> 0]
Event == [status : {"reserved", "failed"}, amount : Amounts]

(* One call of run_due_dca_checks or of /check: where it is, the failures  *)
(* it still has to retry, the dates it still has to replay; and of the     *)
(* evaluation under way its date, the rules it has listed and not yet      *)
(* handled, each with its amount, and the rule and amount a reminder is    *)
(* being made of.                                                          *)
Idle == [pc |-> "idle", retries |-> {}, next |-> 0, latest |-> 0, retrying |-> FALSE,
         date |-> 0, listed |-> {}, made |-> <<>>]

(* The work lock is held from the first rule of an evaluation to the last; *)
(* with none left, the call is in send_alert_notifications.                *)
Dispatching(p) == call[p].pc = "rules" /\ call[p].listed = {}

Evaluating == {p \in Callers : call[p].pc # "idle" /\ call[p].pc # "dates" /\ ~Dispatching(p)}
LockFree == Evaluating = {}

(* Telegram handlers run one after another, and /check is one of them. *)
HandlerFree == up /\ \A p \in Callers : p = "check" => call[p].pc = "idle"

Enabled == {r \in Rules : state[r] = "enabled"}

FeeTooHigh(r) == fee >= amount[r]

-----------------------------------------------------------------------------
(* run_due_dca_checks: what is there to retry and to replay?               *)

Retriable(k, last) == k[1] \in Enabled /\ k[2] <= last

(* Mutant: what is to be retried is taken off the list. *)
KeptUnlessRetriable(last) == {k \in failures : k[1] \in Enabled /\ ~Retriable(k, last)}

(* Failures of rules that are gone are forgotten. *)
Kept(last) == {k \in failures : k[1] \in Enabled}

LastDue(past) == IF past THEN today ELSE today - 1

(* The start of a call: the clock, the failures and the cursor are read    *)
(* without giving control to another coroutine.  Without a cursor, today   *)
(* is evaluated if its reminder time is past; otherwise, next is NoDate,   *)
(* the call only sets a baseline.                                          *)
Begin(p, past) ==
  /\ failures' = Kept(LastDue(past))
  /\ call' = [call EXCEPT ![p] = [Idle EXCEPT
                 !.pc = "dates",
                 !.retries = {k \in failures : Retriable(k, LastDue(past))},
                 !.next = CASE cursor # NoDate -> cursor + 1
                            [] cursor = NoDate /\ past -> today
                            [] OTHER -> NoDate,
                 !.latest = LastDue(past)]]

(* The process starts, and with it the catch-up.  *)
Start ==
  /\ ~up
  /\ up' = TRUE
  /\ IF "catchup" \in Callers
       THEN Begin("catchup", late)
       ELSE UNCHANGED <<call, failures>>
  /\ UNCHANGED <<outsideVars, ruleVars, cursor, occurrences, events, since, bounds>>

(* It stops, by a crash or not. *)
Stop ==
  /\ up
  /\ crashes < MaxCrashes
  /\ crashes' = crashes + 1
  /\ up' = FALSE
  /\ call' = [p \in Callers |-> Idle]
  /\ UNCHANGED <<outsideVars, dbVars, since, changes>>

(* The clock.  Later days on which nothing more is due are folded into the *)
(* last one: the reminder time comes there again and again.                *)
NextDay ==
  /\ late
  /\ today < MaxDate
  /\ today' = today + 1
  /\ late' = FALSE
  /\ UNCHANGED <<dbVars, up, call, since, bounds>>

(* The cron trigger starts one job at a time, and none if the process is   *)
(* down.  A call is over within a day.                                     *)
ReminderTime ==
  /\ ~late \/ today = MaxDate
  /\ \A p \in Callers : call[p] # Idle => call[p].latest >= today - 1
  /\ late' = TRUE
  /\ IF up /\ "job" \in Callers /\ call["job"] = Idle
       THEN Begin("job", TRUE)
       ELSE UNCHANGED <<call, failures>>
  /\ UNCHANGED <<today, ruleVars, cursor, occurrences, events, up, since, bounds>>

-----------------------------------------------------------------------------
(* The user's commands; only the one that adds a rule takes the work lock. *)

AddRule(r, a) ==
  /\ HandlerFree
  /\ state[r] = "absent"
  /\ LockFree
  /\ fee < a
  /\ state' = [state EXCEPT ![r] = "enabled"]
  /\ created' = [created EXCEPT ![r] = today]
  /\ amount' = [amount EXCEPT ![r] = a]
  /\ UNCHANGED <<outsideVars, fee, cursor, failures, occurrences, events, up, call,
                 since, bounds>>

Change ==
  /\ HandlerFree
  /\ changes < MaxChanges
  /\ changes' = changes + 1

(* update_dca_rule_amount *)
SetDcaAmount(r, a) ==
  /\ Change
  /\ state[r] = "enabled"
  /\ fee < a
  /\ amount' = [amount EXCEPT ![r] = a]
  /\ UNCHANGED <<outsideVars, state, created, fee, cursor, failures, occurrences,
                 events, up, call, since, crashes>>

(* upsert_fund_fee does not look at the amounts of the rules. *)
SetFundFee(v) ==
  /\ Change
  /\ fee' = v
  /\ UNCHANGED <<outsideVars, state, created, amount, cursor, failures, occurrences,
                 events, up, call, since, crashes>>

(* Removing a rule of a fund disables it. *)
DeleteRule(r) ==
  /\ Change
  /\ state[r] = "enabled"
  /\ state' = [state EXCEPT ![r] = "removed"]
  /\ UNCHANGED <<outsideVars, created, amount, fee, cursor, failures, occurrences,
                 events, up, call, since, crashes>>

(* /check evaluates today, whatever the time, and leaves the cursor alone. *)
StartCheck ==
  /\ "check" \in Callers
  /\ Change
  /\ call' = [call EXCEPT !["check"] = [Idle EXCEPT !.pc = "dates", !.next = today,
                                                   !.latest = today]]
  /\ UNCHANGED <<outsideVars, dbVars, up, since, crashes>>

-----------------------------------------------------------------------------
(* evaluate_dca_rules for one date: under the lock, the enabled rules are  *)
(* listed with their amounts; the order in which they are then evaluated   *)
(* is left open.                                                           *)

(* A failure, oldest first: only its rule. *)
BeginRetry(p, k) ==
  /\ up /\ LockFree
  /\ call[p].pc = "dates"
  /\ k \in call[p].retries
  /\ \A other \in call[p].retries : k[2] <= other[2]
  /\ call' = [call EXCEPT ![p].pc = "rules",
                          ![p].retries = @ \ {k},
                          ![p].retrying = TRUE,
                          ![p].date = k[2],
                          ![p].listed = {<<r, amount[r]>> : r \in Enabled \cap {k[1]}}]
  /\ UNCHANGED <<outsideVars, dbVars, up, since, bounds>>

(* When no failure is left, the next date: all rules. *)
BeginDate(p) ==
  /\ up /\ LockFree
  /\ call[p].pc = "dates"
  /\ call[p].retries = {}
  /\ call[p].next # NoDate
  /\ call[p].next <= call[p].latest
  /\ call' = [call EXCEPT ![p].pc = "rules",
                          ![p].retrying = FALSE,
                          ![p].date = call[p].next,
                          ![p].next = @ + 1,
                          ![p].listed = {<<r, amount[r]>> : r \in Enabled}]
  /\ UNCHANGED <<outsideVars, dbVars, up, since, bounds>>

IsDue(r, d) == d >= created[r] /\ d \in Due[r]

(* A listed rule that is not due on the date, or was created after it. *)
EvaluateNotDue(p, r, a) ==
  /\ up
  /\ call[p].pc = "rules"
  /\ <<r, a>> \in call[p].listed
  /\ ~IsDue(r, call[p].date)
  /\ failures' = failures \ {<<r, call[p].date>>}
  /\ call' = [call EXCEPT ![p].listed = @ \ {<<r, a>>}]
  /\ UNCHANGED <<outsideVars, ruleVars, cursor, occurrences, events, up, since, bounds>>

(* Mutant: the reminder states the amount of the rule. *)
AmountOfRule(occurrence, a) == a

(* The amount a reminder states: that of the occurrence. *)
AmountStated(occurrence, a) == occurrence

(* The occurrence is created with the listed amount, unless it is there.   *)
CreateOccurrence(p, r, a) ==
  LET k == <<r, call[p].date>>
  IN  /\ up
      /\ call[p].pc = "rules"
      /\ <<r, a>> \in call[p].listed
      /\ IsDue(r, call[p].date)
      /\ \/ /\ occurrences[k] # NoOccurrence
            /\ UNCHANGED occurrences
         \/ /\ occurrences[k] = NoOccurrence
            /\ state[r] = "enabled"
            /\ fee < a
            /\ occurrences' = [occurrences EXCEPT ![k] = a]
      /\ call' = [call EXCEPT ![p].pc = "alert",
                              ![p].listed = @ \ {<<r, a>>},
                              ![p].made = <<r, AmountStated(occurrences'[k], a)>>]
      /\ UNCHANGED <<outsideVars, ruleVars, cursor, failures, events, up, since, bounds>>

(* Mutant: the failure is only logged. *)
FailedUnrecorded(k) == failures

(* upsert_dca_evaluation_failure *)
Failed(k) == failures \cup {k}

(* The rule was disabled since it was listed, or the fee is too high. *)
EvaluationFails(p, r, a) ==
  LET k == <<r, call[p].date>>
  IN  /\ up
      /\ call[p].pc = "rules"
      /\ <<r, a>> \in call[p].listed
      /\ IsDue(r, call[p].date)
      /\ occurrences[k] = NoOccurrence
      /\ state[r] # "enabled" \/ fee >= a
      /\ failures' = Failed(k)
      /\ call' = [call EXCEPT ![p].listed = @ \ {<<r, a>>}]
      /\ UNCHANGED <<outsideVars, ruleVars, cursor, occurrences, events, up, since,
                     bounds>>

(* alert_exists *)
AlertExists(k) == events[k].status = "reserved"

(* build_dca_reminder_alert, and in a transaction of its own the failure   *)
(* row is cleared.                                                         *)
BuildAlert(p) ==
  LET k == <<call[p].made[1], call[p].date>>
  IN  /\ up
      /\ call[p].pc = "alert"
      /\ failures' = failures \ {k}
      /\ call' = IF AlertExists(k)
                    THEN [call EXCEPT ![p].pc = "rules", ![p].made = <<>>]
                    ELSE [call EXCEPT ![p].pc = "reserve"]
      /\ UNCHANGED <<outsideVars, ruleVars, cursor, occurrences, events, up, since,
                     bounds>>

(* reserve_alert_event, in the next one; a reminder that was reserved in   *)
(* the meantime is left as it is.                                          *)
Reserve(p) ==
  LET k == <<call[p].made[1], call[p].date>>
  IN  /\ up
      /\ call[p].pc = "reserve"
      /\ events' = IF AlertExists(k) THEN events
                    ELSE [events EXCEPT ![k] = [status |-> "reserved",
                                                amount |-> call[p].made[2]]]
      /\ call' = [call EXCEPT ![p].pc = "rules", ![p].made = <<>>]
      /\ UNCHANGED <<outsideVars, ruleVars, cursor, failures, occurrences, up, since,
                     bounds>>

-----------------------------------------------------------------------------
(* _write_dca_check_date; since is set with the first write. *)
WriteCursor(d, before) ==
  /\ cursor' = d
  /\ since' = IF cursor = NoDate THEN before ELSE since

(* Mutants: the cursor jumps to the end of the replay, or one date too far. *)
AtLatest(p) == call[p].latest
AtNext(p) == call[p].next

(* The date that was evaluated. *)
At(p) == call[p].date

(* The dispatch (see NotificationDelivery) comes back, and the cursor is   *)
(* written.                                                                *)
EndDispatch(p) ==
  /\ up
  /\ Dispatching(p)
  /\ IF call[p].retrying \/ p = "check"
       THEN UNCHANGED <<cursor, since>>
       ELSE WriteCursor(At(p), call[p].date - 1)
  /\ call' = [call EXCEPT ![p].pc = "dates", ![p].date = 0, ![p].retrying = FALSE]
  /\ UNCHANGED <<outsideVars, ruleVars, failures, occurrences, events, up, bounds>>

(* It raises, and the call ends. *)
Abort(p) ==
  /\ up
  /\ Dispatching(p)
  /\ crashes < MaxCrashes
  /\ crashes' = crashes + 1
  /\ call' = [call EXCEPT ![p] = Idle]
  /\ UNCHANGED <<outsideVars, dbVars, up, since, changes>>

(* Nothing left to do; without a cursor a baseline is set. *)
EndCall(p) ==
  /\ up
  /\ call[p].pc = "dates"
  /\ call[p].retries = {}
  /\ call[p].next = NoDate \/ call[p].next > call[p].latest
  /\ IF call[p].next = NoDate
       THEN WriteCursor(call[p].latest, call[p].latest)
       ELSE UNCHANGED <<cursor, since>>
  /\ call' = [call EXCEPT ![p] = Idle]
  /\ UNCHANGED <<outsideVars, ruleVars, failures, occurrences, events, up, bounds>>

-----------------------------------------------------------------------------
(* The delivery of a reminder fails for good at a target. *)
DeliveryFails(k) ==
  /\ up
  /\ events[k].status = "reserved"
  /\ events' = [events EXCEPT ![k].status = "failed"]
  /\ UNCHANGED <<outsideVars, ruleVars, cursor, failures, occurrences, up, call, since,
                 bounds>>

-----------------------------------------------------------------------------
Init ==
  /\ today = 1 /\ late = FALSE
  /\ state = [r \in Rules |-> "absent"]
  /\ created = [r \in Rules |-> 0]
  /\ amount = [r \in Rules |-> CHOOSE a \in Amounts : TRUE]
  /\ fee \in Fees
  /\ cursor = NoDate
  /\ failures = {}
  /\ occurrences = [k \in Keys |-> NoOccurrence]
  /\ events = [k \in Keys |-> NoEvent]
  /\ up = FALSE
  /\ call = [p \in Callers |-> Idle]
  /\ since = 0
  /\ changes = 0 /\ crashes = 0

Evaluate(p) ==
  \/ \E k \in Keys : BeginRetry(p, k)
  \/ BeginDate(p)
  \/ \E r \in Rules, a \in Amounts :
       \/ EvaluateNotDue(p, r, a)
       \/ CreateOccurrence(p, r, a)
       \/ EvaluationFails(p, r, a)
  \/ BuildAlert(p)
  \/ Reserve(p)

Next ==
  \/ NextDay
  \/ ReminderTime
  \/ \E r \in Rules, a \in Amounts : AddRule(r, a)
  \/ \E r \in Rules, a \in Amounts : SetDcaAmount(r, a)
  \/ \E v \in Fees : SetFundFee(v)
  \/ \E r \in Rules : DeleteRule(r)
  \/ StartCheck
  \/ \E p \in Callers : Evaluate(p)
  \/ \E p \in Callers : EndDispatch(p)
  \/ \E p \in Callers : Abort(p)
  \/ \E p \in Callers : EndCall(p)
  \/ \E k \in Keys : DeliveryFails(k)
  \/ Start
  \/ Stop

Spec == Init /\ [][Next]_vars

-----------------------------------------------------------------------------
(* Properties. *)

Steps == {"idle", "dates", "rules", "alert", "reserve"}

Call == [pc : Steps, retries : SUBSET Keys,
         next : 0..(MaxDate + 1) \cup {NoDate}, latest : 0..MaxDate,
         retrying : BOOLEAN, date : 0..MaxDate,
         listed : SUBSET (Rules \X Amounts),
         made : (Rules \X Amounts) \cup {<<>>}]

TypeOK ==
  /\ today \in Dates /\ late \in BOOLEAN
  /\ state \in [Rules -> {"absent", "enabled", "removed"}]
  /\ created \in [Rules -> 0..MaxDate]
  /\ amount \in [Rules -> Amounts]
  /\ fee \in Fees
  /\ cursor \in 0..MaxDate \cup {NoDate}
  /\ failures \in SUBSET Keys
  /\ occurrences \in [Keys -> Amounts \cup {NoOccurrence}]
  /\ events \in [Keys -> Event \cup {NoEvent}]
  /\ up \in BOOLEAN
  /\ call \in [Callers -> Call]
  /\ since \in 0..MaxDate
  /\ changes \in 0..MaxChanges /\ crashes \in 0..MaxCrashes

(* The due dates of enabled rules that the cursor has passed.  The day of  *)
(* creation is left out: a rule created after the reminder time was not    *)
(* there when the day was evaluated.                                       *)
PassedTo(k, c) ==
  /\ state[k[1]] = "enabled"
  /\ k[2] \in Due[k[1]]
  /\ k[2] > created[k[1]]
  /\ k[2] > since
  /\ k[2] <= c

Reminded(k) == events[k] # NoEvent

Remembered(k) == k \in failures

(* Is a reminder being made of it, with the failure row cleared? *)
InTheMaking(k) ==
  \E p \in Evaluating : call[p].pc = "reserve" /\ k = <<call[p].made[1], call[p].date>>

(***************************************************************************)
(* A deduction is never lost: when the cursor is past a due date, the      *)
(* occurrence is there, or the failure that will be retried, whatever      *)
(* stopped in the middle and whichever calls overlapped.                   *)
(***************************************************************************)
DeductionsKept ==
  \A k \in Keys : PassedTo(k, cursor) =>
    occurrences[k] # NoOccurrence \/ Remembered(k)

Handled(k) == Reminded(k) \/ Remembered(k) \/ InTheMaking(k)

(***************************************************************************)
(* The cursor does not move past a due date before its reminder is         *)
(* reserved, or its failure recorded, or, by a check at the same time,     *)
(* about to be reserved.  After that nothing is forgotten of it, except    *)
(* when the process stops in the middle of making the reminder.            *)
(***************************************************************************)
RemindedWhenPassed ==
  [][\A k \in Keys :
       /\ PassedTo(k, cursor)' /\ ~PassedTo(k, cursor) /\ cursor' > cursor => Handled(k)
       /\ PassedTo(k, cursor)' /\ Handled(k) /\ ~Handled(k)' =>
            up /\ ~up' /\ InTheMaking(k)]_vars

(***************************************************************************)
(* What run_due_dca_checks and clear_dca_evaluation_failure promise, dates *)
(* missed are replayed and a failure is forgotten only after a successful  *)
(* evaluation: no due date the cursor has passed is without its reminder.  *)
(***************************************************************************)
NothingForgotten == \A k \in Keys : PassedTo(k, cursor) => Handled(k)

(* The promise is kept until the process first stops, or a dispatch raises. *)
NothingForgottenAtFirst == crashes = 0 => NothingForgotten

(***************************************************************************)
(* A reminder states the amount its occurrence will be booked              *)
(* with, also when the rule's amount was changed between the two and the   *)
(* date replayed after a crash, or reserved again after a failed delivery. *)
(***************************************************************************)
ReminderShowsDeduction ==
  \A k \in Keys : Reminded(k) => events[k].amount = occurrences[k]

(***************************************************************************)
(* Fairness: time passes, the process is started again, and a call runs on *)
(* when it can.                                                            *)
(***************************************************************************)
Fairness ==
  /\ WF_vars(NextDay)
  /\ WF_vars(ReminderTime)
  /\ WF_vars(Start)
  /\ \A p \in Callers : WF_vars(Evaluate(p) \/ EndDispatch(p) \/ EndCall(p))

FairSpec == Spec /\ Fairness

Outstanding(k) == PassedTo(k, today) /\ cursor # NoDate /\ occurrences[k] = NoOccurrence

(***************************************************************************)
(* Every due date of a fund gets its occurrence in the end, through missed *)
(* days, failed evaluations and calls that ended early, unless the rule is *)
(* removed or the fee stays too high.                                      *)
(***************************************************************************)
DeductionsHappen ==
  \A k \in Keys :
    Outstanding(k) /\ ~FeeTooHigh(k[1]) ~> ~Outstanding(k) \/ FeeTooHigh(k[1])
=============================================================================
