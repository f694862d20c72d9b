--------------------------- MODULE StandardDrawdown ---------------------------
(***************************************************************************)
(* Standard drawdown rules of one instrument (checks.py, db.py,            *)
(* rules/drawdown.py): a rule compares the latest price with the high of   *)
(* its window and reminds once per high and threshold.  Prices come from a *)
(* history kept in SQLite, of which only what seems to be missing is asked *)
(* of the provider, and from a realtime quote before the close or in       *)
(* /check.  Retention prunes the history and the reminders.                *)
(*                                                                         *)
(* Every evaluation, /check, prune and change of the rules is one step     *)
(* here.  The work lock serialises the first three; a rule is added or     *)
(* deleted without it, but an evaluation lists the rules once, so that a   *)
(* change during it is as good as one after it.  Reminders count as        *)
(* delivered; NotificationDelivery is about how they get there.  Prices    *)
(* are whole numbers and a day is a number.                                *)
(***************************************************************************)
EXTENDS Integers, Sequences, FiniteSets

CONSTANTS
  OpenDays,     \* the days the market is open
  Weekdays,     \* the days the scheduled checks run
  Prices,
  Lookbacks,    \* window lengths in calendar days
  Thresholds,   \* falls in percent
  Buffer,       \* _HISTORY_COVERAGE_BUFFER_DAYS
  Overlap,      \* _HISTORY_OVERLAP_DAYS
  LatestLookback, \* AKSHARE_LATEST_LOOKBACK_DAYS
  Retention,    \* DEFAULT_RETENTION_DAYS
  MaxDay, MaxRules

ASSUME StandardAssumption ==
  /\ MaxDay \in Nat \ {0} /\ MaxRules \in Nat
  /\ OpenDays \subseteq Nat \ {0} /\ Weekdays \subseteq Nat /\ OpenDays \subseteq Weekdays
  /\ Prices \subseteq Nat \ {0} /\ Lookbacks \subseteq Nat \ {0} /\ Thresholds \subseteq Nat
  /\ Buffer \in Nat /\ Overlap \in Nat /\ LatestLookback \in Nat
  /\ Retention \in Nat \ {0}

VARIABLES
  (* outside *)
  today,       \* the date
  evening,     \* is the session of today over?
  closes,      \* the closing prices so far, by open day
  published,   \* the last day whose close the provider serves; 0 if none
  (* the database *)
  rules,       \* the rules; AUTOINCREMENT, so the id is the position
  history,     \* market_daily_history: price by day
  events,      \* alert_events
  (* the process *)
  pruned,      \* the day of the last prune; 0 if before yesterday
  (* the result of the check that has just ended *)
  statuses,    \* DrawdownRuleStatus, by rule
  (* kept for the properties only *)
  told         \* the keys of all reminders ever made

vars == <<today, evening, closes, published, rules, history, events,
          pruned, statuses, told>>

Nothing == [d \in {} |-> 0]
None == 0

Restriction(f, days) == [d \in DOMAIN f \cap days |-> f[d]]
Merged(f, g) == [d \in DOMAIN f \cup DOMAIN g |-> IF d \in DOMAIN g THEN g[d] ELSE f[d]]

First(f) == CHOOSE d \in DOMAIN f : \A e \in DOMAIN f : d <= e
Last(f) == CHOOSE d \in DOMAIN f : \A e \in DOMAIN f : e <= d

(* list_enabled_rules *)
Enabled == {r \in 1..Len(rules) : rules[r].enabled}
Widest == CHOOSE l \in {rules[r].lookback : r \in Enabled} :
            \A r \in Enabled : rules[r].lookback <= l

Keys(es) == {e.key : e \in es}

(* Everything is pruned at startup and each morning: where the process     *)
(* runs that was today or yesterday.                                       *)
Running == pruned \in {today, today - 1} \ {0}

-----------------------------------------------------------------------------
(* What the provider serves.  During the session its daily history has a   *)
(* row of today with the price of the moment.                              *)
InProgress == IF evening THEN {} ELSE {today} \cap OpenDays

Served(from, to, spot) ==
  [d \in ({c \in DOMAIN closes : c <= published} \cup InProgress) \cap (from..to) |->
     IF d \in DOMAIN closes THEN closes[d] ELSE spot]

(* get_latest: a quote, with the date of its session; else the last row of *)
(* the daily history of the last days; else nothing.                       *)
LatestRows(spot) ==
  {[d \in {today} |-> spot] : x \in InProgress}
  \cup {Restriction(closes, {d}) : d \in {c \in DOMAIN closes : \A e \in DOMAIN closes : e <= c}}
  \cup {Restriction(closes, {published} \cap (today - LatestLookback..today))}

(* latest_completed_open_date; None when the calendar has no such day. *)
Confirmed ==
  IF OpenDays \cap (1..today - 1) = {} THEN None
  ELSE CHOOSE d \in OpenDays \cap (1..today - 1) :
         \A e \in OpenDays \cap (1..today - 1) : e <= d

-----------------------------------------------------------------------------
(* The history of a check.  A request says up to which day it reads from   *)
(* the database (stored) and the provider (end), which day it needs, if    *)
(* any, and whether it fails without that day (strict).                    *)
AfterCloseRequest == [end |-> today, stored |-> today, need |-> today, strict |-> FALSE]

LiveRequest(hasLatest) ==
  IF hasLatest
  THEN [end |-> today, stored |-> Confirmed, need |-> Confirmed, strict |-> TRUE]
  ELSE [end |-> Confirmed, stored |-> Confirmed, need |-> None, strict |-> FALSE]

Start == today - Widest
StorageStart == Start - Buffer

View(rows, q) == Restriction(rows, StorageStart..q.stored)

Covered(v, q) ==
  /\ DOMAIN v # {}
  /\ First(v) <= Start
  /\ q.need # None => Last(v) >= q.need

(* Unadjusted prices do not change: only what follows the stored rows is   *)
(* fetched, with an overlap.                                               *)
FetchStart(v) ==
  IF DOMAIN v # {} /\ First(v) <= Start /\ Last(v) >= Start /\ Last(v) - Overlap > StorageStart
  THEN Last(v) - Overlap
  ELSE StorageStart

(* Mutant: everything fetched is kept. *)
AllPersisted(f, q) == f

(* Rows after persist_end_date are not kept. *)
Persisted(f, q) == Restriction(f, 1..q.stored)

(* Mutant: a quote is put after whatever there is. *)
NeverMissing(v, q) == FALSE

(* EmptyMarketDataError: the day required before a quote is not there. *)
Missing(v, q) == q.strict /\ (DOMAIN v = {} \/ Last(v) < q.need)

-----------------------------------------------------------------------------
(* Mutant: the window is a day short. *)
ShortWindow(frame, l) == Restriction(frame, Last(frame) - l + 2..Last(frame))

(* calculate_drawdown_from_high *)
Window(frame, l) == Restriction(frame, Last(frame) - l + 1..Last(frame))

(* The first day with the highest price. *)
Peak(w) == CHOOSE d \in DOMAIN w :
             \A e \in DOMAIN w : w[e] < w[d] \/ (w[e] = w[d] /\ d <= e)

Status(frame, l) ==
  LET w == Window(frame, l)
      p == Peak(w)
  IN [lookback |-> l, date |-> Last(frame), price |-> frame[Last(frame)],
      peak |-> p, high |-> w[p]]

(* meets_threshold *)
Meets(price, high, t) == 100 * (high - price) >= t * high

(* build_drawdown_alerts and reserve_alert_event.  The key names no rule:  *)
(* of rules with the same window the first one reserves.                   *)
Alerts(ss) ==
  {a \in [key : {<<s.lookback, s.peak, t>> : s \in ss, t \in Thresholds},
          rule : Enabled, at : {today}] :
     /\ a.key \notin Keys(events)
     /\ rules[a.rule].lookback = a.key[1]
     /\ \A r \in Enabled : rules[r].lookback = a.key[1] => a.rule <= r
     /\ \E s \in ss : /\ s.lookback = a.key[1] /\ s.peak = a.key[2]
                      /\ Meets(s.price, s.high, a.key[3])}

(* A scheduled check skips a frame that does not end on its day.           *)
Decide(frame, expected) ==
  LET ss == IF expected # None /\ Last(frame) # expected THEN {}
            ELSE {Status(frame, rules[r].lookback) : r \in Enabled}
  IN /\ statuses' = ss
     /\ events' = events \cup Alerts(ss)
     /\ told' = told \cup Keys(Alerts(ss))

NoDecision == statuses' = {} /\ UNCHANGED <<events, told>>

(* evaluate_drawdown_rules; row is the latest row, or Nothing, that is put *)
(* after the history.                                                      *)
Evaluate(q, row, spot, expected) ==
  /\ Running /\ Enabled # {}
  /\ LET cached == View(history, q)
         fetched == Served(FetchStart(cached), q.end, spot)
         kept == View(Merged(history, Persisted(fetched, q)), q)
     IN \/ /\ Covered(cached, q)
           /\ Decide(Merged(cached, row), expected)
           /\ UNCHANGED history
        \/ /\ ~Covered(cached, q) /\ DOMAIN fetched # {}
           /\ history' = Merged(history, Persisted(fetched, q))
           /\ IF Missing(kept, q) THEN NoDecision
              ELSE Decide(Merged(IF q.need = None THEN fetched ELSE kept, row), expected)
  /\ UNCHANGED <<today, evening, closes, published, rules, pruned>>

(* run_scheduled_market_check; the calendar falls back to weekdays. *)
AfterCloseCheck ==
  /\ evening /\ today \in Weekdays
  /\ Evaluate(AfterCloseRequest, Nothing, None, today)

(* run_scheduled_before_close_check (expected is today) and /check (None) *)
LiveCheck(row, spot, expected) ==
  /\ Confirmed # None
  /\ Evaluate(LiveRequest(row # Nothing), row, spot, expected)

BeforeCloseCheck(spot) ==
  /\ ~evening /\ today \in Weekdays
  /\ \E row \in LatestRows(spot) : LiveCheck(row, spot, today)

CheckCommand(spot) == \E row \in LatestRows(spot) : LiveCheck(row, spot, None)

-----------------------------------------------------------------------------
(* add_rule *)
AddRule(l) ==
  /\ Running /\ Len(rules) < MaxRules
  /\ rules' = Append(rules, [lookback |-> l, enabled |-> TRUE])
  /\ statuses' = {}
  /\ UNCHANGED <<today, evening, closes, published, history, events, pruned, told>>

(* Mutant: the id of the last rule is free again. *)
FreeRule(r) ==
  /\ Running /\ r \in Enabled
  /\ rules' = IF r = Len(rules) THEN SubSeq(rules, 1, r - 1)
              ELSE [rules EXCEPT ![r].enabled = FALSE]
  /\ statuses' = {}
  /\ UNCHANGED <<today, evening, closes, published, history, events, pruned, told>>

(* delete_rule: a standard rule's row is deleted. *)
DeleteRule(r) ==
  /\ Running /\ r \in Enabled
  /\ rules' = [rules EXCEPT ![r].enabled = FALSE]
  /\ statuses' = {}
  /\ UNCHANGED <<today, evening, closes, published, history, events, pruned, told>>

(* Mutant: the reminders of the rules in use expire like all others. *)
KeyOfDeletedRule(e) == e.rule \notin Enabled

(* _alert_event_key_may_still_be_used: reminders of a deleted rule stay. *)
KeyMayBeUsed(e) ==
  e.rule \in Enabled => e.key[2] >= today - rules[e.rule].lookback

(* prune_database, at startup and after the NAV job of each morning *)
Prune ==
  /\ history' = IF Enabled = {} THEN Nothing
                ELSE Restriction(history, StorageStart..today)
  /\ events' = {e \in events : e.at >= today - Retention \/ KeyMayBeUsed(e)}
  /\ pruned' = today /\ statuses' = {}
  /\ UNCHANGED <<today, evening, closes, published, rules, told>>

-----------------------------------------------------------------------------
(* The session of an open day ends with a price, or the instrument was    *)
(* suspended.                                                              *)
Close(p) ==
  /\ ~evening
  /\ evening' = TRUE
  /\ \/ closes' = Merged(closes, [d \in {today} \cap OpenDays |-> p])
     \/ UNCHANGED closes
  /\ statuses' = {}
  /\ UNCHANGED <<today, published, rules, history, events, pruned, told>>

(* The provider serves all closes so far. *)
Publish ==
  /\ DOMAIN closes # {}
  /\ published' = Last(closes)
  /\ statuses' = {}
  /\ UNCHANGED <<today, evening, closes, rules, history, events, pruned, told>>

NextDay ==
  /\ evening /\ today < MaxDay
  /\ today' = today + 1 /\ evening' = FALSE
  /\ pruned' = IF pruned = today THEN today ELSE 0
  /\ statuses' = {}
  /\ UNCHANGED <<closes, published, rules, history, events, told>>

Init ==
  /\ today = 1 /\ evening = FALSE /\ closes = Nothing /\ published = 0
  /\ rules = <<>> /\ history = Nothing /\ events = {}
  /\ pruned = 0 /\ statuses = {} /\ told = {}

Next ==
  \/ AfterCloseCheck
  \/ \E p \in Prices : BeforeCloseCheck(p) \/ CheckCommand(p) \/ Close(p)
  \/ \E l \in Lookbacks : AddRule(l)
  \/ \E r \in 1..Len(rules) : DeleteRule(r)
  \/ Prune \/ Publish \/ NextDay

Spec == Init /\ [][Next]_vars

-----------------------------------------------------------------------------
Days == 1..MaxDay
PriceRows == UNION {[S -> Prices] : S \in SUBSET Days}
Windows == Lookbacks \X Days \X Thresholds

(* Every variable has its type. *)
TypeOK ==
  /\ today \in Days /\ evening \in BOOLEAN
  /\ closes \in PriceRows /\ DOMAIN closes \subseteq OpenDays \cap (1..today)
  /\ published \in {0} \cup DOMAIN closes
  /\ rules \in Seq([lookback : Lookbacks, enabled : BOOLEAN])
  /\ history \in PriceRows
  /\ events \subseteq [key : Windows, rule : 1..Len(rules), at : Days]
  /\ told \subseteq Windows /\ pruned \in {0, today - 1, today}
  /\ statuses \subseteq [lookback : Lookbacks, date : Days, price : Prices,
                         peak : Days, high : Prices]

(* What the database keeps as history are closing prices: neither a row of *)
(* the running session nor a quote is ever taken for a close (README.md:   *)
(* "a status refresh never treats the current session as a confirmed       *)
(* close").                                                                *)
HistoryIsOfCloses ==
  \A d \in DOMAIN history : d \in DOMAIN closes /\ history[d] = closes[d]

(* What a decision took for the high of its window is the high of all      *)
(* closes in it: no price is missing because the provider lags behind, the *)
(* service was away, a rule came later or rows were pruned.                *)
HighsAreTrue ==
  \A s \in statuses : \A d \in DOMAIN closes :
    d \in s.date - s.lookback + 1..s.date - 1 =>
      closes[d] < s.high \/ (closes[d] = s.high /\ s.peak <= d)

(* After a check that decided on today's close every rule has reminded of  *)
(* every threshold that the true fall from the true high of its window     *)
(* reaches.                                                                *)
FallsAreTold ==
  \A s \in statuses : (evening /\ s.date \in DOMAIN closes) =>
    \A t \in Thresholds, r \in Enabled :
      LET w == Restriction(closes, s.date - rules[r].lookback + 1..s.date)
      IN Meets(closes[s.date], w[Peak(w)], t) =>
           <<rules[r].lookback, Peak(w), t>> \in Keys(events)

(* A fall from one high through one threshold is told once, whatever is    *)
(* pruned, deleted or added again: retention keeps each key as long as it  *)
(* can suppress a reminder.                                                *)
OncePerHigh == [][Keys(events') \cap told \subseteq Keys(events)]_vars
=============================================================================
