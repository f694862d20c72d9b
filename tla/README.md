# fund-alert-bot: TLA+ models and proofs

fund-alert-bot is one Python process: a Telegram bot that evaluates investment
reminders on a schedule, keeps its state in one SQLite file and delivers alerts
to Telegram and to HTTP channels. It never trades. What makes it hard is not
any one function: jobs, retry calls, `/check` and button handlers share the
database, some under a process-wide work lock and some not; the process may
stop between any two transactions; deliveries are at least once; and the user
answers questions about a state that may have changed since they were asked.

## Inventory

| Component | State it keeps | Operations | Hard behaviours |
|---|---|---|---|
| Notification delivery (`db.py` 3447-4043, `notifications/`, `scheduler.py` 1112-1265) | `alert_events`, `notification_deliveries` (status, claim, lease, progress) | reserve, ensure targets, claim, send, complete, aggregate, list retryable, cancel removed targets | several calls deliver the same alert; a lease runs out during a send; a late result; a crash between send and result; a different wording resumed |
| Position ledger (`db.py` 1796-3444, `checks.py` 812-1041, `commands.py` 2388-3007) | `position_snapshots`, `position_cycles`, `fund_settings`, `manual_add_estimates`, `manual_add_actions`, `scheduled_dca_occurrences`, in-memory sync drafts | record additions, create and skip occurrences, sync, answer, apply estimates, close | double counting; stale answers; two sync marks; skip and close run beside the NAV job |
| Drawdown plan (`rules/drawdown_plan.py`, `db.py` 2248-2773 and 4046-4419, `checks.py` 381-810) | `drawdown_cycles`, `drawdown_tier_records`, reminder states, manual actions | evaluate, recover, pre-alert, snooze, skip, mark added | optimistic commit over a stale read; buttons of an old cycle; recovery over many days |
| Scheduled DCA (`rules/dca.py`, `scheduler.py` 904-1109, `checks.py` 2196-2352) | the date cursor, `dca_evaluation_failures`, occurrences | replay of due dates, failure retry, holiday policy | a crash between evaluation, dispatch and cursor |
| Price-Gain reminders (`rules/profit.py`, `db.py` 1877-2101, `checks.py` 1971-2193) | `position_profit_evaluations`, thresholds reached per cycle | evaluate at an exact NAV, persist conditionally | position, cycle or rule changes between read and write |
| Standard drawdown rules (`rules/drawdown.py`, `checks.py` 1278-1742 and 2355-2528) | `market_daily_history`, `alert_events` keys | complete the stored history, compare the fall from the high of a window with thresholds, reserve | a history with gaps; rows of a running session; a key pruned while its high still counts |
| Fixed-cost profit rules (`rules/profit.py`) | `alert_events` keys | compare one price with one number | — |
| Retention (`db.py` 492-1091) | all tables | prune by age | deleting what another table or a button still needs; ids given again |
| Scheduler, lock, start-up (`scheduler.py`, `async_work.py`, `main.py`) | the work lock, running jobs | register, run, catch up, stop | what runs beside what |
| Telegram commands (`commands.py`, `command_args.py`) | in-memory drafts with a 10-minute life | parse, confirm, commit | duplicate and expired buttons |
| Market data and calendar (`market_data/`) | caches, cooldowns of one process | fetch, normalise, confirm an open day | ambiguous, missing and late data; a calendar that is stale or ends too early |
| Configuration, i18n, views, runtime status, migrations | settings, texts, a heartbeat | — | none of the above |

Interactions. Jobs and commands evaluate under the work lock (`run_serialized`)
and hand the reserved events to `send_alert_notifications` outside it. The NAV
job applies pending contributions to the position and then evaluates gains.
Telegram handlers run one after another, but beside the jobs; recording an
addition, `/sync_position` and its answers take the work lock, `/dca_skip`, the
zero button, snooze and skip do not.

## Modules

| Module | Models | Kind |
|---|---|---|
| `DeliveryPromise` | what delivery promises for each alert and target: the audience is fixed once, a target counts as told only after a whole message, what is owed lapses only when the target leaves the configuration | abstract |
| `NotificationDelivery` | events, rows, claims, leases, chunks, batches, retry lists, crash, start-up | detailed, implements `DeliveryPromise` |
| `PositionPromise` | what the tracked position promises for each contribution: resolved once, by a copy of the platform exactly if the copy contains it, estimated only on top of a copy that lacks it and lacks nothing that cannot be estimated | abstract |
| `PositionLedger` | the tracked position of one fund and everything that feeds it | detailed, implements `PositionPromise` |
| `DrawdownPlan` | one drawdown plan: cycles, tier records, reminders, buttons, additions | detailed |
| `DcaSchedule` | which due dates of fixed DCA rules become an occurrence and a reminder | detailed |
| `PositionProfit` | gain reminders of one fund that follow its tracked position, and what retention does to their tables | detailed |
| `StandardDrawdown` | standard drawdown rules of one instrument, the price history they are computed from, and its retention | detailed |
| `NotificationDeliveryProofs`, `PositionLedgerProofs`, `DrawdownPlanProofs`, `DcaScheduleProofs`, `PositionProfitProofs`, `StandardDrawdownProofs` | theorems about the six | TLAPS |
| `DeliveryRefinementProofs` | delivery implements its promise (that the ledger does is in `PositionLedgerProofs`) | TLAPS |
| `NaturalExtrema` | least and greatest elements of sets of naturals, highest value of a finite function | TLAPS |
| `MC...` | values of the constants and symmetry sets for TLC | model checking |

Each proof module extends the module it is about. `PositionProfit` takes from
`PositionLedger` that a sync mark is set exactly while an addition without
estimate is unresolved; all modules leave the way of a reminder to the user to
`NotificationDelivery`, except where a reminder that stays undelivered matters.

Definitions named `...WithoutLock`, `...OfAnySource` and the like, under a
comment that begins with "Mutant", are plausible wrong versions of the
definition that follows them. No specification uses them; they serve to see that
each property notices such a mistake.

### NotificationDelivery

| State | Code |
|---|---|
| `eventStatus` | `alert_events.notification_status` |
| `rowStatus`, `claimToken`, `claimLease`, `progress` | the row of an event and target in `notification_deliveries`; `progress` is `result_json`: chunks sent and the fingerprint of the text they belong to |
| `active` | the configured targets, `{}` while the process is down |
| `phase`, `todo`, `batch`, `version` | one call of `send_alert_notifications`: where it is, the events it still has, the current batch and the wording it gives it |
| `slot`, `held`, `body`, `sentChunks`, `outcome` | the delivery of one call to one target |
| `leaseLeft`, `heard` | not in the program: what is left of the lease a call drew, and what a device received |

A claim token is the call that drew it, because a call draws one token at a time
for a target. Leases count down: `Tick` may come between any two steps, so with
`SendsOutlastLease` a send may last longer than its lease, and without it the
lease waits for the send. A restart loses all calls and may change the
configured targets. The user's devices are external: a chunk arrives, is
refused, or arrives with the reply lost.

### PositionLedger

Units and average cost are abstracted to what they are made from: `baseline`,
the contributions the last snapshot accounted for, and `added`, those applied
as estimates on top of it. A contribution is a scheduled DCA occurrence, a
manual addition with an estimate, or one without. `settled` is what the sales
platform has shown so far; the user copies exactly that, and answers the
"all / none included" question truthfully about the snapshot in hand. The NAV
job is split into its start, one step per listed row, and its end, because
`/dca_skip`, the zero button and a crash can come between; everything that takes
the work lock requires `job = "idle"`.

The ledger implements `PositionPromise`, whose state is what a reader of the
position needs: the fate of each contribution (unknown, waiting, counted,
skipped), the copy of the platform that the position is based on, and the
estimates on top of it, with what became known since although the copy held it
(`late`). `Fate` maps a status to a fate (applied and reconciled
are both counted), `baseline` is the copy and `added` the estimates. Recording
is `Learn`, `/dca_skip` and `holiday:skip` are `Skip`, the NAV job's `Apply` is
`Estimate`, and whatever replaces the position (`/sync_position`, an answered
draft, the zero button) is `Adopt`; drafts, marks, cycles, the steps of the
job in between and a restart stutter. Two things the promise does not say: that
the next copy contains what was estimated before it (the user may copy a
platform that is behind, and the code then drops the estimate from the
position), and that the copy is fresh (a draft may be answered until it is dropped,
in the code after ten minutes, as long as what waits is what it showed).

Nothing is assumed about the order in which the platform shows a contribution
and the bot records it. A due date that failed or was missed is evaluated days
later, and no record looks at when the last snapshot was copied, so an
occurrence may be created after a snapshot that holds it and then goes into the
position a second time. `NoDoubleCount` and `KeepsPositionPromise` hold except
for exactly these contributions, which the history variable `late` collects
until the next snapshot; see Findings.

### DrawdownPlan

| State | Code |
|---|---|
| `closes`, `session`, `restatements` | outside: the confirmed closes, whether today's is among them, and how often the provider restated old ones (qfq) |
| `enabled`, `margin` | `rules.enabled`, `rearm_margin` in `rules.params_json` |
| `cycles` | `drawdown_cycles`; the id is the position, the last row is the active one |
| `records` | `drawdown_tier_records` |
| `events` | the plan's `alert_events` with their metadata |
| `added` | `manual_add_actions` |
| `skipped`, `snoozed` | the two columns of `drawdown_tier_reminder_states` |
| `job` | the check that holds the work lock, and what it has read |
| `press` | a snooze or skip button between its read and its write |
| `drafts` | `manual_add_drafts`, the confirmations on the user's screen |

A check is a sequence of transactions with network calls between them, so it is
a sequence of actions: `Begin...` reads the cycle and the preferences,
`CommitEvaluation` computes and writes, provided the rule, the cycle and its
date are still what was read; before the close `Quote` reads a price and the
preferences again and `Announce` reserves the pre-alert. A restart may come
between any two. Recording an addition and changing the margin need the lock,
so they wait for the check; the snooze and skip buttons and deleting the rule
do not. Handlers of the bot run one after another, which `press` expresses.

Abstractions. A date is a position in the sequence of closes, so only trading
days are counted, and no check runs overnight. Prices are integers and a
percentage is compared exactly; the code compares decimals with a tolerance for
rounding. A dividend restates every close up to some date by a percentage,
rounded down, and may do so after later closes were evaluated. The moving
average and slope only word the message, and `saw_below_peak` is written and
never read, so both are left out. A confirmation checks its date and books the
addition in one step, as its handler does not yield in between except for the
lock. Creating a plan is `Init`. What an addition does to the position is in
`PositionLedger`.

### DcaSchedule

| State | Code |
|---|---|
| `today`, `late` | the clock: the date, and whether its reminder time is past |
| `state`, `created`, `amount` | `rules.enabled`, `created_at` as a date, the amount in `params_json` |
| `fee` | the fixed fee in `fund_settings` |
| `cursor` | `dca_last_checked_date` in `app_metadata` |
| `failures` | the keys of `dca_evaluation_failures` |
| `occurrences` | `gross_amount` of the rows of `scheduled_dca_occurrences` |
| `events` | the DCA events in `alert_events`: reserved or sent, or failed, and the amount in the payload |
| `call` | one call of `run_due_dca_checks` by the job or the catch-up, or one `/check` |
| `since` | not in the program: the day before the first one the cursor counts from |

A call reads the clock, the failures and the cursor in one step (`Begin`),
because nothing in between yields. Then it retries the failures it read, oldest
first, and replays the dates after the cursor. Each evaluation holds the work
lock from `BeginRetry` or `BeginDate` to its last rule; its transactions are
`EvaluateNotDue`, `CreateOccurrence`, `EvaluationFails`, `BuildAlert` (which
clears the failure row) and `Reserve`. Dispatch and cursor come after the lock,
in `EndDispatch`, so calls overlap there. Commands change amount and fee outside
the lock at any time.

Abstractions. Due dates are any set of days, as a weekday would give them. Days
after the last modelled one are folded into it: the reminder time comes again
and again, which retries what failed. A call is over within a day of its
start: a call that outlives the next reminder time would only make the job skip
a turn (`max_instances=1`). Rules without a fund are evaluated alike but have no
occurrence; they are not modelled. The day of creation is left out of the
properties: a rule created after the reminder time of its own weekday is not
reminded of that day. Holiday policy and the effective date of an occurrence
are left out; what becomes of an occurrence is in `PositionLedger`.

### PositionProfit

| State | Code |
|---|---|
| `today`, `nav` | outside: the date and the NAV of the last completed open day |
| `rules` | the auto-cost profit rules of the fund: thresholds and `enabled` |
| `position` | the row of `position_snapshots` |
| `pending` | the kinds of item `list_pending_position_items` would show |
| `cycles` | `position_cycles`; ids are given again after pruning, as the column is no `AUTOINCREMENT` |
| `recorded` | `position_profit_thresholds`, each with the event that reminds of it |
| `evaluated` | `position_profit_evaluations` |
| `events` | the gain reminders in `alert_events`; `row` says whether the row still exists |
| `job` | the evaluation that holds the work lock, and what it has read |
| `started`, `changes`, `crashes` | not in the program: cycles ever begun, and bounds |

An evaluation is `Begin`, `FetchNav` or `NavUnavailable`, `Evaluate` (the second
reading) and a commit: `RecordEvaluation`, `PersistAlert` or `CommitFails`, which
tries once more. The commit compares rule, cycle, position and sync mark with
what was read (`StateMatches`). `SkipDeduction`, `ClosePosition` (the zero button)
and `DeleteRule` do not take the lock and may come between any two of these;
synchronising, contributions and pruning take it. `Prune` is the part of
`prune_database` that touches these tables, in its one transaction.

Cycles have a `serial` besides their id, which the program does not have: two
cycles with one id are different cycles to the user. One assumption keeps this
harmless: no reminder stays undelivered until it is old enough to be pruned
(guard of `NextDay`). Without it a reminder about a pruned cycle keeps its
row for ever, and its zero button would fit the next cycle with that id.

Abstractions. One rule at a time is what the code allows for a fund; an old
rule may be replaced by a new one. Units are a small number, the cost one of
`Costs`, and a gain is compared in integers. The NAV a day's job needs is named
by the day of the job.

### StandardDrawdown

| State | Code |
|---|---|
| `today`, `evening`, `closes`, `published` | outside: the date, whether its session is over, the closes so far, and how far the provider serves them |
| `rules` | the standard drawdown rules of the instrument: window and `enabled` |
| `history` | its rows in `market_daily_history` |
| `events`, `told` | its reminders in `alert_events`; all keys ever reserved |
| `pruned` | the last day on which `prune_database` ran |
| `statuses` | what the check that has just ended decided on |

`AfterCloseCheck`, `BeforeCloseCheck` and `CheckCommand` differ in the request
they make of the history (`AfterCloseRequest`, `LiveRequest`), in the row they put
after it and in the day they insist on. `Evaluate` is what they share: read
the stored rows (`View`), ask whether they cover the request (`Covered`), fetch
what seems to be missing (`FetchStart`, `Served`), keep the closes of it
(`Persisted`), fail if the required day is not there (`Missing`), decide on the
window of each rule and reserve (`Decide`).

A check is one step. The work lock serialises checks and prunes; a rule may be
added or deleted beside a check, but the check lists the rules once, so that the
change is as good as one after it. Reminders count as delivered. Prices are
whole numbers, and unadjusted, as the code keeps them. The market is open on
`OpenDays`; it may be closed on a weekday, and the instrument may be suspended on
an open day. The provider may lag behind by any number of days, and may fail,
which is a check that does not happen.

## Runs

| Run | Bounds | Shows |
|---|---|---|
| `delivery_live` | 1 alert, 2 targets, 2 calls, 2 chunks, 1 restart, under `FairSpec` | every alert on a retry list is closed in the end, so a target that left the configuration holds none open; the event status agrees with its rows; without loss nothing is sent to a target that has it |
| `delivery_wordings` | 1 alert, 2 calls, 2 wordings of 2 chunks, lost replies, sends that outlast their lease, 1 restart | refinement of `DeliveryPromise`: a resumed send never counts as a whole message of another wording; closed alerts stay closed |
| `delivery_batches` | 2 reminders merged or apart, 2 calls, 1 restart | a result that comes back within its lease is never discarded, claims of part of a batch included |
| `position_ledger` | one contribution of each kind, 2 snapshots, 1 draft at a time, any number of restarts, under `FairSpec` | nothing is counted twice except what is recorded after a snapshot that holds it; sync marks are exact; refinement of `PositionPromise`: an answer resolves what its copy contains and nothing else, once; the position cycle follows the units; estimates never join a position known to lack units, and one whose NAV is out does not wait for ever |
| `drawdown_plan` | 2 tiers, 2 prices, 2 margins, 3 days, 1 restatement, 1 draft, 1 restart | facts are complete and final; every pending tier is reminded of and no added one; additions are explained and join the active cycle; after missed days and restated prices the peak is the highest close of the cycle; only a new close that gains the margin ends a cycle |
| `drawdown_live` | 1 tier, 3 prices, 3 days, 1 restart, under `FairSpec` | every close of an enabled plan is evaluated in the end |
| `drawdown_skip` | 1 tier, 3 prices | expected to fail, see Findings |
| `dca_schedule` | 1 rule due on the second of 2 days, all 3 callers, 2 amounts, 2 fees, 2 changes, 1 stop or raised dispatch, under `FairSpec` | no due date the cursor has passed loses its deduction; the cursor does not overtake a reminder; a reminder states what will be booked; every due date is deducted in the end |
| `dca_lost` | the same | expected to fail, see Findings |
| `profit_changes` | 2 thresholds, 2 NAVs, 2 costs, 3 days, retention of 1 day, 1 rule, 2 changes of the position, 1 restart, under `FairSpec` | each reached threshold is reminded of, once per cycle; no NAV is marked as evaluated from numbers that changed; an old zero button closes no new cycle |
| `standard_rules` | 6 days with a closed one, window of 3, buffer, overlap and retention of 1, 2 prices, 2 rules in succession or together | the history holds closes only and is complete for every decision; every fall is told, once |
| `standard_repeat` | 6 days with two closed ones, retention of 2, 1 rule | expected to fail, see Findings |

Why the bounds are enough. The delivery hazards each involve two parties of one
kind (two calls, two wordings, two targets, two events in a batch) and one or
two restarts; a third party only repeats the roles. In the ledger a stale
answer needs one draft and one change of the pending set; two snapshots let an
old draft meet a newer position. In a drawdown plan a cycle needs a high and a
fall, its end another high and the hazards of the next cycle another fall: three
days after the first close give each of them in every order with a missed day.
The prices 79 and 106 make falls of 25 % that reach both tiers and, after a
restatement by 10 %, of 17 % that reach one, and rises of 34 % and 11 % on
either side of a margin of 20 %. In the DCA schedule the rules do not meet except
in the fee, so one rule and one due date carry the hazards; three callers give
every overlap the scheduler allows, and the day before the due date lets the
cursor be set before it. For gains, the two NAVs and costs give every set of
crossed thresholds; with a retention of a day, three days let a cycle end, be
pruned with its thresholds and reminders, and another begin under its id. For
the standard rules six days hold a window, a break longer than a day, rows that
fall out of the window and a rule that is deleted and added again.

The bounds are constants: restarts (`MaxCrashes`, in `DcaSchedule` also
dispatches that raise; unbounded in `PositionLedger`), changes of rules, fee or position and `/check`
(`MaxChanges`), snapshots (`MaxSyncs`), days (`MaxDate`, `MaxDay`), rules
(`MaxRules`), restatements (`MaxRestatements`), confirmations open at a time
(`MaxDrafts`, `Tokens`). Calls, tokens, leases and events are finite sets or
intervals. `CHECK_DEADLOCK FALSE` is set only where the bounds, once used up,
leave nothing to do.

Fairness. Retry calls, the NAV job and both drawdown checks are cron jobs that
run every day, and each handles every row it lists: weak fairness of their
steps. A send succeeds now and then when it is tried again and again, and NAV
answers now and then: strong fairness of the successful outcome (`SendChunk`,
`Apply`, `FetchNav`). Each estimate is applied at most once, so strong fairness
of applying some one is enough for all. Prices are published in the end, so a
drawdown check that finds none is only a delay and not modelled. The DCA job is
a daily cron job, the process is started again after a stop by its supervisor,
and a call that can go on does. Nothing is assumed about the user, the platform
or the market. Restarts are limited by the bounds, in `PositionLedger` by the
assumption that the process does not restart for ever (`<>[][~Crash]_vars`).

## Findings

`drawdown_skip`: the guide (`docs/investment-plan-guide.md:47`) says that a tier
the user skipped is not offered again in that cycle, and the bot's reply to the
button says so too. `drawdown_skip_callback` writes without the work lock. A
check that had read the skipped tiers before still reserves a reminder that
contains the tier, after the skip is committed. The window lasts from the
check's read to its write. With the lock, as for additions, the run passes.

`dca_lost`: `evaluate_dca_rules` clears the failure row of a rule and date
(`checks.py:2298`) in one transaction and reserves the reminder (`checks.py:2308`)
in the next. In a retry the cursor is past the date already, so between the two
nothing remembers it: if the process stops there, nothing ever reminds of the
date. `clear_dca_evaluation_failure` (`db.py:1736`) is documented to forget a
failure "after a successful evaluation", and `run_due_dca_checks`
(`scheduler.py:992`) to "retry failed rule dates". The occurrence is kept, so the
deduction is booked without the user having been offered `/dca_skip`.
`RemindedWhenPassed` shows that dates the cursor is about to pass are safe;
`DeductionsKept` that the deduction is never lost.

`standard_repeat`: a key of an enabled rule is pruned once its high is older
than the window counted from today (`db.py:1053`), but the window of a decision
is counted from the last data date (`rules/drawdown.py:63`), which on a closed
day is earlier. With a window about as long as retention (400 days) or longer, a
prune on such a day deletes a reminder whose high `/check` still finds on the
same day, and the fall is told again. `docs/investment-plan-implementation.md:879`
says never to prune deduplication keys that may still suppress a valid
duplicate. Windows that end at least the fetch buffer before retention does are
safe, which `ToldOnce` proves.

Counted twice, without a run of its own: a fixed fee is above the amount on a
due date, so the evaluation fails; the user copies a snapshot that holds the
deduction; the fee is corrected, the retry (`scheduler.py:1025`) creates the
occurrence, for `create_scheduled_dca_occurrence` (`db.py:2801`) does not look at
`last_synced_at`, and the NAV job adds it on top. A replay of missed dates does
the same. With `CountedOnce` in place of `NoDoubleCount` the run fails; the
position itself is double after seven steps. `docs/deployment.zh-CN.md:211` has the operator expect that
each contribution is counted once and not again after a sync. The next snapshot
repairs the position.

Limits of the code that are assumptions of the models rather than findings, as
no document speaks of them: the id of a pruned position cycle,
given again while a reminder about the old one is undelivered (`PositionProfit`);
windows of different lengths (`checks.py:1429`): when a rule with a long window
is deleted after a pause of the service, the next fetch begins with the short
window of those that are left, and the rows before it end where the pause began;
if the long rule is added again before the next prune, coverage is judged from
the first and the last row only and the gap is not seen (`OneWindow` in
`StandardDrawdownProofs`).

## Proofs

The theorems hold for any values of the constants that satisfy the
assumptions of their module (`DeliveryAssumption`, `LedgerAssumption`,
`PlanAssumption` and `NoEventAssumption`, `ScheduleAssumption`,
`ProfitAssumption`, `StandardAssumption`). These say what kind of value a
constant is, and that `NoEvent` is no event; they say nothing about behaviour.
Three theorems of `StandardDrawdownProofs` have hypotheses of their own, stated
in them.

`NotificationDeliveryProofs`

* `TypeCorrect`: `Spec => []TypeOK`.
* `LiveClaims`: `Spec => []LiveClaimAccepted`. The property is not inductive: it
  needs that a call's own count of its lease and the row's are in step, and
  that claims are held only by a delivery under way in a process that is up.
  With these it forms `ClaimsInStep`, which each action is proved to keep. The
  argument in a sentence: a claimer takes a row only when its lease is at zero,
  and a running lease is at zero for both at once.
* `SentOnce`: `Spec => NothingTwice`, which speaks of behaviours without late
  sends, lost replies and crashes so far. `Secure` says who knows what a target has
  heard: while one delivery sends, no other claims the row, and what it has sent
  beyond the recorded progress is its own. The part about single chunks needs
  `SteadyWhenUndisturbed`, and the condition `OneMessageEach`: a result under
  another wording, or in another batch, replaces the progress of the row, and the
  chunks of the first message are sent again when it is resumed. TLC shows the
  property without the condition to fail.

`DeliveryRefinementProofs`

* `WholeMessages`: `Spec => []WholeMessageDelivered`, from `RecordsAreTrue`: what a
  call and a row record of a send is what the device has heard. Progress counts
  only for the message whose fingerprint it carries, so a call that words the
  alert differently, or sends it in another batch, starts from the first chunk.
* `StatusesMatch`, `ClosedStayClosed`: the status of an event follows from its
  rows (`AggregateExact`, `AggregateMatches`), and what is settled stays so.
* `UnfinishedAreConfigured`: the reconciliation at start-up is the only place
  where targets disappear, and leaves no row of theirs unfinished.
* `DeliveryKeepsPromise`: `Spec => KeepsPromise`, one step lemma per action
  (`NextBatchPromise`, `SendPromise`, `RecordPromise`, `StartupPromise`); all other
  actions stutter, as they change neither a row's status nor what is heard.

`PositionLedgerProofs`

* `TypeCorrect`: `Spec => []TypeOK`.
* `NothingCountedTwice`: `Spec => []NoDoubleCount`, from `BooksInStep`, which
  adds that what is on top of the snapshot has status applied, so that nothing
  recorded now is on top already. The rest is that a record made late is in
  `late`, and that an answer leaves nothing waiting that its snapshot holds.
* `CountedOnceInTime`: `Spec /\ []RecordedInTime => []CountedOnce`. The same
  without the exception, under the hypothesis that no estimate is still
  unrecorded while the snapshot in use holds it. The code does not ensure it.
* `SyncMarksExact`, `CyclesFollowUnits`: the two further state invariants, which
  are inductive with the type.
* `ResolvedAreCounted`, `AppliedOnlyWhenKnown`, `ResolvedStayResolved`: the
  action properties, each by what the steps that change a status (`StatusStep`)
  do to it.
* `ImplementsPositionPromise`: `Spec => KeepsPositionPromise`. Each action maps
  to one of the promise or to a stutter, given three invariants: the type for
  every step, `BooksInStep` for applying (what waits is not on top of the copy,
  and not in it unless late), and `SyncRequiredWhileUnresolved` for applying
  (no mark, so nothing of unknown units waits). That an answer counts exactly
  what its copy contains needs the comparison of the pending set with the one
  shown (`StillPending`).

`DrawdownPlanProofs`, in two parts.

* `FactsAreFinal`, `AddedAreLeftAlone`, `AdditionsExplained`,
  `AdditionsAreCurrent`. They rest on `PlanInv`: every table refers to cycles
  that exist (so the id of a new cycle is new to all of them); the additions a
  check has read under the lock are current while it computes; a draft for today
  holds tiers that a reminder of its cycle offered. `CommitOutcome` states once
  what persisting an evaluation may do to the tables, without the arithmetic,
  and this part uses only that.
* `TypeCorrect`, `PeaksAreHighest`, `OnlyHighsRearm`, `ReachedAreRecorded`,
  `PendingAreReminded`. They need what an evaluation computes. `TypeInv` is the
  type together with the order of a row's dates (anchor, peak, last evaluation,
  last close), that a check works on a date not evaluated yet, and that every
  table refers to cycles there are. `EvaluationIs` and `CommitDoes` restate the
  evaluation for the rest: that a range of closes has a highest one, which its
  CHOOSE picks, is `HighestExists` of `NaturalExtrema`. `PendingAreReminded`
  further needs `ExcuseInv`: what an evaluation found hidden, added, skipped or
  snoozed, still is when it writes, although skips and snoozes are written
  without the lock: skips and additions are never taken back, and no button
  makes a snooze end earlier, as it is never for a date after today.

`DcaScheduleProofs`

* `TypeCorrect`: `Spec => []TypeOK`, together with what a call knows of itself
  (`CallShape`): it looks no further than today, the date it replays is the one
  before its next, and what it makes a reminder of has an occurrence.
* `RemindersShowDeductions`: an occurrence never changes its amount, and a
  reminder takes it from there.
* `NoDeductionLost`: `Spec => []DeductionsKept`. The cursor may go back when calls
  overlap, so the cursor alone is not inductive. `ReplayedKept` says it of every
  call: all dates up to its own are held, so whichever call writes, and in
  whatever order, writes no date that is not. `EvaluatedKept` says it of the rules
  a call has taken off its list. The case without a cursor needs that calls which
  overlap began at most a day apart (`Neighbours`): the first one to write decides
  where the cursor counts from.

* `NotPassedUnreminded`: `Spec => RemindedWhenPassed`, and
  `NothingForgottenBeforeAStop`: `Spec => []NothingForgottenAtFirst`. A stop may
  lose a reminder of a date the cursor has passed (`dca_lost`), so that passed dates
  are handled is no invariant. `HandledInv` is: there is a date, where the cursor
  stood at the last stop, such that all dates after it which the cursor or a call is
  past are handled; and of the date under evaluation, all rules that are off the
  list. `WrittenHandled` concludes that what a write adds to the cursor is handled,
  and `HandledStays` that every step but a stop leaves it so.

`PositionProfitProofs`

* `TypeCorrect`, from `TypeInv`: there is a largest id, so `NextId` is new
  (`NextIdIsNew`), and a job that is under way has a rule.
* `OnePerThreshold`, `ButtonsCloseTheirCycle`, `NoThresholdPassedOver`, from
  `ReminderInv`: serials tell the cycles apart; a reminder about a cycle that
  exists is remembered in the thresholds of that cycle; a reminder whose row is
  there has its cycle there, under its id and serial; what a job has
  computed was missing from the thresholds and still is, as only the job
  writes them. Pruning keeps it because a threshold is forgotten only with its
  cycle and a reminder only when no threshold refers to it.

`StandardDrawdownProofs`

* `TypeCorrect`, `OnlyClosesAreKept`: without hypotheses, from `Base`; the rows a
  check keeps end before the session that is running.
* `HighsTrue`, `FallsTold`: if `Calendar` holds (one window length, `OneWindow`;
  breaks of the market of at most the fetch buffer, `ShortBreaks`) and as long
  as the last published close is in reach of the latest-price request
  (`[]RecentPrice`). The inductive part is `Filling`: from the start of the
  buffered window on, the history has no gap before its last row. A fetch
  starts at the last stored row or at the start, so it leaves none; a prune cuts
  before the start; the start only moves on. In the code the buffer is 14 days,
  longer than any holiday, and the request reaches 45 days back.
* `ToldOnce`: if moreover window and buffer are covered by retention
  (`LongRetention`). With the code's 400 days that is any window up to 386 days, the
  default of 365 included. `standard_rules` satisfies `Calendar` and not
  `LongRetention`: there the key is kept by `KeyMayBeUsed` alone, which suffices
  while no break is longer than a day; `standard_repeat` shows how it fails.

Only model-checked: liveness under fairness (`RetriedEventsSettle`,
`PendingEndsUp`, `CatchesUp`, `DeductionsHappen`, `ReachedAreReminded`), which is
out of the prover's reach. Every other property of a passing run is a theorem.
`WholeMessageDelivered`, `UnfinishedRowsAreConfigured` and `ResolvedOnce` are
proved and not part of a run of their own: the first is what the refinement of
`DeliveryPromise` demands of `Tell`, the second the reason for
`RetriedEventsSettle`, and the third follows from the refinement of
`PositionPromise` except that it also tells applied from reconciled.

## Plan

Done: delivery and ledger with their refinements, drawdown plan, DCA schedule, gain
reminders and standard drawdown rules with the retention of their tables, each
with its theorems. Left, in this order:

1. `EffectiveDay`: from a due date to the first confirmed open day, over
   several runs with a calendar that is cached for a day, may not answer and
   ends at some date, and the holiday policy.
2. Compositions: the ledger with the gain evaluation, delivery with the jobs
   that reserve events.
3. Pure algorithms as functions over bounded inputs: splitting of texts.

## Not modelled

* Formatting, i18n, parsing of commands and configuration, HTTP request shapes
  and views: they change no state that the modelled parts read.
* Migrations: one transaction each, before anything else runs.
* Market data: the network side is a choice of the environment in the modules
  that use it; the provider's cooldowns and memory caches only change when a
  fetch fails.
* The trading calendar and the effective date of an occurrence
  (`checks.py:969`). A sound model has to say when the published calendar may
  be revised after it was loaded, which the code does not define; the holiday
  skip is in `PositionLedger` as an outcome.
* Fixed-cost profit rules: an evaluation reads one price and one number, keeps
  no state and reserves by a key, as the standard drawdown rules do.
* Occurrences replayed late (`db.py:2801`), see the limits under Findings.
* Floating-point amounts: the guards on them are single conditions, and the
  tolerance of comparisons is left out.
