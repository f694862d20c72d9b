---------------------------- MODULE PositionProfit ----------------------------
(***************************************************************************)
(* Price-Gain reminders that follow the tracked position of one fund       *)
(* (checks.py, db.py, rules/profit.py), together with the retention of     *)
(* what they remember.  A rule reminds once per threshold and position     *)
(* cycle; a cycle lasts while units are positive.                          *)
(*                                                                         *)
(* The NAV job holds the work lock from Begin to its commit, but reads     *)
(* position, cycle and thresholds, fetches a NAV, reads again, computes    *)
(* and writes in separate transactions.  The zero button under a reminder, *)
(* skipping a deduction and deleting a rule do not take the lock and come  *)
(* in between; everything else that changes the position takes it.         *)
(*                                                                         *)
(* Where contributions come from is in PositionLedger, how a reminder is   *)
(* delivered in NotificationDelivery.  A sync mark is set exactly while an *)
(* addition without estimate is unresolved, which PositionLedger shows.    *)
(***************************************************************************)
EXTENDS Integers, Sequences, FiniteSets

CONSTANTS
  Thresholds,   \* gains in percent
  Navs, Costs,
  MaxDate,      \* the last day that is modelled
  Retention,    \* DEFAULT_RETENTION_DAYS
  MaxRules, MaxChanges, MaxCrashes

ASSUME ProfitAssumption ==
  /\ MaxDate \in Nat \ {0} /\ Retention \in Nat \ {0}
  /\ Thresholds \subseteq Nat /\ Navs \subseteq Nat \ {0} /\ Costs \subseteq Nat \ {0}
  /\ MaxRules \in Nat /\ MaxChanges \in Nat /\ MaxCrashes \in Nat

VARIABLES
  (* outside *)
  today,       \* the date
  nav,         \* the NAV of the last completed open day
  (* the database *)
  rules,       \* the auto-cost rules of the fund; the id is the position
  position,    \* position_snapshots
  pending,     \* kinds of list_pending_position_items: "estimate", "action"
  cycles,      \* position_cycles: a function from the ids that exist
  recorded,    \* position_profit_thresholds
  evaluated,   \* position_profit_evaluations
  events,      \* alert_events; AUTOINCREMENT, so the id is the position
  (* the process *)
  job,         \* the evaluation under way, and what it has read
  (* kept for the properties and bounds only *)
  started,     \* how many cycles were ever started
  changes, crashes

bounds == <<changes, crashes>>
vars == <<today, nav, rules, position, pending, cycles, recorded, evaluated,
          events, job, started, bounds>>

Rules == 1..Len(rules)
Events == 1..Len(events)

NoPosition == [units |-> 0, cost |-> 0, estimated |-> FALSE]

Idle == [pc |-> "idle", rule |-> 0, retried |-> FALSE, cycle |-> 0,
         position |-> NoPosition, crossed |-> {}]

LockFree == job = Idle

(* get_active_position_cycle *)
Active == {c \in DOMAIN cycles : cycles[c].ended = 0}

(* position_sync_required_since, of the settings or the snapshot *)
SyncRequired == "action" \in pending

Recorded(r, c) == {t \in Thresholds : \E e \in Events : <<r, c, t, e>> \in recorded}

-----------------------------------------------------------------------------
(* Mutant: one too low. *)
LargestId == IF DOMAIN cycles = {} THEN 0
             ELSE CHOOSE c \in DOMAIN cycles : \A d \in DOMAIN cycles : d <= c

(* The id column is no AUTOINCREMENT: SQLite gives the largest id in the   *)
(* table plus one.                                                         *)
NextId == IF DOMAIN cycles = {} THEN 1
          ELSE 1 + CHOOSE c \in DOMAIN cycles : \A d \in DOMAIN cycles : d <= c

(* _maintain_position_cycle, where the new units are u. *)
MaintainCycle(u) ==
  \/ /\ u = 0
     /\ cycles' = [c \in DOMAIN cycles |->
                     IF c \in Active THEN [cycles[c] EXCEPT !.ended = today]
                     ELSE cycles[c]]
     /\ UNCHANGED started
  \/ /\ u > 0 /\ Active # {}
     /\ UNCHANGED <<cycles, started>>
  \/ /\ u > 0 /\ Active = {}
     /\ cycles' = [c \in DOMAIN cycles \cup {NextId} |->
                     IF c = NextId THEN [serial |-> started + 1, ended |-> 0]
                     ELSE cycles[c]]
     /\ started' = started + 1

Change ==
  /\ changes < MaxChanges
  /\ changes' = changes + 1

(* /sync_position and its answer; a snapshot without units has no cost. *)
Sync(u, c, included) ==
  /\ Change /\ LockFree
  /\ position' = [units |-> u, cost |-> IF u = 0 THEN 0 ELSE c, estimated |-> FALSE]
  /\ MaintainCycle(u)
  /\ pending' = IF included THEN {} ELSE pending
  /\ UNCHANGED <<today, nav, rules, recorded, evaluated, events, job, crashes>>

(* A deduction comes due, or an addition is recorded, with an estimate or  *)
(* without.                                                                *)
Contribute(kind) ==
  /\ Change /\ LockFree
  /\ pending' = pending \cup {kind}
  /\ UNCHANGED <<today, nav, rules, position, cycles, recorded, evaluated, events, job,
                 started, crashes>>

(* The NAV job applies the estimates, before it evaluates gains. *)
ApplyEstimates(c) ==
  /\ LockFree
  /\ "estimate" \in pending /\ ~SyncRequired
  /\ position' = [units |-> position.units + 1, cost |-> c, estimated |-> TRUE]
  /\ MaintainCycle(position.units + 1)
  /\ pending' = pending \ {"estimate"}
  /\ UNCHANGED <<today, nav, rules, recorded, evaluated, events, job, bounds>>

(* /dca_skip, which does not take the lock *)
SkipDeduction ==
  /\ "estimate" \in pending
  /\ pending' = pending \ {"estimate"}
  /\ UNCHANGED <<today, nav, rules, position, cycles, recorded, evaluated, events, job,
                 started, bounds>>

(* Mutant: the button closes whatever cycle the fund is in. *)
OfActiveCycle(e) == Active # {}

(* Is the reminder's cycle the active one? *)
OfItsCycle(e) == events[e].cycle \in Active

(* "Confirm zero position" under a reminder, without the lock.             *)
ClosePosition(e) ==
  /\ events[e].row
  /\ OfItsCycle(e) /\ position.units > 0
  /\ pending = {}
  /\ position' = NoPosition
  /\ MaintainCycle(0)
  /\ UNCHANGED <<today, nav, rules, pending, recorded, evaluated, events, job, bounds>>

(* add_position_profit_rule *)
AddRule(ts) ==
  /\ LockFree
  /\ Len(rules) < MaxRules
  /\ \A r \in Rules : ~rules[r].enabled
  /\ rules' = Append(rules, [thresholds |-> ts, enabled |-> TRUE])
  /\ UNCHANGED <<today, nav, position, pending, cycles, recorded, evaluated, events, job,
                 started, bounds>>

(* delete_rule disables such a rule, without the lock. *)
DeleteRule(r) ==
  /\ rules[r].enabled
  /\ rules' = [rules EXCEPT ![r].enabled = FALSE]
  /\ UNCHANGED <<today, nav, position, pending, cycles, recorded, evaluated, events, job,
                 started, bounds>>

-----------------------------------------------------------------------------
(* evaluate_position_profit_rules.  The NAV a day's job needs is that of   *)
(* the day before; it is named by the day of the job.                      *)

Eligible == position.units > 0 /\ Active # {} /\ ~SyncRequired

(* Something is left to evaluate for the rule. *)
HasWork(r) ==
  /\ Eligible
  /\ \A c \in Active :
       /\ Cardinality(Recorded(r, c)) < Cardinality(rules[r].thresholds)
       /\ <<r, c, today>> \notin evaluated

Begin(r) ==
  /\ LockFree
  /\ rules[r].enabled
  /\ HasWork(r)
  /\ job' = [Idle EXCEPT !.pc = "fetch", !.rule = r]
  /\ UNCHANGED <<today, nav, rules, position, pending, cycles, recorded, evaluated, events,
                 started, bounds>>

(* The NAV comes from the cache or the provider, or is not available.      *)
FetchNav ==
  /\ job.pc = "fetch"
  /\ job' = [job EXCEPT !.pc = "evaluate"]
  /\ UNCHANGED <<today, nav, rules, position, pending, cycles, recorded, evaluated, events,
                 started, bounds>>

NavUnavailable ==
  /\ job.pc = "fetch"
  /\ job' = Idle
  /\ UNCHANGED <<today, nav, rules, position, pending, cycles, recorded, evaluated, events,
                 started, bounds>>

(* calculate_profit_rate and meets_threshold, as integers *)
Meets(value, cost, t) == 100 * (value - cost) >= t * cost

(* Mutant: only the highest threshold that is met. *)
HighestCrossed(r, c) ==
  {t \in rules[r].thresholds \ Recorded(r, c) :
     /\ Meets(nav, position.cost, t)
     /\ \A h \in rules[r].thresholds : Meets(nav, position.cost, h) => h <= t}

(* build_position_profit_alert: crossed *)
Crossed(r, c) ==
  {t \in rules[r].thresholds \ Recorded(r, c) : Meets(nav, position.cost, t)}

(* Position, cycle, marks and thresholds are read again, and the alert is  *)
(* built.  The reads are no transaction; a close between them makes one of *)
(* them find nothing, or is found by the write below.                      *)
Evaluate ==
  /\ job.pc = "evaluate"
  /\ IF HasWork(job.rule)
       THEN \E c \in Active :
              job' = [job EXCEPT !.pc = "commit", !.cycle = c, !.position = position,
                                 !.crossed = Crossed(job.rule, c)]
       ELSE job' = Idle
  /\ UNCHANGED <<today, nav, rules, position, pending, cycles, recorded, evaluated, events,
                 started, bounds>>

(* Mutant: it is only asked whether the rule is still enabled. *)
RuleMatches == rules[job.rule].enabled

(* _position_profit_state_matches *)
StateMatches ==
  /\ rules[job.rule].enabled
  /\ job.cycle \in Active
  /\ position = job.position
  /\ ~SyncRequired

(* record_position_profit_evaluation: no threshold is crossed. *)
RecordEvaluation ==
  /\ job.pc = "commit"
  /\ StateMatches
  /\ job.crossed = {}
  /\ evaluated' = evaluated \cup {<<job.rule, job.cycle, today>>}
  /\ job' = Idle
  /\ UNCHANGED <<today, nav, rules, position, pending, cycles, recorded, events, started,
                 bounds>>

(* The alert_key is UNIQUE in alert_events. *)
KeyTaken(r, c, ts) ==
  \E e \in Events : events[e].row /\ events[e].rule = r /\ events[e].cycle = c
                                  /\ events[e].keys = ts

(* What makes persist_position_profit_alert raise IntegrityError, besides  *)
(* a changed state. *)
Conflicting ==
  \/ job.crossed \cap Recorded(job.rule, job.cycle) # {}
  \/ <<job.rule, job.cycle, today>> \in evaluated
  \/ KeyTaken(job.rule, job.cycle, job.crossed)

(* The rows of the thresholds, with the event that reminds of them. *)
NowRecorded(id) ==
  recorded \cup {<<job.rule, job.cycle, t, id>> : t \in job.crossed}

(* persist_position_profit_alert *)
PersistAlert ==
  /\ job.pc = "commit"
  /\ StateMatches
  /\ job.crossed # {}
  /\ ~Conflicting
  /\ evaluated' = evaluated \cup {<<job.rule, job.cycle, today>>}
  /\ events' = Append(events, [rule |-> job.rule, cycle |-> job.cycle,
                               serial |-> cycles[job.cycle].serial, keys |-> job.crossed,
                               day |-> today, status |-> "pending", row |-> TRUE])
  /\ recorded' = NowRecorded(Len(events) + 1)
  /\ job' = Idle
  /\ UNCHANGED <<today, nav, rules, position, pending, cycles, started, bounds>>

(* IntegrityError: once more from the reading on, then it is given up      *)
(* silently.                                                               *)
CommitFails ==
  /\ job.pc = "commit"
  /\ ~StateMatches \/ (job.crossed # {} /\ Conflicting)
  /\ job' = IF job.retried THEN Idle
            ELSE [job EXCEPT !.pc = "evaluate", !.retried = TRUE]
  /\ UNCHANGED <<today, nav, rules, position, pending, cycles, recorded, evaluated, events,
                 started, bounds>>

-----------------------------------------------------------------------------
(* prune_database, as far as it concerns these tables: at start-up and     *)
(* after each NAV job, under the lock, in one transaction.                 *)

Cutoff == today - Retention

(* _prune_ended_position_cycles; pending is what blocks it. *)
Expired ==
  IF pending # {} THEN {}
  ELSE {c \in DOMAIN cycles \ Active : cycles[c].ended < Cutoff}

(* Mutant: what a reminder reached is forgotten when the reminder is old. *)
OfOldEvents == {x \in recorded : events[x[4]].day < Cutoff}

(* The rows of position_profit_thresholds that go with their cycle. *)
Forgotten == {x \in recorded : x[2] \in Expired}

(* _prune_active_position_evaluations *)
Superseded(x) ==
  /\ x[2] \in Active
  /\ \E y \in evaluated : y[1] = x[1] /\ y[2] = x[2] /\ x[3] < y[3]

(* _prune_alert_events: sent everywhere, not referred to, of no active     *)
(* cycle.                                                                  *)
Prunable(e, kept) ==
  /\ events[e].day < Cutoff
  /\ events[e].status = "sent"
  /\ \A x \in kept : x[4] # e
  /\ events[e].cycle \notin Active

Prune ==
  /\ LockFree
  /\ cycles' = [c \in DOMAIN cycles \ Expired |-> cycles[c]]
  /\ recorded' = recorded \ Forgotten
  /\ evaluated' = {x \in evaluated : x[2] \notin Expired /\ ~Superseded(x)}
  /\ events' = [e \in Events |-> IF Prunable(e, recorded')
                                    THEN [events[e] EXCEPT !.row = FALSE] ELSE events[e]]
  /\ UNCHANGED <<today, nav, rules, position, pending, job, started, bounds>>

-----------------------------------------------------------------------------
(* Delivery: every target has the reminder, or one has refused it and is   *)
(* tried again.                                                            *)
Delivered(e) ==
  /\ events[e].row
  /\ events[e].status # "sent"
  /\ events' = [events EXCEPT ![e].status = "sent"]
  /\ UNCHANGED <<today, nav, rules, position, pending, cycles, recorded, evaluated, job,
                 started, bounds>>

DeliveryFails(e) ==
  /\ events[e].row
  /\ events[e].status = "pending"
  /\ events' = [events EXCEPT ![e].status = "failed"]
  /\ UNCHANGED <<today, nav, rules, position, pending, cycles, recorded, evaluated, job,
                 started, bounds>>

(* A day passes; no job runs overnight.  No reminder stays undelivered     *)
(* until it is old enough to be pruned.                                    *)
NextDay ==
  /\ LockFree
  /\ today < MaxDate
  /\ \A e \in Events : events[e].status = "sent" \/ events[e].day >= Cutoff + 1
  /\ today' = today + 1
  /\ nav' \in Navs
  /\ UNCHANGED <<rules, position, pending, cycles, recorded, evaluated, events, job,
                 started, bounds>>

(* The process stops and is started again. *)
Restart ==
  /\ ~LockFree
  /\ crashes < MaxCrashes
  /\ crashes' = crashes + 1
  /\ job' = Idle
  /\ UNCHANGED <<today, nav, rules, position, pending, cycles, recorded, evaluated, events,
                 started, changes>>

-----------------------------------------------------------------------------
Init ==
  /\ today = 1
  /\ nav \in Navs
  /\ rules = <<>>
  /\ position = NoPosition    \* a first snapshot, without units
  /\ pending = {}
  /\ cycles = <<>>
  /\ recorded = {} /\ evaluated = {}
  /\ events = <<>>
  /\ job = Idle
  /\ started = 0 /\ changes = 0 /\ crashes = 0

Run == Evaluate \/ RecordEvaluation \/ PersistAlert \/ CommitFails

Next ==
  \/ NextDay
  \/ \E u \in 0..2, c \in Costs, included \in BOOLEAN : Sync(u, c, included)
  \/ \E kind \in {"estimate", "action"} : Contribute(kind)
  \/ \E c \in Costs : ApplyEstimates(c)
  \/ SkipDeduction
  \/ \E e \in Events : ClosePosition(e)
  \/ \E ts \in SUBSET Thresholds \ {{}} : AddRule(ts)
  \/ \E r \in Rules : DeleteRule(r)
  \/ \E r \in Rules : Begin(r)
  \/ FetchNav
  \/ NavUnavailable
  \/ Run
  \/ Prune
  \/ \E e \in Events : Delivered(e) \/ DeliveryFails(e)
  \/ Restart

Spec == Init /\ [][Next]_vars

-----------------------------------------------------------------------------
(* Properties. *)

Position == [units : Nat, cost : Costs \cup {0}, estimated : BOOLEAN]
Rule == [thresholds : SUBSET Thresholds, enabled : BOOLEAN]
Cycle == [serial : Nat \ {0}, ended : Nat]
Ids == Nat \ {0}
Event == [rule : Ids, cycle : Ids, serial : Ids, keys : SUBSET Thresholds,
          day : Nat, status : {"pending", "failed", "sent"}, row : BOOLEAN]
Job == [pc : {"idle", "fetch", "evaluate", "commit"}, rule : Nat, retried : BOOLEAN,
        cycle : Nat, position : Position, crossed : SUBSET Thresholds]

TypeOK ==
  /\ today \in 1..MaxDate
  /\ nav \in Navs
  /\ rules \in Seq(Rule)
  /\ position \in Position
  /\ pending \subseteq {"estimate", "action"}
  /\ DOMAIN cycles \subseteq Ids /\ \A c \in DOMAIN cycles : cycles[c] \in Cycle
  /\ recorded \subseteq Ids \X Ids \X Thresholds \X Ids
  /\ evaluated \subseteq Ids \X Ids \X Nat
  /\ events \in Seq(Event)
  /\ job \in Job
  /\ started \in Nat
  /\ changes \in 0..MaxChanges /\ crashes \in 0..MaxCrashes

(***************************************************************************)
(* The user is reminded of a threshold at most once per rule and position  *)
(* cycle, over restarts, retries, changes of the average cost, pruning and *)
(* delivery that fails; cycles are told apart by when they began.          *)
(***************************************************************************)
OncePerThreshold ==
  \A d, e \in Events :
    /\ d # e
    /\ events[d].rule = events[e].rule
    /\ events[d].serial = events[e].serial
    => events[d].keys \cap events[e].keys = {}

(***************************************************************************)
(* A day's NAV is marked as evaluated only when every threshold the        *)
(* position has then reached is recorded; a mark made from numbers that    *)
(* changed in the meantime would hide a threshold for the day.             *)
(***************************************************************************)
NothingPassedOver ==
  [][\A x \in evaluated' \ evaluated :
       \A t \in rules[x[1]].thresholds :
         Meets(nav, position.cost, t) =>
           \E y \in recorded' : y[1] = x[1] /\ y[2] = x[2] /\ y[3] = t]_vars

(***************************************************************************)
(* The button under a reminder closes the position cycle the reminder is   *)
(* about and no later one.                                                 *)
(***************************************************************************)
ButtonClosesItsCycle ==
  [][\A e \in Events, c \in Active :
       ClosePosition(e) => cycles[c].serial = events[e].serial]_vars

(***************************************************************************)
(* Fairness: the NAV job comes again and again and goes on, and the NAV is *)
(* published now and then.                                                 *)
(***************************************************************************)
Fairness ==
  /\ WF_vars(\E r \in Rules : Begin(r))
  /\ WF_vars(Run)
  /\ SF_vars(FetchNav)

FairSpec == Spec /\ Fairness

(* The position has reached a threshold of an enabled rule. *)
Reached(r, t) ==
  /\ r \in Rules /\ rules[r].enabled /\ t \in rules[r].thresholds
  /\ Eligible /\ Meets(nav, position.cost, t)

Reminded(r, t) ==
  \E e \in Events, c \in Active :
    events[e].rule = r /\ events[e].serial = cycles[c].serial /\ t \in events[e].keys

NotYetEvaluated(r) == \A c \in Active : <<r, c, today>> \notin evaluated

(***************************************************************************)
(* A threshold that the position has reached at the latest NAV is reminded *)
(* of in the end, whatever fails, stops or is pressed in between, unless   *)
(* the position, the rule or the NAV changes so that it is not reached.    *)
(***************************************************************************)
ReachedAreReminded ==
  \A r \in 1..MaxRules, t \in Thresholds :
    Reached(r, t) /\ NotYetEvaluated(r) ~> Reminded(r, t) \/ ~Reached(r, t)
=============================================================================
