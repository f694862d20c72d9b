-------------------------- MODULE PositionProfitProofs --------------------------
(***************************************************************************)
(* Theorems about PositionProfit, for every value of its constants.        *)
(***************************************************************************)
EXTENDS PositionProfit, NaturalExtrema

USE ProfitAssumption

-----------------------------------------------------------------------------
(* Type correctness.  It needs that there is a largest id and that a job   *)
(* under way has a rule. *)

LargestIdExists == \E n \in Nat : \A c \in DOMAIN cycles : c <= n
JobHasRule == job.pc # "idle" => job.rule \in Rules

TypeInv == TypeOK /\ LargestIdExists /\ JobHasRule

(* The id a new cycle gets is larger than all in the table. *)
LEMMA NextIdIsNew ==
  ASSUME TypeOK, LargestIdExists
  PROVE  /\ NextId \in Ids
         /\ \A c \in DOMAIN cycles : c < NextId
<1>1. DOMAIN cycles \subseteq Ids
  BY DEF TypeOK
<1>2. CASE DOMAIN cycles = {}
  BY <1>2 DEF NextId, Ids
<1>3. CASE DOMAIN cycles # {}
  <2> DEFINE m == CHOOSE c \in DOMAIN cycles : \A d \in DOMAIN cycles : d <= c
  <2>1. \E c \in DOMAIN cycles : \A d \in DOMAIN cycles : d <= c
    BY <1>1, <1>3, GreatestNatural DEF LargestIdExists, Ids
  <2>2. m \in DOMAIN cycles /\ \A d \in DOMAIN cycles : d <= m
    BY <2>1
  <2>3. NextId = 1 + m
    BY <1>3 DEF NextId
  <2> HIDE DEF m
  <2> QED
    BY <1>1, <2>2, <2>3 DEF Ids
<1> QED
  BY <1>2, <1>3

(* What _maintain_position_cycle does to the cycles: a position without    *)
(* units ends the active one, one with units begins one if there is none.  *)
EndsActive ==
  /\ cycles' = [c \in DOMAIN cycles |->
                  IF c \in Active THEN [cycles[c] EXCEPT !.ended = today] ELSE cycles[c]]
  /\ started' = started

BeginsCycle ==
  \E n \in Ids :
    /\ Active = {}
    /\ \A c \in DOMAIN cycles : c < n
    /\ cycles' = [c \in DOMAIN cycles \cup {n} |->
                    IF c = n THEN [serial |-> started + 1, ended |-> 0] ELSE cycles[c]]
    /\ started' = started + 1

LEMMA MaintainCycleDoes ==
  ASSUME TypeOK, LargestIdExists, NEW u \in Nat, MaintainCycle(u)
  PROVE  EndsActive \/ UNCHANGED <<cycles, started>> \/ BeginsCycle
<1>1. CASE u > 0 /\ Active = {}
  <2>1. /\ cycles' = [c \in DOMAIN cycles \cup {NextId} |->
                        IF c = NextId THEN [serial |-> started + 1, ended |-> 0]
                        ELSE cycles[c]]
        /\ started' = started + 1
    BY <1>1 DEF MaintainCycle
  <2> QED
    BY <1>1, <2>1, NextIdIsNew DEF BeginsCycle
<1> QED
  BY <1>1 DEF MaintainCycle, EndsActive

CyclesTyped ==
  /\ DOMAIN cycles \subseteq Ids
  /\ \A c \in DOMAIN cycles : cycles[c] \in Cycle
  /\ started \in Nat
  /\ LargestIdExists

LEMMA CycleChangeTyped ==
  ASSUME TypeInv, NEW u \in Nat, MaintainCycle(u)
  PROVE  CyclesTyped'
<1>1. CyclesTyped /\ today \in Nat
  BY DEF TypeInv, TypeOK, CyclesTyped
<1>2. CASE EndsActive
  <2>1. DOMAIN cycles' = DOMAIN cycles
    BY <1>2 DEF EndsActive
  <2>2. \A c \in DOMAIN cycles : cycles'[c] \in Cycle
    BY <1>1, <1>2 DEF EndsActive, CyclesTyped, Cycle
  <2> QED
    BY <1>1, <1>2, <2>1, <2>2 DEF CyclesTyped, EndsActive, LargestIdExists
<1>3. CASE UNCHANGED <<cycles, started>>
  BY <1>1, <1>3 DEF CyclesTyped, LargestIdExists
<1>4. CASE BeginsCycle
  <2>1. PICK n \in Ids :
          /\ Active = {}
          /\ \A c \in DOMAIN cycles : c < n
          /\ cycles' = [c \in DOMAIN cycles \cup {n} |->
                          IF c = n THEN [serial |-> started + 1, ended |-> 0] ELSE cycles[c]]
          /\ started' = started + 1
    BY <1>4 DEF BeginsCycle
  <2>2. DOMAIN cycles' = DOMAIN cycles \cup {n}
    BY <2>1
  <2>3. \A c \in DOMAIN cycles' : cycles'[c] \in Cycle
    BY <1>1, <2>1, <2>2 DEF CyclesTyped, Cycle
  <2>4. \A c \in DOMAIN cycles' : c <= n
    BY <1>1, <2>1, <2>2 DEF CyclesTyped, Ids
  <2>5. n \in Nat /\ DOMAIN cycles' \subseteq Ids /\ started' \in Nat
    BY <1>1, <2>1, <2>2 DEF CyclesTyped, Ids
  <2> QED
    BY <2>3, <2>4, <2>5 DEF CyclesTyped, LargestIdExists
<1> QED
  BY <1>2, <1>3, <1>4, MaintainCycleDoes DEF TypeInv

LEMMA InitTypeInv == Init => TypeInv
<1> SUFFICES ASSUME Init PROVE TypeInv
  OBVIOUS
<1>1. DOMAIN cycles = {} /\ LargestIdExists
  BY DEF Init, LargestIdExists
<1>2. job \in Job /\ position \in Position
  BY DEF Init, Idle, Job, NoPosition, Position
<1>3. rules \in Seq(Rule) /\ events \in Seq(Event)
  BY DEF Init
<1> QED
  BY <1>1, <1>2, <1>3 DEF Init, TypeInv, TypeOK, JobHasRule, Idle

(* The steps that change the position. *)
LEMMA PositionTypeInv ==
  ASSUME TypeInv,
         \/ \E u \in 0..2, c \in Costs, included \in BOOLEAN : Sync(u, c, included)
         \/ \E c \in Costs : ApplyEstimates(c)
         \/ \E e \in Events : ClosePosition(e)
  PROVE  TypeInv'
<1>1. CASE \E u \in 0..2, c \in Costs, included \in BOOLEAN : Sync(u, c, included)
  <2>1. PICK u \in 0..2, c \in Costs, included \in BOOLEAN : Sync(u, c, included)
    BY <1>1
  <2>2. CyclesTyped'
    BY <2>1, CycleChangeTyped DEF Sync
  <2>3. position' \in Position
    BY <2>1 DEF Sync, Position
  <2>4. changes' \in 0..MaxChanges
    BY <2>1 DEF Sync, Change, TypeInv, TypeOK
  <2> QED
    BY <2>1, <2>2, <2>3, <2>4
    DEF TypeInv, TypeOK, CyclesTyped, Sync, JobHasRule, Rules
<1>2. CASE \E c \in Costs : ApplyEstimates(c)
  <2>1. PICK c \in Costs : ApplyEstimates(c)
    BY <1>2
  <2>2. position.units + 1 \in Nat
    BY DEF TypeInv, TypeOK, Position
  <2>3. CyclesTyped'
    BY <2>1, <2>2, CycleChangeTyped DEF ApplyEstimates
  <2>4. position' \in Position
    BY <2>1, <2>2 DEF ApplyEstimates, Position
  <2> QED
    BY <2>1, <2>3, <2>4
    DEF TypeInv, TypeOK, CyclesTyped, ApplyEstimates, JobHasRule, Rules, bounds
<1>3. CASE \E e \in Events : ClosePosition(e)
  <2>1. PICK e \in Events : ClosePosition(e)
    BY <1>3
  <2>2. CyclesTyped'
    BY <2>1, CycleChangeTyped DEF ClosePosition
  <2>3. position' \in Position
    BY <2>1 DEF ClosePosition, NoPosition, Position
  <2> QED
    BY <2>1, <2>2, <2>3
    DEF TypeInv, TypeOK, CyclesTyped, ClosePosition, JobHasRule, Rules, bounds
<1> QED
  BY <1>1, <1>2, <1>3

(* The steps that change the rules. *)
LEMMA RuleTypeInv ==
  ASSUME TypeInv,
         \/ \E ts \in SUBSET Thresholds \ {{}} : AddRule(ts)
         \/ \E r \in Rules : DeleteRule(r)
  PROVE  TypeInv'
<1>1. rules' \in Seq(Rule) /\ Rules \subseteq Rules'
  <2>1. ASSUME NEW ts \in SUBSET Thresholds, AddRule(ts)
        PROVE  rules' \in Seq(Rule) /\ Rules \subseteq Rules'
    <3>1. rules \in Seq(Rule) /\ [thresholds |-> ts, enabled |-> TRUE] \in Rule
      BY DEF TypeInv, TypeOK, Rule
    <3> QED
      BY <2>1, <3>1 DEF AddRule, Rules
  <2>2. ASSUME NEW r \in Rules, DeleteRule(r)
        PROVE  rules' \in Seq(Rule) /\ Rules \subseteq Rules'
    <3>1. rules \in Seq(Rule) /\ rules[r] \in Rule
      BY DEF TypeInv, TypeOK, Rules
    <3>2. [rules[r] EXCEPT !.enabled = FALSE] \in Rule
      BY <3>1 DEF Rule
    <3>3. rules' = [rules EXCEPT ![r] = [rules[r] EXCEPT !.enabled = FALSE]]
      BY <2>2 DEF DeleteRule
    <3> QED
      BY <3>1, <3>2, <3>3 DEF Rules
  <2> QED
    BY <2>1, <2>2
<1>2. UNCHANGED <<today, nav, position, pending, cycles, recorded, evaluated, events, job,
                  started, changes, crashes>>
  BY DEF AddRule, DeleteRule, bounds
<1> QED
  BY <1>1, <1>2 DEF TypeInv, TypeOK, JobHasRule, LargestIdExists

(* A step that changes the job, its marks and the bounds only. *)
LEMMA JobChangeTyped ==
  ASSUME TypeInv,
         UNCHANGED <<today, nav, rules, position, pending, cycles, recorded, events, started>>,
         job' \in Job, job'.pc # "idle" => job'.rule \in Rules,
         evaluated' \subseteq Ids \X Ids \X Nat,
         changes' \in 0..MaxChanges, crashes' \in 0..MaxCrashes
  PROVE  TypeInv'
  BY DEF TypeInv, TypeOK, JobHasRule, LargestIdExists, Rules

(* The steps of the job that change nothing else but what it has found. *)
LEMMA JobTypeInv ==
  ASSUME TypeInv,
         \/ \E r \in Rules : Begin(r)
         \/ FetchNav \/ NavUnavailable \/ Evaluate \/ RecordEvaluation
         \/ CommitFails \/ Restart
  PROVE  TypeInv'
<1>1. job \in Job /\ Idle \in Job /\ position \in Position /\ Rules \subseteq Nat
  BY DEF TypeInv, TypeOK, Idle, Job, NoPosition, Position, Rules
<1>2. /\ changes \in 0..MaxChanges /\ crashes \in 0..MaxCrashes
      /\ evaluated \subseteq Ids \X Ids \X Nat
      /\ job.pc # "idle" => job.rule \in Rules
      /\ Idle.pc = "idle"
  BY DEF TypeInv, TypeOK, JobHasRule, Idle
<1>3. CASE \E r \in Rules : Begin(r)
  <2>1. PICK r \in Rules : Begin(r)
    BY <1>3
  <2>2. job' \in Job /\ job'.rule = r
    BY <1>1, <2>1 DEF Begin, Job, Idle
  <2> QED
    BY <1>2, <2>1, <2>2, JobChangeTyped DEF Begin, bounds
<1>4. CASE FetchNav
  <2>1. job' \in Job /\ job'.rule = job.rule /\ job.pc # "idle"
    BY <1>1, <1>4 DEF FetchNav, Job
  <2> QED
    BY <1>2, <1>4, <2>1, JobChangeTyped DEF FetchNav, bounds
<1>5. CASE NavUnavailable
  BY <1>1, <1>2, <1>5, JobChangeTyped DEF NavUnavailable, bounds
<1>6. CASE Restart
  <2>1. crashes' \in 0..MaxCrashes
    BY <1>2, <1>6 DEF Restart
  <2> QED
    BY <1>1, <1>2, <1>6, <2>1, JobChangeTyped DEF Restart
<1>7. CASE Evaluate
  <2>1. job.rule \in Rules
    BY <1>2, <1>7 DEF Evaluate
  <2>2. rules[job.rule].thresholds \subseteq Thresholds
    <3>1. rules \in Seq(Rule) /\ job.rule \in 1..Len(rules)
      BY <2>1 DEF TypeInv, TypeOK, Rules
    <3>2. rules[job.rule] \in Rule
      BY <3>1
    <3> QED
      BY <3>2 DEF Rule
  <2>3. \A c \in Active : Crossed(job.rule, c) \subseteq Thresholds /\ c \in Nat
    BY <2>2 DEF Crossed, Active, TypeInv, TypeOK, Ids
  <2>4. \/ job' = Idle
        \/ \E c \in Active :
             job' = [job EXCEPT !.pc = "commit", !.cycle = c, !.position = position,
                                !.crossed = Crossed(job.rule, c)]
    BY <1>7 DEF Evaluate
  <2>5. job' \in Job /\ (job' = Idle \/ job'.rule \in Rules)
    BY ZenonT(60), <1>1, <2>1, <2>3, <2>4 DEF Job
  <2>6. /\ UNCHANGED <<today, nav, rules, position, pending, cycles, recorded, events,
                       started, evaluated, changes, crashes>>
        /\ Rules' = Rules
    BY <1>7 DEF Evaluate, Rules, bounds
  <2>7. job'.pc # "idle" => job'.rule \in Rules
    BY <1>2, <2>5
  <2> QED
    BY <1>2, <2>5, <2>6, <2>7, JobChangeTyped
<1>8. CASE RecordEvaluation
  <2>1. job.rule \in Rules /\ job.cycle \in Active
    BY <1>2, <1>8 DEF RecordEvaluation, StateMatches
  <2>2. <<job.rule, job.cycle, today>> \in Ids \X Ids \X Nat
    BY <2>1 DEF Active, TypeInv, TypeOK, Rules, Ids
  <2>3. evaluated' \subseteq Ids \X Ids \X Nat
    BY <1>2, <1>8, <2>2 DEF RecordEvaluation
  <2> QED
    BY <1>1, <1>2, <1>8, <2>3, JobChangeTyped DEF RecordEvaluation, bounds
<1>9. CASE CommitFails
  <2>1. job.pc # "idle"
    BY <1>9 DEF CommitFails
  <2>2. job' = Idle \/ (job' \in Job /\ job'.rule = job.rule)
    BY <1>1, <1>9 DEF CommitFails, Job
  <2> QED
    BY <1>1, <1>2, <1>9, <2>1, <2>2, JobChangeTyped DEF CommitFails, bounds
<1> QED
  BY <1>3, <1>4, <1>5, <1>6, <1>7, <1>8, <1>9

(* The thresholds found are among those there are. *)
LEMMA PersistTypeInv ==
  ASSUME TypeInv, PersistAlert
  PROVE  TypeInv'
<1>1. /\ job \in Job /\ Idle \in Job /\ Idle.pc = "idle"
      /\ job.rule \in Rules /\ job.cycle \in Active
  BY DEF PersistAlert, StateMatches, TypeInv, TypeOK, JobHasRule, Idle, Job, NoPosition, Position
<1>2. job.rule \in Ids /\ job.cycle \in Ids /\ cycles[job.cycle].serial \in Ids /\ today \in Nat
  BY <1>1 DEF Active, TypeInv, TypeOK, Rules, Ids, Cycle
<1> DEFINE new == [rule |-> job.rule, cycle |-> job.cycle,
                   serial |-> cycles[job.cycle].serial, keys |-> job.crossed,
                   day |-> today, status |-> "pending", row |-> TRUE]
<1>3. new \in Event
  BY <1>1, <1>2 DEF Event, Job
<1>4. events' = Append(events, new) /\ events \in Seq(Event)
  BY DEF PersistAlert, TypeInv, TypeOK
<1> HIDE DEF new
<1>5. events' \in Seq(Event) /\ Len(events) + 1 \in Ids
  BY <1>3, <1>4 DEF Ids
<1>6. recorded' \subseteq Ids \X Ids \X Thresholds \X Ids
  BY <1>1, <1>2, <1>5 DEF PersistAlert, NowRecorded, Job, TypeInv, TypeOK
<1>7. evaluated' \subseteq Ids \X Ids \X Nat
  BY <1>2 DEF PersistAlert, TypeInv, TypeOK
<1> QED
  BY <1>1, <1>5, <1>6, <1>7
  DEF PersistAlert, TypeInv, TypeOK, JobHasRule, LargestIdExists, bounds

LEMMA PruneTypeInv ==
  ASSUME TypeInv, Prune
  PROVE  TypeInv'
<1>1. events' \in Seq(Event)
  <2>1. events \in Seq(Event)
    BY DEF TypeInv, TypeOK
  <2>2. \A e \in Events : events[e] \in Event /\ [events[e] EXCEPT !.row = FALSE] \in Event
    <3>1. \A e \in Events : events[e] \in Event
      BY <2>1 DEF Events
    <3>2. \A x \in Event : [x EXCEPT !.row = FALSE] \in Event
      BY DEF Event
    <3> QED
      BY <3>1, <3>2
  <2>3. events' = [e \in 1..Len(events) |-> IF Prunable(e, recorded')
                                    THEN [events[e] EXCEPT !.row = FALSE] ELSE events[e]]
    BY DEF Prune, Events
  <2> DEFINE f(e) == IF Prunable(e, recorded') THEN [events[e] EXCEPT !.row = FALSE]
                     ELSE events[e]
  <2>4. \A e \in 1..Len(events) : f(e) \in Event
    BY <2>2 DEF Events
  <2>5. events' = [e \in 1..Len(events) |-> f(e)]
    BY <2>3
  <2>6. Len(events) \in Nat
    BY <2>1
  <2> HIDE DEF f
  <2>7. events' \in [1..Len(events) -> Event]
    BY <2>4, <2>5
  <2> QED
    BY <2>6, <2>7
<1>2. /\ DOMAIN cycles' = DOMAIN cycles \ Expired
      /\ \A c \in DOMAIN cycles' : cycles'[c] = cycles[c]
  BY DEF Prune
<1>3. CyclesTyped'
  BY <1>2 DEF Prune, CyclesTyped, TypeInv, TypeOK, LargestIdExists
<1>4. recorded' \subseteq recorded /\ evaluated' \subseteq evaluated
  BY DEF Prune
<1> QED
  BY <1>1, <1>3, <1>4
  DEF Prune, TypeInv, TypeOK, CyclesTyped, JobHasRule, Rules, bounds

LEMMA DeliveryTypeInv ==
  ASSUME TypeInv, NEW e \in Events, Delivered(e) \/ DeliveryFails(e)
  PROVE  TypeInv'
<1>1. events \in Seq(Event) /\ events[e] \in Event
  BY DEF TypeInv, TypeOK, Events
<1>2. PICK s \in {"sent", "failed"} : events' = [events EXCEPT ![e].status = s]
  BY DEF Delivered, DeliveryFails
<1>3. [events[e] EXCEPT !.status = s] \in Event
  BY <1>1 DEF Event
<1>4. events' \in Seq(Event)
  BY <1>1, <1>2, <1>3 DEF Events
<1> QED
  BY <1>4 DEF Delivered, DeliveryFails, TypeInv, TypeOK, JobHasRule, LargestIdExists, Rules, bounds

LEMMA RestTypeInv ==
  ASSUME TypeInv,
         NextDay \/ SkipDeduction \/ \E kind \in {"estimate", "action"} : Contribute(kind)
  PROVE  TypeInv'
<1>1. CASE NextDay
  <2>1. today' \in 1..MaxDate /\ nav' \in Navs
    BY <1>1 DEF NextDay, TypeInv, TypeOK
  <2> QED
    BY <1>1, <2>1 DEF NextDay, TypeInv, TypeOK, JobHasRule, LargestIdExists, Rules, bounds
<1>2. CASE SkipDeduction
  BY <1>2 DEF SkipDeduction, TypeInv, TypeOK, JobHasRule, LargestIdExists, Rules, bounds
<1>3. CASE \E kind \in {"estimate", "action"} : Contribute(kind)
  <2>1. changes' \in 0..MaxChanges
    BY <1>3 DEF Contribute, Change, TypeInv, TypeOK
  <2> QED
    BY <1>3, <2>1 DEF Contribute, TypeInv, TypeOK, JobHasRule, LargestIdExists, Rules
<1> QED
  BY <1>1, <1>2, <1>3

LEMMA NextTypeInv == TypeInv /\ [Next]_vars => TypeInv'
<1> SUFFICES ASSUME TypeInv, [Next]_vars PROVE TypeInv'
  OBVIOUS
<1>1. CASE UNCHANGED vars
  BY <1>1 DEF vars, bounds, TypeInv, TypeOK, JobHasRule, LargestIdExists, Rules
<1> QED
  BY <1>1, PositionTypeInv, RuleTypeInv, JobTypeInv, PersistTypeInv, PruneTypeInv,
     DeliveryTypeInv, RestTypeInv DEF Next, Run

LEMMA TypeInvariant == Spec => []TypeInv
  BY InitTypeInv, NextTypeInv, PTL DEF Spec

(* Every variable keeps its type, however many cycles begin, end and are   *)
(* pruned. *)
THEOREM TypeCorrect == Spec => []TypeOK
<1>1. TypeInv => TypeOK
  BY DEF TypeInv
<1> QED
  BY <1>1, TypeInvariant, PTL

-----------------------------------------------------------------------------
(* What reminders, cycles and recorded thresholds have to do with each     *)
(* other.  A cycle is known by its serial, its id may be used again.       *)

CycleFacts ==
  /\ \A c \in DOMAIN cycles : cycles[c].serial <= started /\ cycles[c].ended <= today
  /\ \A c, d \in DOMAIN cycles : cycles[c].serial = cycles[d].serial => c = d
  /\ \A c, d \in Active : c = d

(* What a reminder reached is recorded as long as its cycle is there. *)
Remembered ==
  \A e \in Events, c \in DOMAIN cycles : cycles[c].serial = events[e].serial =>
    \A t \in events[e].keys : <<events[e].rule, c, t, e>> \in recorded

(* A reminder whose row is there has its cycle there, under its id. *)
RowsHaveCycles ==
  \A e \in Events : events[e].row =>
    /\ events[e].cycle \in DOMAIN cycles
    /\ cycles[events[e].cycle].serial = events[e].serial
    /\ cycles[events[e].cycle].ended # 0 => events[e].day <= cycles[events[e].cycle].ended

EventFacts ==
  /\ \A e \in Events : /\ events[e].serial <= started /\ events[e].day <= today
                       /\ events[e].day < Cutoff => events[e].status = "sent"
  /\ \A x \in recorded : x[4] \in Events /\ events[x[4]].cycle = x[2]

(* What a job is about to write is all that is reached and not recorded.   *)
JobFacts ==
  job.pc = "commit" =>
    job.crossed = {t \in rules[job.rule].thresholds \ Recorded(job.rule, job.cycle) :
                     Meets(nav, job.position.cost, t)}

ReminderInv ==
  /\ CycleFacts /\ Remembered /\ RowsHaveCycles /\ EventFacts /\ JobFacts
  /\ OncePerThreshold

LEMMA InitReminderInv == Init => ReminderInv
<1> SUFFICES ASSUME Init PROVE ReminderInv
  OBVIOUS
<1>1. DOMAIN cycles = {} /\ Active = {} /\ Events = {} /\ recorded = {} /\ job.pc = "idle"
  BY DEF Init, Events, Idle, Active
<1> QED
  BY <1>1 DEF ReminderInv, CycleFacts, Remembered, RowsHaveCycles, EventFacts, JobFacts,
              OncePerThreshold

(* Only cycles change: one ends or one begins. *)
LEMMA CycleChangeReminderInv ==
  ASSUME TypeInv, ReminderInv, NEW u \in Nat, MaintainCycle(u),
         UNCHANGED <<today, nav, rules, recorded, events, job>>
  PROVE  ReminderInv'
<1>1. /\ \A c \in DOMAIN cycles : cycles[c] \in Cycle
      /\ \A e \in Events : events[e] \in Event
      /\ started \in Nat /\ today \in Ids /\ DOMAIN cycles \subseteq Ids
  BY DEF TypeInv, TypeOK, Events, Ids
<1>2. Events' = Events /\ Cutoff' = Cutoff
  BY DEF Events, Cutoff
<1>3. JobFacts' /\ OncePerThreshold'
  BY <1>2 DEF ReminderInv, JobFacts, OncePerThreshold, Recorded, Meets
<1>4. CASE UNCHANGED <<cycles, started>>
  BY <1>2, <1>3, <1>4
  DEF ReminderInv, CycleFacts, Remembered, RowsHaveCycles, EventFacts, Active
<1>5. CASE EndsActive
  <2>1. /\ DOMAIN cycles' = DOMAIN cycles /\ started' = started
        /\ \A c \in DOMAIN cycles :
             /\ cycles'[c].serial = cycles[c].serial
             /\ cycles'[c].ended = cycles[c].ended \/ cycles'[c].ended = today
             /\ cycles'[c].ended # 0
    <3>1. DOMAIN cycles' = DOMAIN cycles /\ started' = started
      BY <1>5 DEF EndsActive
    <3>2. ASSUME NEW c \in DOMAIN cycles
          PROVE  /\ cycles'[c].serial = cycles[c].serial
                 /\ cycles'[c].ended = cycles[c].ended \/ cycles'[c].ended = today
                 /\ cycles'[c].ended # 0
      <4>1. CASE c \in Active
        <5>1. cycles'[c] = [cycles[c] EXCEPT !.ended = today]
          BY <1>5, <4>1 DEF EndsActive
        <5> QED
          BY <1>1, <5>1 DEF Cycle, Ids
      <4>2. CASE c \notin Active
        <5>1. cycles'[c] = cycles[c]
          BY <1>5, <4>2 DEF EndsActive
        <5> QED
          BY <4>2, <5>1 DEF Active
      <4> QED
        BY <4>1, <4>2
    <3> QED
      BY <3>1, <3>2
  <2>2. CycleFacts'
    <3>1. Active' = {}
      BY <2>1 DEF Active
    <3> QED
      BY <1>1, <2>1, <3>1 DEF ReminderInv, CycleFacts, Cycle, Ids
  <2>3. Remembered' /\ EventFacts'
    BY <1>2, <2>1 DEF ReminderInv, Remembered, EventFacts
  <2>4. RowsHaveCycles'
    BY <1>2, <2>1 DEF ReminderInv, RowsHaveCycles, EventFacts
  <2> QED
    BY <1>3, <2>2, <2>3, <2>4 DEF ReminderInv
<1>6. CASE BeginsCycle
  <2>1. PICK n \in Ids :
          /\ Active = {}
          /\ \A c \in DOMAIN cycles : c < n
          /\ cycles' = [c \in DOMAIN cycles \cup {n} |->
                          IF c = n THEN [serial |-> started + 1, ended |-> 0] ELSE cycles[c]]
          /\ started' = started + 1
    BY <1>6 DEF BeginsCycle
  <2>2. n \notin DOMAIN cycles
    BY <1>1, <2>1 DEF Ids
  <2>3. /\ DOMAIN cycles' = DOMAIN cycles \cup {n}
        /\ cycles'[n].serial = started + 1 /\ cycles'[n].ended = 0
        /\ \A c \in DOMAIN cycles : cycles'[c] = cycles[c]
    BY <2>1, <2>2
  <2>4. \A c \in DOMAIN cycles : cycles[c].serial \in Nat /\ cycles[c].serial # started + 1
    BY <1>1 DEF ReminderInv, CycleFacts, Cycle
  <2>5. CycleFacts'
    <3>1. \A c, d \in Active' : c = d
      BY <2>1, <2>3 DEF Active
    <3> QED
      BY <1>1, <2>1, <2>3, <2>4, <3>1 DEF ReminderInv, CycleFacts, Cycle, Ids
  <2>6. \A e \in Events : events[e].serial \in Nat /\ events[e].serial # started + 1
    BY <1>1 DEF ReminderInv, EventFacts, Event, Ids
  <2>7. Remembered'
    BY <1>2, <2>3, <2>6 DEF ReminderInv, Remembered
  <2>8. RowsHaveCycles'
    BY <1>2, <2>2, <2>3 DEF ReminderInv, RowsHaveCycles
  <2>9. EventFacts'
    BY <1>1, <1>2, <2>1, <2>6 DEF ReminderInv, EventFacts
  <2> QED
    BY <1>3, <2>5, <2>7, <2>8, <2>9 DEF ReminderInv
<1> QED
  BY <1>4, <1>5, <1>6, MaintainCycleDoes DEF TypeInv

(* Only the job, the position, marks or rules change. *)
LEMMA OtherReminderInv ==
  ASSUME ReminderInv, UNCHANGED <<today, cycles, recorded, events, started>>, JobFacts'
  PROVE  ReminderInv'
  BY DEF ReminderInv, CycleFacts, Remembered, RowsHaveCycles, EventFacts, Events, Cutoff,
         OncePerThreshold, Active

LEMMA PositionReminderInv ==
  ASSUME TypeInv, ReminderInv,
         \/ \E u \in 0..2, c \in Costs, included \in BOOLEAN : Sync(u, c, included)
         \/ \E c \in Costs : ApplyEstimates(c)
         \/ \E e \in Events : ClosePosition(e)
  PROVE  ReminderInv'
<1>1. position.units + 1 \in Nat
  BY DEF TypeInv, TypeOK, Position
<1>2. PICK u \in Nat : MaintainCycle(u)
  BY <1>1 DEF Sync, ApplyEstimates, ClosePosition
<1>3. UNCHANGED <<today, nav, rules, recorded, events, job>>
  BY DEF Sync, ApplyEstimates, ClosePosition
<1> QED
  BY <1>2, <1>3, CycleChangeReminderInv

LEMMA RuleReminderInv ==
  ASSUME TypeInv, ReminderInv,
         \/ \E ts \in SUBSET Thresholds \ {{}} : AddRule(ts)
         \/ \E r \in Rules : DeleteRule(r)
  PROVE  ReminderInv'
<1>1. UNCHANGED <<today, nav, cycles, recorded, events, started, job>>
  BY DEF AddRule, DeleteRule
<1>2. CASE \E ts \in SUBSET Thresholds \ {{}} : AddRule(ts)
  <2>1. job.pc = "idle"
    BY <1>2 DEF AddRule, LockFree, Idle
  <2> QED
    BY <1>1, <2>1, OtherReminderInv DEF JobFacts
<1>3. CASE \E r \in Rules : DeleteRule(r)
  <2>1. PICK r \in Rules : DeleteRule(r)
    BY <1>3
  <2>2. rules \in Seq(Rule)
    BY DEF TypeInv, TypeOK
  <2>3. rules' = [rules EXCEPT ![r] = [rules[r] EXCEPT !.enabled = FALSE]]
    BY <2>1 DEF DeleteRule
  <2>4. rules[r] \in Rule
    BY <2>2 DEF Rules
  <2>5. [rules[r] EXCEPT !.enabled = FALSE].thresholds = rules[r].thresholds
    BY <2>4 DEF Rule
  <2>6. \A s \in Rules : rules'[s].thresholds = rules[s].thresholds
    BY <2>2, <2>3, <2>5 DEF Rules
  <2>7. JobFacts'
    BY <1>1, <2>6 DEF ReminderInv, JobFacts, TypeInv, JobHasRule, Recorded, Events, Meets
  <2> QED
    BY <1>1, <2>7, OtherReminderInv
<1> QED
  BY <1>2, <1>3

LEMMA JobReminderInv ==
  ASSUME TypeInv, ReminderInv,
         \/ \E r \in Rules : Begin(r)
         \/ FetchNav \/ NavUnavailable \/ Evaluate \/ RecordEvaluation
         \/ CommitFails \/ Restart
  PROVE  ReminderInv'
<1>1. UNCHANGED <<today, nav, rules, cycles, recorded, events, started>>
  BY DEF Begin, FetchNav, NavUnavailable, Evaluate, RecordEvaluation, CommitFails, Restart,
         bounds
<1>2. job \in Job
  BY DEF TypeInv, TypeOK
<1>3. ASSUME NEW c \in Active,
             job' = [job EXCEPT !.pc = "commit", !.cycle = c, !.position = position,
                                !.crossed = Crossed(job.rule, c)]
      PROVE  JobFacts'
  <2>1. /\ job'.rule = job.rule /\ job'.cycle = c /\ job'.position = position
        /\ job'.crossed = Crossed(job.rule, c)
    BY <1>2, <1>3 DEF Job
  <2> QED
    BY <1>1, <2>1 DEF JobFacts, Crossed, Recorded, Events, Meets
<1>4. Idle.pc # "commit"
  BY DEF Idle
<1>5. \/ job'.pc # "commit"
      \/ \E c \in Active :
           job' = [job EXCEPT !.pc = "commit", !.cycle = c, !.position = position,
                              !.crossed = Crossed(job.rule, c)]
  BY <1>2, <1>4 DEF Begin, FetchNav, NavUnavailable, Evaluate, RecordEvaluation,
                    CommitFails, Restart, Job, Idle
<1>6. JobFacts'
  BY <1>3, <1>5 DEF JobFacts
<1> QED
  BY <1>1, <1>6, OtherReminderInv

LEMMA PersistReminderInv ==
  ASSUME TypeInv, ReminderInv, PersistAlert
  PROVE  ReminderInv'
<1> DEFINE id == Len(events) + 1
           new == [rule |-> job.rule, cycle |-> job.cycle,
                   serial |-> cycles[job.cycle].serial, keys |-> job.crossed,
                   day |-> today, status |-> "pending", row |-> TRUE]
<1>1. /\ UNCHANGED <<today, nav, rules, cycles, started>> /\ job' = Idle
      /\ events' = Append(events, new)
      /\ recorded' = recorded \cup {<<job.rule, job.cycle, t, id>> : t \in job.crossed}
      /\ job.cycle \in Active /\ job.crossed \cap Recorded(job.rule, job.cycle) = {}
  BY DEF PersistAlert, NowRecorded, StateMatches, Conflicting
<1>2. events \in Seq(Event) /\ Len(events) \in Nat
  BY DEF TypeInv, TypeOK
<1>3. Events' = Events \cup {id} /\ id \notin Events
  BY <1>1, <1>2 DEF Events
<1>4. events'[id] = new /\ \A e \in Events : events'[e] = events[e]
  BY <1>1, <1>2 DEF Events
<1>5. /\ job.cycle \in DOMAIN cycles /\ cycles[job.cycle].ended = 0
      /\ cycles[job.cycle].serial <= started
      /\ \A c \in DOMAIN cycles : cycles[c].serial = cycles[job.cycle].serial => c = job.cycle
  BY <1>1 DEF Active, ReminderInv, CycleFacts
<1>6. today \in Nat /\ Retention \in Nat \ {0} /\ ~ (today < Cutoff)
  BY DEF TypeInv, TypeOK, Cutoff
<1>7. /\ new.rule = job.rule /\ new.cycle = job.cycle /\ new.keys = job.crossed
      /\ new.serial = cycles[job.cycle].serial /\ new.day = today
  OBVIOUS
<1> HIDE DEF new, id
<1>8. CycleFacts'
  BY <1>1 DEF ReminderInv, CycleFacts, Active
<1>9. Remembered'
  <2> SUFFICES ASSUME NEW e \in Events', NEW c \in DOMAIN cycles,
                      cycles[c].serial = events'[e].serial, NEW t \in events'[e].keys
               PROVE  <<events'[e].rule, c, t, e>> \in recorded'
    BY <1>1 DEF Remembered
  <2>1. CASE e \in Events
    BY <1>1, <1>4, <2>1 DEF ReminderInv, Remembered
  <2>2. CASE e = id
    BY ZenonT(60), <1>1, <1>4, <1>5, <1>7, <2>2
  <2> QED
    BY <1>3, <2>1, <2>2
<1>10. RowsHaveCycles'
  <2> SUFFICES ASSUME NEW e \in Events', events'[e].row
               PROVE  /\ events'[e].cycle \in DOMAIN cycles
                      /\ cycles[events'[e].cycle].serial = events'[e].serial
                      /\ cycles[events'[e].cycle].ended # 0 =>
                           events'[e].day <= cycles[events'[e].cycle].ended
    BY <1>1 DEF RowsHaveCycles
  <2>1. CASE e \in Events
    BY <1>4, <2>1 DEF ReminderInv, RowsHaveCycles
  <2>2. CASE e = id
    BY <1>4, <1>5, <1>7, <2>2
  <2> QED
    BY <1>3, <2>1, <2>2
<1>11. EventFacts'
  <2>1. Cutoff' = Cutoff
    BY <1>1 DEF Cutoff
  <2>2. ASSUME NEW x \in recorded' PROVE x[4] \in Events' /\ events'[x[4]].cycle = x[2]
    <3>1. CASE x \in recorded
      BY <1>3, <1>4, <3>1 DEF ReminderInv, EventFacts
    <3>2. CASE \E t \in job.crossed : x = <<job.rule, job.cycle, t, id>>
      BY <1>3, <1>4, <1>7, <3>2
    <3> QED
      BY <1>1, <3>1, <3>2
  <2>3. ASSUME NEW e \in Events'
        PROVE  /\ events'[e].serial <= started /\ events'[e].day <= today
               /\ events'[e].day < Cutoff => events'[e].status = "sent"
    <3>1. CASE e \in Events
      BY <1>4, <3>1 DEF ReminderInv, EventFacts
    <3>2. CASE e = id
      BY <1>4, <1>5, <1>6, <1>7, <3>2
    <3> QED
      BY <1>3, <3>1, <3>2
  <2> QED
    BY <1>1, <2>1, <2>2, <2>3 DEF EventFacts
<1>12. OncePerThreshold'
  (* Another reminder of the rule in this cycle reached what is recorded.  *)
  <2>1. ASSUME NEW d \in Events, events[d].rule = job.rule,
               events[d].serial = cycles[job.cycle].serial
        PROVE  events[d].keys \cap job.crossed = {}
    <3>1. events[d].keys \subseteq Thresholds
      <4>1. events[d] \in Event
        BY <1>2 DEF Events
      <4> QED
        BY <4>1 DEF Event
    <3>2. \A t \in events[d].keys : <<job.rule, job.cycle, t, d>> \in recorded
      BY <1>5, <2>1 DEF ReminderInv, Remembered
    <3>3. events[d].keys \subseteq Recorded(job.rule, job.cycle)
      BY <3>1, <3>2 DEF Recorded
    <3> QED
      BY <1>1, <3>3
  <2> SUFFICES ASSUME NEW d \in Events', NEW e \in Events', d # e,
                      events'[d].rule = events'[e].rule,
                      events'[d].serial = events'[e].serial
               PROVE  events'[d].keys \cap events'[e].keys = {}
    BY DEF OncePerThreshold
  <2>2. CASE d \in Events /\ e \in Events
    BY <1>4, <2>2 DEF ReminderInv, OncePerThreshold
  <2>3. CASE d = id /\ e \in Events
    BY <1>4, <1>7, <2>1, <2>3
  <2>4. CASE d \in Events /\ e = id
    BY <1>4, <1>7, <2>1, <2>4
  <2> QED
    BY <1>3, <2>2, <2>3, <2>4
<1> QED
  BY <1>1, <1>8, <1>9, <1>10, <1>11, <1>12 DEF ReminderInv, JobFacts, Idle

(* The rows of events change, but not what they say. *)
LEMMA SameEvents ==
  ASSUME ReminderInv, Events' = Events,
         UNCHANGED <<today, nav, rules, cycles, recorded, started, job>>,
         \A d \in Events :
           /\ events'[d].rule = events[d].rule /\ events'[d].cycle = events[d].cycle
           /\ events'[d].serial = events[d].serial /\ events'[d].keys = events[d].keys
           /\ events'[d].day = events[d].day
           /\ events'[d].row => events[d].row
           /\ events'[d].status = "failed" => events[d].status # "sent"
           /\ events'[d].status = "pending" => events[d].status = "pending"
           /\ events'[d].status \in {"pending", "failed", "sent"}
  PROVE  ReminderInv'
<1>1. Cutoff' = Cutoff
  BY DEF Cutoff
<1>2. CycleFacts'
  BY DEF ReminderInv, CycleFacts, Active
<1>3. Remembered'
  BY DEF ReminderInv, Remembered
<1>4. RowsHaveCycles'
  BY DEF ReminderInv, RowsHaveCycles
<1>5. EventFacts'
  <2>1. ASSUME NEW d \in Events PROVE events'[d].day < Cutoff => events'[d].status = "sent"
    BY DEF ReminderInv, EventFacts
  <2> QED
    BY <1>1, <2>1 DEF ReminderInv, EventFacts
<1>6. JobFacts'
  BY DEF ReminderInv, JobFacts, Recorded, Meets
<1>7. OncePerThreshold'
  BY DEF ReminderInv, OncePerThreshold
<1> QED
  BY <1>2, <1>3, <1>4, <1>5, <1>6, <1>7 DEF ReminderInv

LEMMA DeliveryReminderInv ==
  ASSUME TypeInv, ReminderInv, NEW e \in Events, Delivered(e) \/ DeliveryFails(e)
  PROVE  ReminderInv'
<1>1. events \in Seq(Event) /\ \A d \in Events : events[d] \in Event
  BY DEF TypeInv, TypeOK, Events
<1>2. UNCHANGED <<today, nav, rules, cycles, recorded, started, job>>
  BY DEF Delivered, DeliveryFails
<1>3. CASE Delivered(e)
  <2>1. events' = [events EXCEPT ![e] = [events[e] EXCEPT !.status = "sent"]]
    BY <1>3 DEF Delivered
  <2>2. Events' = Events
    BY <1>1, <2>1 DEF Events
  <2>3. \A d \in Events \ {e} : events'[d] = events[d]
    BY <1>1, <2>1 DEF Events
  <2>4. /\ events'[e].rule = events[e].rule /\ events'[e].cycle = events[e].cycle
        /\ events'[e].serial = events[e].serial /\ events'[e].keys = events[e].keys
        /\ events'[e].day = events[e].day /\ events'[e].row = events[e].row
        /\ events'[e].status = "sent"
    BY <1>1, <2>1 DEF Event, Events
  <2>5. \A d \in Events : events[d].status \in {"pending", "failed", "sent"}
    BY <1>1 DEF Event
  <2>6. \A d \in Events :
          /\ events'[d].rule = events[d].rule /\ events'[d].cycle = events[d].cycle
          /\ events'[d].serial = events[d].serial /\ events'[d].keys = events[d].keys
          /\ events'[d].day = events[d].day
          /\ events'[d].row => events[d].row
          /\ events'[d].status = "failed" => events[d].status # "sent"
          /\ events'[d].status = "pending" => events[d].status = "pending"
          /\ events'[d].status \in {"pending", "failed", "sent"}
    BY <2>1, <2>3, <2>4, <2>5
  <2> QED
    BY <1>2, <2>2, <2>6, SameEvents
<1>4. CASE DeliveryFails(e)
  <2>1. /\ events' = [events EXCEPT ![e] = [events[e] EXCEPT !.status = "failed"]]
        /\ events[e].status = "pending"
    BY <1>4 DEF DeliveryFails
  <2>2. Events' = Events
    BY <1>1, <2>1 DEF Events
  <2>3. \A d \in Events \ {e} : events'[d] = events[d]
    BY <1>1, <2>1 DEF Events
  <2>4. /\ events'[e].rule = events[e].rule /\ events'[e].cycle = events[e].cycle
        /\ events'[e].serial = events[e].serial /\ events'[e].keys = events[e].keys
        /\ events'[e].day = events[e].day /\ events'[e].row = events[e].row
        /\ events'[e].status = "failed"
    BY <1>1, <2>1 DEF Event, Events
  <2>5. \A d \in Events : events[d].status \in {"pending", "failed", "sent"}
    BY <1>1 DEF Event
  <2>6. \A d \in Events :
          /\ events'[d].rule = events[d].rule /\ events'[d].cycle = events[d].cycle
          /\ events'[d].serial = events[d].serial /\ events'[d].keys = events[d].keys
          /\ events'[d].day = events[d].day
          /\ events'[d].row => events[d].row
          /\ events'[d].status = "failed" => events[d].status # "sent"
          /\ events'[d].status = "pending" => events[d].status = "pending"
          /\ events'[d].status \in {"pending", "failed", "sent"}
    BY <2>1, <2>3, <2>4, <2>5
  <2> QED
    BY <1>2, <2>2, <2>6, SameEvents
<1> QED
  BY <1>3, <1>4

(* Of a cycle that is forgotten nothing is left that a button could close: *)
(* its reminders are old, so they are delivered, and no recorded threshold *)
(* refers to them any more.                                                *)
LEMMA PruneReminderInv ==
  ASSUME TypeInv, ReminderInv, Prune
  PROVE  ReminderInv'
<1>1. /\ UNCHANGED <<today, nav, rules, job, started>> /\ job.pc = "idle"
      /\ DOMAIN cycles' = DOMAIN cycles \ Expired
      /\ \A c \in DOMAIN cycles' : cycles'[c] = cycles[c]
      /\ recorded' = recorded \ Forgotten
  BY DEF Prune, LockFree, Idle
<1>2. /\ events \in Seq(Event) /\ \A e \in Events : events[e] \in Event
      /\ \A c \in DOMAIN cycles : cycles[c] \in Cycle
      /\ today \in Nat /\ Cutoff \in Int
  BY DEF TypeInv, TypeOK, Events, Cutoff
<1>3. Cutoff' = Cutoff
  BY <1>1 DEF Cutoff
<1>4. /\ DOMAIN events' = Events
      /\ \A e \in Events : events'[e] = IF Prunable(e, recorded')
                                        THEN [events[e] EXCEPT !.row = FALSE] ELSE events[e]
  BY DEF Prune
<1>5. Events' = Events
  <2>1. events' \in Seq(Event)
    BY PruneTypeInv DEF TypeInv, TypeOK
  <2>2. DOMAIN events' = 1..Len(events') /\ Len(events') \in Nat /\ Len(events) \in Nat
    BY <1>2, <2>1
  <2> QED
    BY <1>4, <2>2 DEF Events
<1>6. \A e \in Events : /\ events'[e].rule = events[e].rule
                        /\ events'[e].cycle = events[e].cycle
                        /\ events'[e].serial = events[e].serial
                        /\ events'[e].keys = events[e].keys
                        /\ events'[e].day = events[e].day
                        /\ events'[e].status = events[e].status
                        /\ events'[e].row => (events[e].row /\ ~Prunable(e, recorded'))
  BY <1>2, <1>4 DEF Event
<1>7. CycleFacts'
  BY <1>1 DEF ReminderInv, CycleFacts, Active
<1>8. Remembered'
  BY <1>1, <1>5, <1>6 DEF ReminderInv, Remembered, Forgotten
<1>9. RowsHaveCycles'
  <2> SUFFICES ASSUME NEW e \in Events, events'[e].row
               PROVE  /\ events[e].cycle \in DOMAIN cycles'
                      /\ cycles'[events[e].cycle].serial = events[e].serial
                      /\ cycles'[events[e].cycle].ended # 0 =>
                           events[e].day <= cycles'[events[e].cycle].ended
    BY <1>5, <1>6 DEF RowsHaveCycles
  <2> DEFINE c == events[e].cycle
  <2>1. events[e].row /\ ~Prunable(e, recorded')
    BY <1>6
  <2>2. /\ c \in DOMAIN cycles /\ cycles[c].serial = events[e].serial
        /\ cycles[c].ended # 0 => events[e].day <= cycles[c].ended
    BY <2>1 DEF ReminderInv, RowsHaveCycles
  <2>3. c \notin Expired
    <3> SUFFICES ASSUME c \in Expired PROVE FALSE
      OBVIOUS
    <3>1. c \notin Active /\ cycles[c].ended # 0 /\ cycles[c].ended < Cutoff
      BY <2>2 DEF Expired, Active
    <3>2. events[e].day \in Nat /\ cycles[c].ended \in Nat
      BY <1>2, <2>2 DEF Event, Cycle
    <3>3. events[e].day < Cutoff
      BY <1>2, <2>2, <3>1, <3>2
    <3>4. events[e].status = "sent"
      BY <3>3 DEF ReminderInv, EventFacts
    <3>5. \A x \in recorded' : x[4] # e
      BY <1>1 DEF ReminderInv, EventFacts, Forgotten
    <3> QED
      BY <2>1, <3>1, <3>3, <3>4, <3>5 DEF Prunable
  <2> QED
    BY <1>1, <2>2, <2>3
<1>10. EventFacts'
  BY <1>1, <1>3, <1>5, <1>6 DEF ReminderInv, EventFacts
<1>11. OncePerThreshold'
  BY <1>5, <1>6 DEF ReminderInv, OncePerThreshold
<1> QED
  BY <1>1, <1>7, <1>8, <1>9, <1>10, <1>11 DEF ReminderInv, JobFacts

LEMMA RestReminderInv ==
  ASSUME TypeInv, ReminderInv,
         NextDay \/ SkipDeduction \/ \E kind \in {"estimate", "action"} : Contribute(kind)
  PROVE  ReminderInv'
<1>1. CASE NextDay
  <2>1. /\ UNCHANGED <<cycles, recorded, events, started>> /\ job'.pc = "idle"
        /\ today' = today + 1 /\ today \in Nat
    BY <1>1 DEF NextDay, LockFree, Idle, TypeInv, TypeOK
  <2>2. Events' = Events /\ Cutoff' = Cutoff + 1 /\ Cutoff \in Int
    BY <2>1 DEF Events, Cutoff
  <2>3. \A e \in Events : events[e].day \in Nat
    <3>1. \A e \in Events : events[e] \in Event
      BY DEF TypeInv, TypeOK, Events
    <3> QED
      BY <3>1 DEF Event
  <2>4. \A c \in DOMAIN cycles : cycles[c].ended \in Nat
    BY DEF TypeInv, TypeOK, Cycle
  <2>5. CycleFacts'
    BY <2>1, <2>4 DEF ReminderInv, CycleFacts, Active
  <2>6. EventFacts'
    <3>1. \A e \in Events : events[e].day < Cutoff + 1 => events[e].status = "sent"
      BY <1>1, <2>2, <2>3 DEF NextDay
    <3> QED
      BY <2>1, <2>2, <2>3, <3>1 DEF ReminderInv, EventFacts
  <2> QED
    BY <2>1, <2>2, <2>5, <2>6
    DEF ReminderInv, Remembered, RowsHaveCycles, JobFacts, OncePerThreshold
<1>2. CASE SkipDeduction \/ \E kind \in {"estimate", "action"} : Contribute(kind)
  <2>1. UNCHANGED <<today, nav, rules, cycles, recorded, events, started, job>>
    BY <1>2 DEF SkipDeduction, Contribute
  <2>2. JobFacts'
    BY <2>1 DEF ReminderInv, JobFacts, Recorded, Events, Meets
  <2> QED
    BY <2>1, <2>2, OtherReminderInv
<1> QED
  BY <1>1, <1>2

LEMMA NextReminderInv == TypeInv /\ ReminderInv /\ [Next]_vars => ReminderInv'
<1> SUFFICES ASSUME TypeInv, ReminderInv, [Next]_vars PROVE ReminderInv'
  OBVIOUS
<1>1. CASE UNCHANGED vars
  <2>1. JobFacts'
    BY <1>1 DEF vars, ReminderInv, JobFacts, Recorded, Events, Meets
  <2> QED
    BY <1>1, <2>1, OtherReminderInv DEF vars
<1> QED
  BY <1>1, PositionReminderInv, RuleReminderInv, JobReminderInv, PersistReminderInv,
     PruneReminderInv, DeliveryReminderInv, RestReminderInv DEF Next, Run

LEMMA ReminderInvariant == Spec => [](TypeInv /\ ReminderInv)
<1>1. Init => TypeInv /\ ReminderInv
  BY InitTypeInv, InitReminderInv
<1>2. TypeInv /\ ReminderInv /\ [Next]_vars => (TypeInv /\ ReminderInv)'
  BY NextTypeInv, NextReminderInv
<1> QED
  BY <1>1, <1>2, PTL DEF Spec

(* No threshold is reminded of twice by a rule in one position cycle, over *)
(* restarts, retries, pruning and ids of cycles that are used again.       *)
THEOREM OnePerThreshold == Spec => []OncePerThreshold
<1>1. ReminderInv => OncePerThreshold
  BY DEF ReminderInv
<1> QED
  BY <1>1, ReminderInvariant, PTL

(* A button whose reminder has a row finds that reminder's own cycle under *)
(* the id, never a later one that got the id again.                        *)
THEOREM ButtonsCloseTheirCycle == Spec => ButtonClosesItsCycle
<1>1. TypeInv /\ ReminderInv /\ [Next]_vars =>
        [\A e \in Events, c \in Active :
           ClosePosition(e) => cycles[c].serial = events[e].serial]_vars
  BY DEF ReminderInv, CycleFacts, RowsHaveCycles, ClosePosition, OfItsCycle
<1> QED
  BY <1>1, ReminderInvariant, PTL DEF Spec, ButtonClosesItsCycle

(* A day's evaluation is only marked as done when every threshold reached  *)
(* by the position as it then is has its row.                              *)
LEMMA MarksAreComplete ==
  ASSUME TypeInv, ReminderInv, [Next]_vars,
         NEW x \in evaluated', x \notin evaluated,
         NEW t \in rules[x[1]].thresholds, Meets(nav, position.cost, t)
  PROVE  \E y \in recorded' : y[1] = x[1] /\ y[2] = x[2] /\ y[3] = t
<1>1. RecordEvaluation \/ PersistAlert
  BY DEF Next, Run, vars, bounds, NextDay, Sync, Contribute, ApplyEstimates, SkipDeduction,
         ClosePosition, AddRule, DeleteRule, Begin, FetchNav, NavUnavailable, Evaluate,
         CommitFails, Prune, Delivered, DeliveryFails, Restart
<1>2. /\ x = <<job.rule, job.cycle, today>> /\ job.pc = "commit"
      /\ position = job.position
      /\ \/ job.crossed = {} /\ recorded' = recorded
         \/ recorded' = NowRecorded(Len(events) + 1)
  BY <1>1 DEF RecordEvaluation, PersistAlert, StateMatches
<1>3. t \in job.crossed \/ t \in Recorded(job.rule, job.cycle)
  BY <1>2 DEF ReminderInv, JobFacts
<1>4. CASE t \in job.crossed
  <2> DEFINE y == <<job.rule, job.cycle, t, Len(events) + 1>>
  <2>1. y \in recorded'
    BY <1>2, <1>4 DEF NowRecorded
  <2>2. y[1] = x[1] /\ y[2] = x[2] /\ y[3] = t
    BY <1>2
  <2> QED
    BY <2>1, <2>2
<1>5. CASE t \in Recorded(job.rule, job.cycle)
  <2>1. PICK e \in Events : <<job.rule, job.cycle, t, e>> \in recorded
    BY <1>5 DEF Recorded
  <2> QED
    BY <1>2, <2>1 DEF NowRecorded
<1> QED
  BY <1>3, <1>4, <1>5

(* No threshold is passed over because numbers changed between the reading *)
(* and the mark. *)
THEOREM NoThresholdPassedOver == Spec => NothingPassedOver
<1>1. TypeInv /\ ReminderInv /\ [Next]_vars =>
        [\A x \in evaluated' \ evaluated :
           \A t \in rules[x[1]].thresholds :
             Meets(nav, position.cost, t) =>
               \E y \in recorded' : y[1] = x[1] /\ y[2] = x[2] /\ y[3] = t]_vars
  BY MarksAreComplete
<1> QED
  BY <1>1, ReminderInvariant, PTL DEF Spec, NothingPassedOver
=============================================================================
