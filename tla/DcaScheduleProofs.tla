-------------------------- MODULE DcaScheduleProofs --------------------------
(***************************************************************************)
(* Theorems about DcaSchedule, for any rules, due dates, amounts, fees,    *)
(* changes and stops: it is well typed, a deduction is never lost, a       *)
(* reminder states what will be booked, and the cursor passes only dates   *)
(* that are reminded of or remembered, of which only a stop forgets one.   *)
(***************************************************************************)
EXTENDS DcaSchedule, TLAPS

USE ScheduleAssumption DEF Dates, NoDate, NoOccurrence

OnDate(p) == call[p].pc \in {"rules", "alert", "reserve"}
Active(p) == call[p].pc # "idle"

(***************************************************************************)
(* What a call knows of itself: it looks no further than today; the date   *)
(* it evaluates is the one before the next; and what it makes a reminder   *)
(* of has an occurrence of that amount.                                    *)
(***************************************************************************)
CallShape ==
  /\ \A p \in Callers : ~up => call[p].pc = "idle"
  /\ \A p \in Callers : Active(p) =>
       /\ call[p].next # 0
       /\ call[p].next <= today + 1
       /\ call[p].latest <= today
       /\ p = "check" => call[p].next # NoDate
  /\ \A p \in Callers : OnDate(p) =>
       /\ call[p].date \in Dates
       /\ ~call[p].retrying => call[p].next = call[p].date + 1
  /\ \A p \in Callers : call[p].pc \in {"alert", "reserve"} =>
       /\ call[p].made \in Rules \X Amounts
       /\ occurrences[<<call[p].made[1], call[p].date>>] = call[p].made[2]
  /\ cursor <= today

ShapeInv == TypeOK /\ CallShape

-----------------------------------------------------------------------------
(* Types and shapes, action by action. *)

LEMMA IdleType == Idle \in Call
  BY DEF Idle, Call, Steps

LEMMA InitShape == Init => ShapeInv
<1> SUFFICES ASSUME Init PROVE ShapeInv
  OBVIOUS
<1>1. (CHOOSE a \in Amounts : TRUE) \in Amounts
  OBVIOUS
<1>2. call \in [Callers -> Call]
  BY IdleType DEF Init
<1>3. /\ state \in [Rules -> {"absent", "enabled", "removed"}]
      /\ amount \in [Rules -> Amounts]
  BY <1>1 DEF Init
<1>4. events \in [Keys -> Event \cup {NoEvent}]
  BY DEF Init
<1>5. occurrences \in [Keys -> Amounts \cup {NoOccurrence}]
  BY DEF Init
<1>7. late \in BOOLEAN /\ up \in BOOLEAN
  BY DEF Init
<1>8. TypeOK
  BY <1>2, <1>3, <1>4, <1>5, <1>7 DEF Init, TypeOK
<1>6. CallShape
  BY DEF Init, CallShape, Active, OnDate, Idle
<1> QED
  BY <1>6, <1>8 DEF ShapeInv

LEMMA LastDueType ==
  ASSUME TypeOK, NEW past \in BOOLEAN
  PROVE  LastDue(past) \in 0..MaxDate /\ LastDue(past) <= today
  BY DEF LastDue, TypeOK

(* The beginning of a call. *)
LEMMA BeginShape ==
  ASSUME ShapeInv, NEW p \in Callers, p # "check", NEW past \in BOOLEAN, Begin(p, past)
  PROVE  /\ call' \in [Callers -> Call]
         /\ failures' \subseteq failures
         /\ \A q \in Callers : q # p => call'[q] = call[q]
         /\ call'[p].pc = "dates"
         /\ call'[p].retrying = FALSE
         /\ call'[p].latest = LastDue(past)
         /\ call'[p].next # 0
         /\ call'[p].next <= today + 1
         /\ cursor # NoDate => call'[p].next = cursor + 1
         /\ cursor = NoDate => call'[p].next = IF past THEN today ELSE NoDate
<1> DEFINE nxt == CASE cursor # NoDate -> cursor + 1
                    [] cursor = NoDate /\ past -> today
                    [] OTHER -> NoDate
           rts == {k \in failures : Retriable(k, LastDue(past))}
           c == [Idle EXCEPT !.pc = "dates", !.retries = rts, !.next = nxt,
                             !.latest = LastDue(past)]
<1>1. LastDue(past) \in 0..MaxDate
  BY LastDueType DEF ShapeInv
<1>2. rts \in SUBSET Keys
  BY DEF ShapeInv, TypeOK
<1>3. /\ nxt \in 0..(MaxDate + 1) \cup {NoDate} /\ nxt # 0 /\ nxt <= today + 1
      /\ cursor # NoDate => nxt = cursor + 1
      /\ cursor = NoDate => nxt = IF past THEN today ELSE NoDate
  <2>1. CASE cursor # NoDate
    BY <2>1 DEF ShapeInv, TypeOK, CallShape
  <2>2. CASE cursor = NoDate /\ past
    BY <2>2 DEF ShapeInv, TypeOK
  <2>3. CASE cursor = NoDate /\ ~past
    BY <2>3 DEF ShapeInv, TypeOK
  <2> QED
    BY <2>1, <2>2, <2>3
<1>4. call' = [call EXCEPT ![p] = c]
  BY DEF Begin
<1> HIDE DEF nxt, rts
<1>5. /\ c \in Call /\ c.pc = "dates" /\ c.retrying = FALSE /\ c.next = nxt
      /\ c.latest = LastDue(past)
  <2>1. c \in Call
    BY <1>1, <1>2, <1>3, IdleType DEF Call, Steps
  <2>2. /\ c.pc = "dates" /\ c.retrying = FALSE /\ c.next = nxt
        /\ c.latest = LastDue(past)
    BY DEF Idle
  <2> QED
    BY <2>1, <2>2
<1> HIDE DEF c
<1>6. call \in [Callers -> Call]
  BY DEF ShapeInv, TypeOK
<1>7. failures' \subseteq failures
  BY DEF Begin, Kept
<1> QED
  BY <1>3, <1>4, <1>5, <1>6, <1>7

LEMMA BeginCallShape ==
  ASSUME ShapeInv, NEW p \in Callers, p # "check", NEW past \in BOOLEAN, Begin(p, past),
         up', UNCHANGED <<today, cursor, occurrences>>
  PROVE  CallShape'
<1>1. LastDue(past) <= today
  BY LastDueType DEF ShapeInv
<1>2. \A q \in Callers : Active(q)' =>
        /\ call'[q].next # 0
        /\ call'[q].next <= today + 1
        /\ call'[q].latest <= today
        /\ q = "check" => call'[q].next # NoDate
  <2> TAKE q \in Callers
  <2>1. CASE q = p
    <3>1. /\ call'[p].next # 0
          /\ call'[p].next <= today + 1
          /\ call'[p].latest = LastDue(past)
      BY BeginShape
    <3> QED
      BY <1>1, <2>1, <3>1
  <2>2. CASE q # p
    <3>1. call'[q] = call[q]
      BY ZenonT(60), <2>2, BeginShape
    <3>2. Active(q) => /\ call[q].next # 0
                       /\ call[q].next <= today + 1
                       /\ call[q].latest <= today
                       /\ q = "check" => call[q].next # NoDate
      BY DEF ShapeInv, CallShape
    <3> QED
      BY <3>1, <3>2 DEF Active
  <2> QED
    BY <2>1, <2>2
<1>3. \A q \in Callers : call'[q].pc \in {"rules", "alert", "reserve"} => call'[q] = call[q]
  BY BeginShape
<1> QED
  BY <1>2, <1>3 DEF ShapeInv, CallShape, OnDate

LEMMA StartShape == ASSUME ShapeInv, Start PROVE ShapeInv'
<1>1. CASE "catchup" \in Callers
  <2>1. Begin("catchup", late) /\ late \in BOOLEAN
    BY <1>1 DEF Start, ShapeInv, TypeOK
  <2>2. TypeOK'
    BY <1>1, <2>1, BeginShape DEF ShapeInv, TypeOK, Start, outsideVars, ruleVars, bounds
  <2>3. CallShape'
    BY <1>1, <2>1, BeginCallShape DEF Start, outsideVars
  <2> QED
    BY <2>2, <2>3 DEF ShapeInv
<1>2. CASE "catchup" \notin Callers
  BY <1>2 DEF ShapeInv, TypeOK, CallShape, Start, outsideVars, ruleVars, bounds, Active, OnDate
<1> QED
  BY <1>1, <1>2

LEMMA ReminderTimeShape == ASSUME ShapeInv, ReminderTime PROVE ShapeInv'
<1>1. CASE up /\ "job" \in Callers /\ call["job"] = Idle
  <2>1. Begin("job", TRUE)
    BY <1>1 DEF ReminderTime
  <2>2. TypeOK'
    BY <1>1, <2>1, BeginShape DEF ShapeInv, TypeOK, ReminderTime, ruleVars, bounds
  <2>3. CallShape'
    BY <1>1, <2>1, BeginCallShape DEF ReminderTime
  <2> QED
    BY <2>2, <2>3 DEF ShapeInv
<1>2. CASE ~(up /\ "job" \in Callers /\ call["job"] = Idle)
  <2>1. TypeOK'
    BY <1>2 DEF ShapeInv, TypeOK, ReminderTime, ruleVars, bounds
  <2>2. CallShape'
    BY <1>2 DEF ShapeInv, CallShape, ReminderTime, Active, OnDate
  <2> QED
    BY <2>1, <2>2 DEF ShapeInv
<1> QED
  BY <1>1, <1>2

LEMMA StopShape == ASSUME ShapeInv, Stop PROVE ShapeInv'
<1>1. call' \in [Callers -> Call]
  BY IdleType DEF Stop
<1>2. \A p \in Callers : call'[p].pc = "idle"
  BY DEF Stop, Idle
<1>5. up' \in BOOLEAN
  BY DEF Stop
<1>3. TypeOK'
  BY <1>1, <1>5 DEF ShapeInv, TypeOK, Stop, outsideVars, dbVars, ruleVars
<1>4. CallShape'
  BY <1>2 DEF ShapeInv, CallShape, Stop, outsideVars, dbVars, Active, OnDate
<1> QED
  BY <1>3, <1>4 DEF ShapeInv

LEMMA NextDayShape == ASSUME ShapeInv, NextDay PROVE ShapeInv'
<1>1. TypeOK'
  <2>1. today' \in Dates /\ late' \in BOOLEAN
    <3>1. today' \in Dates
      BY DEF ShapeInv, TypeOK, NextDay
    <3>2. late' \in BOOLEAN
      BY DEF NextDay
    <3> QED
      BY <3>1, <3>2
  <2> QED
    BY <2>1 DEF ShapeInv, TypeOK, NextDay, dbVars, ruleVars, bounds
<1>2. \A p \in Callers : call[p] \in Call
  BY DEF ShapeInv, TypeOK
<1>3. CallShape'
  BY <1>2 DEF ShapeInv, TypeOK, CallShape, NextDay, dbVars, Active, OnDate, Call
<1> QED
  BY <1>1, <1>3 DEF ShapeInv

(* What only changes rules and fee. *)
CommandStep ==
  \/ \E r \in Rules, a \in Amounts : AddRule(r, a)
  \/ \E r \in Rules, a \in Amounts : SetDcaAmount(r, a)
  \/ \E v \in Fees : SetFundFee(v)
  \/ \E r \in Rules : DeleteRule(r)

LEMMA CommandShape == ASSUME ShapeInv, CommandStep PROVE ShapeInv'
<1>1. UNCHANGED <<today, late, cursor, failures, occurrences, events, up, call, since, crashes>>
  BY DEF CommandStep, AddRule, SetDcaAmount, SetFundFee, DeleteRule, outsideVars, bounds
<1>2. CallShape'
  BY <1>1 DEF ShapeInv, CallShape, Active, OnDate
<1>3. changes' \in 0..MaxChanges
  BY DEF ShapeInv, TypeOK, CommandStep, Change, AddRule, SetDcaAmount, SetFundFee, DeleteRule,
         bounds
<1>4. /\ state' \in [Rules -> {"absent", "enabled", "removed"}]
      /\ created' \in [Rules -> 0..MaxDate]
      /\ amount' \in [Rules -> Amounts]
      /\ fee' \in Fees
  BY DEF ShapeInv, TypeOK, CommandStep, AddRule, SetDcaAmount, SetFundFee, DeleteRule
<1> QED
  BY <1>1, <1>2, <1>3, <1>4 DEF ShapeInv, TypeOK

LEMMA CheckShape == ASSUME ShapeInv, StartCheck PROVE ShapeInv'
<1> DEFINE c == [Idle EXCEPT !.pc = "dates", !.next = today, !.latest = today]
<1>1. c \in Call /\ c.pc = "dates" /\ c.next = today /\ c.latest = today
  <2>0. today \in 0..(MaxDate + 1) \cup {NoDate} /\ today \in 0..MaxDate
    BY DEF ShapeInv, TypeOK
  <2>1. c \in Call
    BY <2>0, IdleType DEF Call, Steps
  <2>2. c.pc = "dates" /\ c.next = today /\ c.latest = today
    BY DEF Idle
  <2> QED
    BY <2>1, <2>2
<1>2. call' = [call EXCEPT !["check"] = c] /\ "check" \in Callers
  BY DEF StartCheck
<1> HIDE DEF c
<1>3. TypeOK'
  BY <1>1, <1>2 DEF ShapeInv, TypeOK, StartCheck, Change, outsideVars, dbVars, ruleVars
<1>4. CallShape'
  BY <1>1, <1>2 DEF ShapeInv, TypeOK, CallShape, StartCheck, Change, HandlerFree, outsideVars,
                    dbVars, Active, OnDate
<1> QED
  BY <1>3, <1>4 DEF ShapeInv

(* A step of one call: it is enough to look at that call. *)
LEMMA OneCall ==
  ASSUME ShapeInv, NEW p \in Callers, NEW c \in Call, call' = [call EXCEPT ![p] = c],
         up \/ c.pc = "idle", UNCHANGED <<today, up>>, cursor' <= today,
         \A k \in Keys : occurrences[k] # NoOccurrence => occurrences'[k] = occurrences[k],
         c.pc # "idle" =>
           /\ c.next # 0
           /\ c.next <= today + 1
           /\ c.latest <= today
           /\ p = "check" => c.next # NoDate,
         c.pc \in {"rules", "alert", "reserve"} =>
           /\ c.date \in Dates
           /\ ~c.retrying => c.next = c.date + 1,
         c.pc \in {"alert", "reserve"} =>
           /\ c.made \in Rules \X Amounts
           /\ occurrences'[<<c.made[1], c.date>>] = c.made[2]
  PROVE  CallShape'
<1>1. /\ call' \in [Callers -> Call]
      /\ call'[p] = c
      /\ \A q \in Callers : q # p => call'[q] = call[q]
  BY DEF ShapeInv, TypeOK
<1>2. \A q \in Callers : ~up' => call'[q].pc = "idle"
  BY <1>1 DEF ShapeInv, CallShape
<1>3. ASSUME NEW q \in Callers, Active(q)'
      PROVE  /\ call'[q].next # 0
             /\ call'[q].next <= today + 1
             /\ call'[q].latest <= today
             /\ q = "check" => call'[q].next # NoDate
  <2>1. CASE q = p
    BY <1>1, <1>3, <2>1 DEF Active
  <2>2. CASE q # p
    BY <1>1, <1>3, <2>2 DEF ShapeInv, CallShape, Active
  <2> QED
    BY <2>1, <2>2
<1>4. ASSUME NEW q \in Callers, OnDate(q)'
      PROVE  /\ call'[q].date \in Dates
             /\ ~call'[q].retrying => call'[q].next = call'[q].date + 1
  <2>1. CASE q = p
    BY <1>1, <1>4, <2>1 DEF OnDate
  <2>2. CASE q # p
    BY <1>1, <1>4, <2>2 DEF ShapeInv, CallShape, OnDate
  <2> QED
    BY <2>1, <2>2
<1>5. ASSUME NEW q \in Callers, call'[q].pc \in {"alert", "reserve"}
      PROVE  /\ call'[q].made \in Rules \X Amounts
             /\ occurrences'[<<call'[q].made[1], call'[q].date>>] = call'[q].made[2]
  <2>1. CASE q = p
    BY <1>1, <1>5, <2>1
  <2>2. CASE q # p
    <3>1. /\ call'[q] = call[q] /\ OnDate(q)
      BY <1>1, <1>5, <2>2 DEF OnDate
    <3>2. /\ call[q].made \in Rules \X Amounts
          /\ call[q].date \in Dates
          /\ occurrences[<<call[q].made[1], call[q].date>>] = call[q].made[2]
      BY <1>5, <3>1 DEF ShapeInv, CallShape
    <3>3. /\ <<call[q].made[1], call[q].date>> \in Keys
          /\ call[q].made[2] \in Amounts
      BY <3>2 DEF Keys
    <3> QED
      BY <3>1, <3>2, <3>3
  <2> QED
    BY <2>1, <2>2
<1> QED
  BY <1>2, <1>3, <1>4, <1>5 DEF CallShape

LEMMA BeginRetryShape ==
  ASSUME ShapeInv, NEW p \in Callers, NEW k \in Keys, BeginRetry(p, k)
  PROVE  ShapeInv'
<1> DEFINE lst == {<<r, amount[r]>> : r \in Enabled \cap {k[1]}}
           c == [call[p] EXCEPT !.pc = "rules", !.retries = @ \ {k}, !.retrying = TRUE,
                                !.date = k[2], !.listed = lst]
<1>1. call[p] \in Call /\ call[p].pc = "dates"
  BY DEF ShapeInv, TypeOK, BeginRetry
<1>2. k[2] \in Dates /\ k[2] \in 0..MaxDate
  BY DEF Keys
<1>3. lst \in SUBSET (Rules \X Amounts)
  BY DEF Enabled, ShapeInv, TypeOK
<1>5. call' = [call EXCEPT ![p] = c]
  BY DEF BeginRetry
<1> HIDE DEF lst
<1>4. c \in Call
  BY <1>1, <1>2, <1>3 DEF Call, Steps
<1>6. /\ c.pc = "rules" /\ c.retrying /\ c.date = k[2]
      /\ c.next = call[p].next /\ c.latest = call[p].latest
  BY <1>1 DEF Call
<1>7. /\ call[p].next # 0
      /\ call[p].next <= today + 1
      /\ call[p].latest <= today
      /\ p = "check" => call[p].next # NoDate
  BY <1>1 DEF ShapeInv, CallShape, Active
<1> HIDE DEF c
<1>8. CallShape'
  <2>1. up /\ UNCHANGED <<today, up, cursor, occurrences>> /\ cursor <= today
    BY DEF BeginRetry, outsideVars, dbVars, ShapeInv, CallShape
  <2> QED
    BY <1>2, <1>4, <1>5, <1>6, <1>7, <2>1, OneCall
<1>9. call' \in [Callers -> Call]
  BY <1>4, <1>5 DEF ShapeInv, TypeOK
<1> QED
  BY <1>8, <1>9
     DEF ShapeInv, TypeOK, BeginRetry, outsideVars, dbVars, ruleVars, bounds

LEMMA BeginDateShape ==
  ASSUME ShapeInv, NEW p \in Callers, BeginDate(p)
  PROVE  ShapeInv'
<1> DEFINE lst == {<<r, amount[r]>> : r \in Enabled}
           c == [call[p] EXCEPT !.pc = "rules", !.retrying = FALSE,
                                !.date = call[p].next, !.next = @ + 1, !.listed = lst]
<1>1. call[p] \in Call /\ call[p].pc = "dates"
  BY DEF ShapeInv, TypeOK, BeginDate
<1>2. /\ call[p].next # 0
      /\ call[p].latest <= today
  BY <1>1 DEF ShapeInv, CallShape, Active
<1>3. lst \in SUBSET (Rules \X Amounts)
  BY DEF Enabled, ShapeInv, TypeOK
<1>4. /\ call[p].next \in Dates
      /\ call[p].next \in 0..MaxDate
      /\ call[p].next + 1 \in 0..(MaxDate + 1)
      /\ call[p].next + 1 <= today + 1
      /\ today \in Dates
  BY SMTT(30), <1>1, <1>2 DEF BeginDate, ShapeInv, TypeOK, Call
<1>6. call' = [call EXCEPT ![p] = c]
  BY DEF BeginDate
<1> HIDE DEF lst
<1>5. c \in Call
  BY <1>1, <1>3, <1>4 DEF Call, Steps
<1>7. /\ c.pc = "rules" /\ c.retrying = FALSE /\ c.date = call[p].next
      /\ c.next = call[p].next + 1 /\ c.latest = call[p].latest
  BY <1>1 DEF Call
<1> HIDE DEF c
<1>8. CallShape'
  <2>1. up /\ UNCHANGED <<today, up, cursor, occurrences>> /\ cursor <= today
    BY DEF BeginDate, outsideVars, dbVars, ShapeInv, CallShape
  <2>2. /\ c.next # 0 /\ c.next <= today + 1 /\ c.next # NoDate
        /\ c.latest <= today /\ c.date \in Dates /\ c.next = c.date + 1
    BY <1>2, <1>4, <1>7
  <2>3. c.pc \notin {"alert", "reserve"}
    BY <1>7
  <2> QED
    BY <1>5, <1>6, <2>1, <2>2, <2>3, OneCall
<1>9. call' \in [Callers -> Call]
  BY <1>5, <1>6 DEF ShapeInv, TypeOK
<1> QED
  BY <1>8, <1>9
     DEF ShapeInv, TypeOK, BeginDate, outsideVars, dbVars, ruleVars, bounds

(* The steps of an evaluation move on within its date. *)
Moved(c, d) ==
  /\ c \in Call /\ d \in Call
  /\ d.next = c.next /\ d.latest = c.latest /\ d.retrying = c.retrying /\ d.date = c.date

LEMMA EvaluationStep ==
  ASSUME ShapeInv, NEW p \in Callers, NEW c, call' = [call EXCEPT ![p] = c],
         OnDate(p), Moved(call[p], c), up, UNCHANGED <<today, up, cursor>>,
         \A k \in Keys : occurrences[k] # NoOccurrence => occurrences'[k] = occurrences[k],
         c.pc \in {"alert", "reserve"} =>
           /\ c.made \in Rules \X Amounts
           /\ occurrences'[<<c.made[1], c.date>>] = c.made[2]
  PROVE  CallShape'
<1>1. Active(p)
  BY DEF OnDate, Active
<1>2. /\ c.next # 0
      /\ c.next <= today + 1
      /\ c.latest <= today
      /\ p = "check" => c.next # NoDate
  BY <1>1 DEF ShapeInv, CallShape, Moved
<1>3. /\ c.date \in Dates
      /\ ~c.retrying => c.next = c.date + 1
  BY DEF ShapeInv, CallShape, Moved
<1>4. c \in Call /\ cursor' <= today
  BY DEF ShapeInv, CallShape, Moved
<1> QED
  BY <1>2, <1>3, <1>4, OneCall

LEMMA EvaluateNotDueShape ==
  ASSUME ShapeInv, NEW p \in Callers, NEW r \in Rules, NEW a \in Amounts,
         EvaluateNotDue(p, r, a)
  PROVE  ShapeInv'
<1> DEFINE c == [call[p] EXCEPT !.listed = @ \ {<<r, a>>}]
<1>1. call[p] \in Call /\ call[p].pc = "rules" /\ OnDate(p)
  BY DEF ShapeInv, TypeOK, EvaluateNotDue, OnDate
<1>2. Moved(call[p], c) /\ c.pc = "rules"
  BY <1>1 DEF Moved, Call
<1>3. call' = [call EXCEPT ![p] = c]
  BY DEF EvaluateNotDue
<1> HIDE DEF c
<1>4. up /\ UNCHANGED <<today, up, cursor, occurrences>>
  BY DEF EvaluateNotDue, outsideVars
<1>5. CallShape'
  BY <1>1, <1>2, <1>3, <1>4, EvaluationStep
<1>6. call' \in [Callers -> Call]
  BY <1>2, <1>3 DEF ShapeInv, TypeOK, Moved
<1> QED
  BY <1>5, <1>6 DEF ShapeInv, TypeOK, EvaluateNotDue, outsideVars, ruleVars, bounds

LEMMA EvaluationFailsShape ==
  ASSUME ShapeInv, NEW p \in Callers, NEW r \in Rules, NEW a \in Amounts,
         EvaluationFails(p, r, a)
  PROVE  ShapeInv'
<1> DEFINE c == [call[p] EXCEPT !.listed = @ \ {<<r, a>>}]
<1>1. call[p] \in Call /\ call[p].pc = "rules" /\ OnDate(p)
  BY DEF ShapeInv, TypeOK, EvaluationFails, OnDate
<1>2. Moved(call[p], c) /\ c.pc = "rules"
  BY <1>1 DEF Moved, Call
<1>3. call' = [call EXCEPT ![p] = c]
  BY DEF EvaluationFails
<1> HIDE DEF c
<1>4. up /\ UNCHANGED <<today, up, cursor, occurrences>>
  BY DEF EvaluationFails, outsideVars
<1>5. CallShape'
  BY <1>1, <1>2, <1>3, <1>4, EvaluationStep
<1>6. call' \in [Callers -> Call]
  BY <1>2, <1>3 DEF ShapeInv, TypeOK, Moved
<1>7. <<r, call[p].date>> \in Keys
  BY <1>1 DEF ShapeInv, CallShape, Keys
<1>8. failures' \in SUBSET Keys
  BY <1>7 DEF EvaluationFails, Failed, ShapeInv, TypeOK
<1> QED
  BY <1>5, <1>6, <1>8 DEF ShapeInv, TypeOK, EvaluationFails, outsideVars, ruleVars, bounds

(* An occurrence is created once and then stays as it is. *)
LEMMA CreateOccurrenceFacts ==
  ASSUME ShapeInv, NEW p \in Callers, NEW r \in Rules, NEW a \in Amounts,
         CreateOccurrence(p, r, a)
  PROVE  /\ <<r, call[p].date>> \in Keys
         /\ occurrences' \in [Keys -> Amounts \cup {NoOccurrence}]
         /\ occurrences'[<<r, call[p].date>>] \in Amounts
         /\ \A k \in Keys : occurrences[k] # NoOccurrence => occurrences'[k] = occurrences[k]
         /\ \A k \in Keys : k # <<r, call[p].date>> => occurrences'[k] = occurrences[k]
<1> DEFINE k == <<r, call[p].date>>
<1>1. OnDate(p)
  BY DEF CreateOccurrence, OnDate
<1>2. k \in Keys
  BY <1>1 DEF ShapeInv, CallShape, Keys
<1>3. \/ occurrences[k] # NoOccurrence /\ occurrences' = occurrences
      \/ occurrences[k] = NoOccurrence /\ occurrences' = [occurrences EXCEPT ![k] = a]
  BY DEF CreateOccurrence
<1>4. occurrences \in [Keys -> Amounts \cup {NoOccurrence}]
  BY DEF ShapeInv, TypeOK
<1> HIDE DEF k
<1>5. /\ occurrences' \in [Keys -> Amounts \cup {NoOccurrence}]
      /\ occurrences'[k] \in Amounts
      /\ \A j \in Keys : occurrences[j] # NoOccurrence => occurrences'[j] = occurrences[j]
      /\ \A j \in Keys : j # k => occurrences'[j] = occurrences[j]
  BY <1>2, <1>3, <1>4
<1> QED
  BY <1>2, <1>5 DEF k

LEMMA CreateOccurrenceShape ==
  ASSUME ShapeInv, NEW p \in Callers, NEW r \in Rules, NEW a \in Amounts,
         CreateOccurrence(p, r, a)
  PROVE  ShapeInv'
<1> DEFINE mde == <<r, occurrences'[<<r, call[p].date>>]>>
           c == [call[p] EXCEPT !.pc = "alert", !.listed = @ \ {<<r, a>>}, !.made = mde]
<1>1. call[p] \in Call /\ OnDate(p)
  BY DEF ShapeInv, TypeOK, CreateOccurrence, OnDate
<1>2. mde \in Rules \X Amounts
  BY CreateOccurrenceFacts
<1>3. call' = [call EXCEPT ![p] = c]
  BY DEF CreateOccurrence, AmountStated
<1>4. mde[1] = r /\ mde[2] = occurrences'[<<r, call[p].date>>]
  OBVIOUS
<1> HIDE DEF mde
<1>5. Moved(call[p], c) /\ c.pc = "alert" /\ c.made = mde
  BY <1>1, <1>2 DEF Moved, Call, Steps
<1>6. occurrences'[<<c.made[1], c.date>>] = c.made[2]
  BY <1>4, <1>5 DEF Moved
<1> HIDE DEF c
<1>7. up /\ UNCHANGED <<today, up, cursor>>
  BY DEF CreateOccurrence, outsideVars
<1>8. CallShape'
  BY <1>1, <1>2, <1>3, <1>5, <1>6, <1>7, CreateOccurrenceFacts, EvaluationStep
<1>9. call' \in [Callers -> Call]
  BY <1>3, <1>5 DEF ShapeInv, TypeOK, Moved
<1> QED
  BY <1>8, <1>9, CreateOccurrenceFacts
     DEF ShapeInv, TypeOK, CreateOccurrence, outsideVars, ruleVars, bounds

LEMMA BuildAlertShape ==
  ASSUME ShapeInv, NEW p \in Callers, BuildAlert(p)
  PROVE  ShapeInv'
<1>1. call[p] \in Call /\ OnDate(p) /\ call[p].pc = "alert"
  BY DEF ShapeInv, TypeOK, BuildAlert, OnDate
<1>2. PICK c \in Call : /\ call' = [call EXCEPT ![p] = c]
                        /\ Moved(call[p], c)
                        /\ c.pc \in {"rules", "reserve"}
                        /\ c.pc = "reserve" => c.made = call[p].made
  <2>1. CASE AlertExists(<<call[p].made[1], call[p].date>>)
    <3> DEFINE c == [call[p] EXCEPT !.pc = "rules", !.made = <<>>]
    <3>1. c \in Call /\ Moved(call[p], c) /\ c.pc = "rules"
      BY <1>1 DEF Moved, Call, Steps
    <3>2. call' = [call EXCEPT ![p] = c]
      BY <2>1 DEF BuildAlert
    <3> HIDE DEF c
    <3> QED
      BY <3>1, <3>2
  <2>2. CASE ~AlertExists(<<call[p].made[1], call[p].date>>)
    <3> DEFINE c == [call[p] EXCEPT !.pc = "reserve"]
    <3>1. c \in Call /\ Moved(call[p], c) /\ c.pc = "reserve" /\ c.made = call[p].made
      BY <1>1 DEF Moved, Call, Steps
    <3>2. call' = [call EXCEPT ![p] = c]
      BY <2>2 DEF BuildAlert
    <3> HIDE DEF c
    <3> QED
      BY <3>1, <3>2
  <2> QED
    BY <2>1, <2>2
<1>3. up /\ UNCHANGED <<today, up, cursor, occurrences>>
  BY DEF BuildAlert, outsideVars
<1>4. /\ call[p].made \in Rules \X Amounts
      /\ occurrences[<<call[p].made[1], call[p].date>>] = call[p].made[2]
  BY <1>1 DEF ShapeInv, CallShape
<1>5. c.pc \in {"alert", "reserve"} =>
           /\ c.made \in Rules \X Amounts
           /\ occurrences'[<<c.made[1], c.date>>] = c.made[2]
  BY <1>2, <1>3, <1>4 DEF Moved
<1>6. CallShape'
  BY <1>1, <1>2, <1>3, <1>5, EvaluationStep
<1>7. call' \in [Callers -> Call]
  BY <1>2 DEF ShapeInv, TypeOK
<1>8. failures' \in SUBSET Keys
  BY DEF BuildAlert, ShapeInv, TypeOK
<1> QED
  BY <1>6, <1>7, <1>8 DEF ShapeInv, TypeOK, BuildAlert, outsideVars, ruleVars, bounds

LEMMA ReserveShape ==
  ASSUME ShapeInv, NEW p \in Callers, Reserve(p)
  PROVE  ShapeInv'
<1> DEFINE k == <<call[p].made[1], call[p].date>>
           c == [call[p] EXCEPT !.pc = "rules", !.made = <<>>]
           e == [status |-> "reserved", amount |-> call[p].made[2]]
<1>1. call[p] \in Call /\ OnDate(p) /\ call[p].pc = "reserve"
  BY DEF ShapeInv, TypeOK, Reserve, OnDate
<1>2. c \in Call /\ Moved(call[p], c) /\ c.pc = "rules"
  BY <1>1 DEF Moved, Call, Steps
<1>3. call' = [call EXCEPT ![p] = c]
  BY DEF Reserve
<1>4. call[p].made \in Rules \X Amounts
  BY <1>1 DEF ShapeInv, CallShape
<1>5. e \in Event
  BY <1>4 DEF Event
<1>6. events' = events \/ events' = [events EXCEPT ![k] = e]
  BY DEF Reserve
<1> HIDE DEF c, e, k
<1>7. events' \in [Keys -> Event \cup {NoEvent}]
  BY <1>5, <1>6 DEF ShapeInv, TypeOK
<1>8. up /\ UNCHANGED <<today, up, cursor, occurrences>>
  BY DEF Reserve, outsideVars
<1>9. CallShape'
  BY <1>1, <1>2, <1>3, <1>8, EvaluationStep
<1>10. call' \in [Callers -> Call]
  BY <1>2, <1>3 DEF ShapeInv, TypeOK
<1> QED
  BY <1>7, <1>9, <1>10 DEF ShapeInv, TypeOK, Reserve, outsideVars, ruleVars, bounds

(* What a call that is done with a date still knows. *)
LEMMA DispatchFacts ==
  ASSUME ShapeInv, NEW p \in Callers, Dispatching(p)
  PROVE  /\ call[p] \in Call
         /\ OnDate(p) /\ Active(p)
         /\ call[p].date \in Dates
         /\ ~call[p].retrying => call[p].next = call[p].date + 1 /\ call[p].date <= today
         /\ call[p].next # 0 /\ call[p].next <= today + 1 /\ call[p].latest <= today
         /\ p = "check" => call[p].next # NoDate
<1>1. call[p] \in Call /\ OnDate(p) /\ Active(p)
  BY DEF ShapeInv, TypeOK, Dispatching, OnDate, Active
<1>2. /\ call[p].date \in Dates
      /\ ~call[p].retrying => call[p].next = call[p].date + 1
  BY <1>1 DEF ShapeInv, CallShape
<1>3. /\ call[p].next # 0 /\ call[p].next <= today + 1 /\ call[p].latest <= today
      /\ p = "check" => call[p].next # NoDate
  BY <1>1 DEF ShapeInv, CallShape
<1>4. today \in Dates
  BY DEF ShapeInv, TypeOK
<1> QED
  BY <1>1, <1>2, <1>3, <1>4

LEMMA EndDispatchShape ==
  ASSUME ShapeInv, NEW p \in Callers, EndDispatch(p)
  PROVE  ShapeInv'
<1> DEFINE c == [call[p] EXCEPT !.pc = "dates", !.date = 0, !.retrying = FALSE]
<1>1. Dispatching(p)
  BY DEF EndDispatch
<1>2. call[p] \in Call
  BY <1>1, DispatchFacts
<1>3. c \in Call /\ c.pc = "dates" /\ c.next = call[p].next /\ c.latest = call[p].latest
  <2>1. 0 \in 0..MaxDate
    OBVIOUS
  <2>2. c \in Call
    BY <1>2, <2>1 DEF Call, Steps
  <2> QED
    BY <1>2, <2>2 DEF Call
<1>4. call' = [call EXCEPT ![p] = c]
  BY DEF EndDispatch
<1>5. \/ UNCHANGED <<cursor, since>>
      \/ /\ ~call[p].retrying /\ cursor' = call[p].date
         /\ since' = since \/ since' = call[p].date - 1
  BY DEF EndDispatch, WriteCursor, At
<1> HIDE DEF c
<1>6. cursor' \in 0..MaxDate \cup {NoDate} /\ cursor' <= today
  BY <1>1, <1>5, DispatchFacts DEF ShapeInv, TypeOK, CallShape
<1>7. since' \in 0..MaxDate
  BY <1>1, <1>5, DispatchFacts DEF ShapeInv, TypeOK
<1>8. up /\ UNCHANGED <<today, up, occurrences>>
  BY DEF EndDispatch, outsideVars
<1>9. CallShape'
  BY <1>1, <1>3, <1>4, <1>6, <1>8, DispatchFacts, OneCall
<1>10. call' \in [Callers -> Call]
  BY <1>3, <1>4 DEF ShapeInv, TypeOK
<1> QED
  BY <1>6, <1>7, <1>9, <1>10 DEF ShapeInv, TypeOK, EndDispatch, outsideVars, ruleVars, bounds

LEMMA IdleStep ==
  ASSUME ShapeInv, NEW p \in Callers, call' = [call EXCEPT ![p] = Idle],
         UNCHANGED <<today, up, occurrences>>, cursor' <= today
  PROVE  CallShape' /\ call' \in [Callers -> Call]
<1>1. Idle.pc = "idle"
  BY DEF Idle
<1>2. call' \in [Callers -> Call]
  BY IdleType DEF ShapeInv, TypeOK
<1> QED
  BY <1>1, <1>2, IdleType, OneCall

LEMMA AbortShape ==
  ASSUME ShapeInv, NEW p \in Callers, Abort(p)
  PROVE  ShapeInv'
<1>1. UNCHANGED <<today, up, occurrences>> /\ cursor' <= today
  BY DEF Abort, outsideVars, dbVars, ShapeInv, CallShape
<1>2. CallShape' /\ call' \in [Callers -> Call]
  BY <1>1, IdleStep DEF Abort
<1> QED
  BY <1>2 DEF ShapeInv, TypeOK, Abort, outsideVars, dbVars, ruleVars

LEMMA EndCallShape ==
  ASSUME ShapeInv, NEW p \in Callers, EndCall(p)
  PROVE  ShapeInv'
<1>1. call[p] \in Call /\ Active(p)
  BY DEF EndCall, ShapeInv, TypeOK, Active
<1>2. call[p].latest \in 0..MaxDate /\ call[p].latest <= today
  BY <1>1 DEF ShapeInv, CallShape, Call
<1>3. \/ UNCHANGED <<cursor, since>>
      \/ cursor' = call[p].latest /\ (since' = since \/ since' = call[p].latest)
  BY DEF EndCall, WriteCursor
<1>4. cursor' \in 0..MaxDate \cup {NoDate} /\ cursor' <= today
  BY <1>2, <1>3 DEF ShapeInv, TypeOK, CallShape
<1>5. since' \in 0..MaxDate
  BY <1>2, <1>3 DEF ShapeInv, TypeOK
<1>6. UNCHANGED <<today, up, occurrences>>
  BY DEF EndCall, outsideVars
<1>7. CallShape' /\ call' \in [Callers -> Call]
  BY <1>4, <1>6, IdleStep DEF EndCall
<1> QED
  BY <1>4, <1>5, <1>7 DEF ShapeInv, TypeOK, EndCall, outsideVars, ruleVars, bounds

LEMMA DeliveryFailsShape ==
  ASSUME ShapeInv, NEW k \in Keys, DeliveryFails(k)
  PROVE  ShapeInv'
<1>1. events \in [Keys -> Event \cup {NoEvent}]
  BY DEF ShapeInv, TypeOK
<1>2. events[k] \in Event
  BY <1>1 DEF DeliveryFails, NoEvent
<1>3. [events[k] EXCEPT !.status = "failed"] \in Event
  BY <1>2 DEF Event
<1>4. events' \in [Keys -> Event \cup {NoEvent}]
  BY <1>1, <1>3 DEF DeliveryFails
<1>5. CallShape'
  BY DEF ShapeInv, CallShape, DeliveryFails, outsideVars, Active, OnDate
<1> QED
  BY <1>4, <1>5 DEF ShapeInv, TypeOK, DeliveryFails, outsideVars, ruleVars, bounds

LEMMA StutterShape == ASSUME ShapeInv, UNCHANGED vars PROVE ShapeInv'
  BY DEF ShapeInv, TypeOK, CallShape, vars, outsideVars, dbVars, ruleVars, bounds, Active, OnDate

LEMMA ShapeStep == ShapeInv /\ [Next]_vars => ShapeInv'
<1> SUFFICES ASSUME ShapeInv, [Next]_vars PROVE ShapeInv'
  OBVIOUS
<1>1. CASE UNCHANGED vars
  BY <1>1, StutterShape
<1>2. CASE NextDay \/ ReminderTime \/ Start \/ Stop \/ StartCheck \/ CommandStep
  BY <1>2, NextDayShape, ReminderTimeShape, StartShape, StopShape, CheckShape, CommandShape
<1>3. CASE \E p \in Callers : Evaluate(p)
  BY <1>3, BeginRetryShape, BeginDateShape, EvaluateNotDueShape, CreateOccurrenceShape,
     EvaluationFailsShape, BuildAlertShape, ReserveShape DEF Evaluate
<1>4. CASE \E p \in Callers : EndDispatch(p) \/ Abort(p) \/ EndCall(p)
  BY <1>4, EndDispatchShape, AbortShape, EndCallShape
<1>5. CASE \E k \in Keys : DeliveryFails(k)
  BY <1>5, DeliveryFailsShape
<1> QED
  BY <1>1, <1>2, <1>3, <1>4, <1>5 DEF Next, CommandStep

(* The schedule is well typed in every reachable state, and a call never   *)
(* looks beyond today.                                                     *)
THEOREM TypeCorrect == Spec => []TypeOK
<1>1. Spec => []ShapeInv
  BY InitShape, ShapeStep, PTL DEF Spec
<1>2. ShapeInv => TypeOK
  BY DEF ShapeInv
<1> QED
  BY <1>1, <1>2, PTL

-----------------------------------------------------------------------------
(* Reminders and the occurrences they are about. *)

LEMMA ReminderStep ==
  ASSUME ShapeInv, ReminderShowsDeduction, [Next]_vars
  PROVE  ReminderShowsDeduction'
<1>1. \A k \in Keys : Reminded(k) => events[k] \in Event /\ events[k].amount \in Amounts
  BY DEF Reminded, Event, ShapeInv, TypeOK
<1>2. CASE UNCHANGED <<events, occurrences>>
  BY <1>2 DEF ReminderShowsDeduction, Reminded
<1>3. ASSUME NEW p \in Callers, NEW r \in Rules, NEW a \in Amounts, CreateOccurrence(p, r, a)
      PROVE  ReminderShowsDeduction'
  <2>1. events' = events
    BY <1>3 DEF CreateOccurrence
  <2>2. \A k \in Keys : occurrences[k] # NoOccurrence => occurrences'[k] = occurrences[k]
    BY <1>3, CreateOccurrenceFacts
  <2> QED
    BY <1>1, <2>1, <2>2 DEF ReminderShowsDeduction, Reminded
<1>4. ASSUME NEW p \in Callers, Reserve(p)
      PROVE  ReminderShowsDeduction'
  <2> DEFINE k == <<call[p].made[1], call[p].date>>
             e == [status |-> "reserved", amount |-> call[p].made[2]]
  <2>1. call[p].pc = "reserve" /\ occurrences' = occurrences
    BY <1>4 DEF Reserve
  <2>2. occurrences[k] = call[p].made[2]
    BY <2>1 DEF ShapeInv, CallShape
  <2>3. e.amount = occurrences[k]
    BY <2>2
  <2>4. events' = events \/ events' = [events EXCEPT ![k] = e]
    BY <1>4 DEF Reserve
  <2> HIDE DEF k, e
  <2>5. events \in [Keys -> Event \cup {NoEvent}]
    BY DEF ShapeInv, TypeOK
  <2> QED
    BY <2>1, <2>3, <2>4, <2>5 DEF ReminderShowsDeduction, Reminded
<1>5. ASSUME NEW k \in Keys, DeliveryFails(k)
      PROVE  ReminderShowsDeduction'
  <2>1. events \in [Keys -> Event \cup {NoEvent}]
    BY DEF ShapeInv, TypeOK
  <2>2. events[k] \in Event /\ Reminded(k)
    BY <1>5, <2>1 DEF DeliveryFails, NoEvent, Reminded
  <2>3. [events[k] EXCEPT !.status = "failed"].amount = events[k].amount
    BY <2>2 DEF Event
  <2>4. /\ events' = [events EXCEPT ![k] = [events[k] EXCEPT !.status = "failed"]]
        /\ occurrences' = occurrences
    BY <1>5 DEF DeliveryFails
  <2> QED
    BY <2>1, <2>2, <2>3, <2>4 DEF ReminderShowsDeduction, Reminded
<1>6. ASSUME NEW p \in Callers, Evaluate(p)
      PROVE  ReminderShowsDeduction'
  <2>1. CASE UNCHANGED <<events, occurrences>>
    BY <1>2, <2>1
  <2>2. CASE Reserve(p) \/ \E r \in Rules, a \in Amounts : CreateOccurrence(p, r, a)
    BY <1>3, <1>4, <2>2
  <2> QED
    BY <1>6, <2>1, <2>2 DEF Evaluate, BeginRetry, BeginDate, EvaluateNotDue, EvaluationFails,
       BuildAlert, dbVars
<1> QED
  BY <1>2, <1>5, <1>6
     DEF Next, vars, dbVars, NextDay, ReminderTime, AddRule, SetDcaAmount, SetFundFee, DeleteRule,
         StartCheck, EndDispatch, Abort, EndCall, Start, Stop

(* For any number of calls at once, and whenever the amount of the rule is *)
(* changed: a reminder states the amount its occurrence is booked with.    *)
THEOREM RemindersShowDeductions == Spec => []ReminderShowsDeduction
<1>1. Init => ReminderShowsDeduction
  BY DEF Init, ReminderShowsDeduction, Reminded
<1> QED
  BY <1>1, InitShape, ShapeStep, ReminderStep, PTL DEF Spec

-----------------------------------------------------------------------------
(* No deduction is lost.                                                   *)

Writers == Callers \ {"check"}

Replaying(p) == OnDate(p) /\ ~call[p].retrying

(* A due date of an enabled rule, and what the schedule has of it. *)
Owes(k) == state[k[1]] = "enabled" /\ k[2] \in Due[k[1]] /\ k[2] > created[k[1]]
Held(k) == occurrences[k] # NoOccurrence \/ k \in failures

(* The last date that a call has replayed, or need not replay. *)
Upto(p) == IF call[p].next = NoDate THEN call[p].latest
           ELSE IF Replaying(p) THEN call[p].next - 2
           ELSE call[p].next - 1

(* Once there is a cursor, every call has all dates up to its own, so that *)
(* whichever writes the cursor, and in whatever order, writes no date that *)
(* is not held.                                                            *)
ReplayedKept ==
  cursor # NoDate =>
    \A p \in Writers : Active(p) =>
      \A k \in Keys : Owes(k) /\ k[2] > since /\ k[2] <= Upto(p) => Held(k)

(* Of the date under evaluation, the rules that are not listed any more.   *)
EvaluatedKept ==
  \A p \in Callers : Replaying(p) =>
    \A k \in Keys :
      Owes(k) /\ k[2] = call[p].date /\ (\A a \in Amounts : <<k[1], a>> \notin call[p].listed)
        => Held(k)

(* Without a cursor a call replays only the day it began; *)
FirstDate ==
  cursor = NoDate =>
    \A p \in Writers : Active(p) =>
      call[p].next = NoDate \/ Upto(p) = call[p].latest - 1

(* and calls that overlap began at most a day apart. *)
Neighbours ==
  \A p, q \in Writers : p # q /\ Active(p) /\ Active(q) =>
    /\ call[q].latest <= call[p].latest + 1
    /\ call[p].next = NoDate => call[p].latest <= call[q].latest

KeptInv == DeductionsKept /\ ReplayedKept /\ EvaluatedKept /\ FirstDate /\ Neighbours

LEMMA InitKept == Init => KeptInv
<1> SUFFICES ASSUME Init PROVE KeptInv
  OBVIOUS
<1>1. \A p \in Callers : ~Active(p) /\ ~Replaying(p)
  BY DEF Init, Active, Replaying, OnDate, Idle
<1>2. DeductionsKept
  BY DEF Init, DeductionsKept, PassedTo, Keys
<1> QED
  BY <1>1, <1>2 DEF KeptInv, ReplayedKept, EvaluatedKept, FirstDate, Neighbours, Writers

(* How far a call has come, in numbers. *)
LEMMA UptoBounds ==
  ASSUME ShapeInv, NEW p \in Callers, Active(p)
  PROVE  /\ Upto(p) \in Int /\ Upto(p) <= today
         /\ call[p].latest \in Int /\ call[p].latest <= today
         /\ call[p].next \in Int /\ call[p].date \in Int
         /\ call[p] \in Call
         /\ Replaying(p) => /\ call[p].date = call[p].next - 1 /\ call[p].next # NoDate
                            /\ call[p].date \in Dates /\ call[p].date <= today
                            /\ Upto(p) = call[p].date - 1
<1>1. call[p] \in Call
  BY DEF ShapeInv, TypeOK
<1>2. /\ call[p].latest \in Int /\ call[p].next \in Int /\ call[p].date \in Int
      /\ today \in Int
  BY <1>1 DEF Call, ShapeInv, TypeOK
<1>3. /\ call[p].next <= today + 1
      /\ call[p].latest <= today
  BY DEF ShapeInv, CallShape
<1>4. Replaying(p) => call[p].next = call[p].date + 1 /\ call[p].date \in Dates
  BY DEF ShapeInv, CallShape, Replaying
<1> QED
  BY <1>1, <1>2, <1>3, <1>4 DEF Upto

(* Steps of which nothing but the held dates matters.  A date may become   *)
(* owed if no call has come to it yet.                                     *)
LEMMA QuietStep ==
  ASSUME ShapeInv, KeptInv, UNCHANGED <<cursor, since>>,
         \A q \in Callers : call'[q] = call[q] \/ call'[q].pc = "idle",
         \A k \in Keys : Owes(k)' => k[2] > today \/ (Owes(k) /\ (Held(k) => Held(k)'))
  PROVE  KeptInv'
<1>1. /\ today \in Int /\ cursor \in Int /\ since \in Int /\ cursor <= today
      /\ \A k \in Keys : k[2] \in Int
  BY DEF ShapeInv, TypeOK, CallShape, Keys
<1>2. DeductionsKept'
  <2> SUFFICES ASSUME NEW k \in Keys, PassedTo(k, cursor)' PROVE Held(k)'
    BY DEF DeductionsKept, Held, Remembered
  <2>1. Owes(k)' /\ k[2] <= cursor /\ k[2] > since
    BY DEF PassedTo, Owes
  <2>2. Owes(k) /\ (Held(k) => Held(k)')
    BY <1>1, <2>1
  <2>3. Held(k)
    BY <2>1, <2>2 DEF KeptInv, DeductionsKept, PassedTo, Owes, Held, Remembered
  <2> QED
    BY <2>2, <2>3
<1>3. ASSUME NEW q \in Callers, Active(q)'
      PROVE  /\ call'[q] = call[q] /\ Active(q)
             /\ (Replaying(q)' <=> Replaying(q)) /\ Upto(q)' = Upto(q)
  <2>1. call'[q] = call[q]
    BY <1>3 DEF Active
  <2>2. Active(q) /\ (Replaying(q)' <=> Replaying(q))
    BY <1>3, <2>1 DEF Active, Replaying, OnDate
  <2> QED
    BY <2>1, <2>2 DEF Upto
<1>4. ReplayedKept'
  <2> SUFFICES ASSUME cursor # NoDate, NEW p \in Writers, Active(p)', NEW k \in Keys,
                      Owes(k)', k[2] > since, k[2] <= Upto(p)'
               PROVE  Held(k)'
    BY DEF ReplayedKept
  <2>1. p \in Callers
    BY DEF Writers
  <2>2. Active(p) /\ k[2] <= Upto(p) /\ Upto(p) <= today /\ Upto(p) \in Int
    BY <1>3, <2>1, UptoBounds
  <2>3. Owes(k) /\ (Held(k) => Held(k)')
    BY <1>1, <2>2
  <2> QED
    BY <2>2, <2>3 DEF KeptInv, ReplayedKept
<1>5. EvaluatedKept'
  <2> SUFFICES ASSUME NEW p \in Callers, Replaying(p)', NEW k \in Keys, Owes(k)',
                      k[2] = call'[p].date, \A a \in Amounts : <<k[1], a>> \notin call'[p].listed
               PROVE  Held(k)'
    BY DEF EvaluatedKept
  <2>1. Active(p)'
    BY DEF Active, Replaying, OnDate
  <2>2. call'[p] = call[p] /\ Active(p) /\ Replaying(p)
    BY <1>3, <2>1
  <2>3. k[2] <= today
    BY <2>2, UptoBounds
  <2>4. Owes(k) /\ (Held(k) => Held(k)')
    BY <1>1, <2>3
  <2> QED
    BY <2>2, <2>4 DEF KeptInv, EvaluatedKept
<1>6. FirstDate'
  BY <1>3 DEF KeptInv, FirstDate, Writers
<1>7. Neighbours'
  BY <1>3 DEF KeptInv, Neighbours, Writers
<1> QED
  BY <1>2, <1>4, <1>5, <1>6, <1>7 DEF KeptInv

(* A step of one call that does not write the cursor: it comes no further, *)
(* keeps what is held, and what it takes off its list is held or not due.  *)
LEMMA OwnStep ==
  ASSUME ShapeInv, KeptInv, NEW p \in Callers, Active(p), Active(p)',
         \A q \in Callers : q # p => call'[q] = call[q],
         call'[p].latest = call[p].latest,
         call'[p].next = NoDate <=> call[p].next = NoDate,
         p \in Writers => Upto(p)' = Upto(p),
         UNCHANGED <<cursor, since, state, created>>,
         \A k \in Keys : Owes(k) /\ Held(k) => Held(k)',
         Replaying(p)' =>
           \A k \in Keys :
             Owes(k) /\ k[2] = call'[p].date
               /\ (\A a \in Amounts : <<k[1], a>> \notin call'[p].listed)
             => Held(k)'
  PROVE  KeptInv'
<1>1. \A k \in Keys : Owes(k)' <=> Owes(k)
  BY DEF Owes
<1>2. DeductionsKept'
  BY DEF KeptInv, DeductionsKept, PassedTo, Owes, Held, Remembered
<1>3. ASSUME NEW q \in Callers, q # p
      PROVE  /\ call'[q] = call[q] /\ (Active(q)' <=> Active(q))
             /\ (Replaying(q)' <=> Replaying(q)) /\ Upto(q)' = Upto(q)
  BY <1>3 DEF Active, Replaying, OnDate, Upto
<1>4. ASSUME NEW q \in Writers
      PROVE  /\ q \in Callers /\ (Active(q)' <=> Active(q)) /\ Upto(q)' = Upto(q)
             /\ call'[q].latest = call[q].latest
             /\ (call'[q].next = NoDate <=> call[q].next = NoDate)
  BY <1>3, <1>4 DEF Writers
<1>5. ReplayedKept'
  <2> SUFFICES ASSUME cursor # NoDate, NEW q \in Writers, Active(q)', NEW k \in Keys,
                      Owes(k)', k[2] > since, k[2] <= Upto(q)'
               PROVE  Held(k)'
    BY DEF ReplayedKept
  <2>1. Active(q) /\ k[2] <= Upto(q) /\ Owes(k)
    BY <1>1, <1>4
  <2> QED
    BY <2>1 DEF KeptInv, ReplayedKept
<1>6. EvaluatedKept'
  <2> SUFFICES ASSUME NEW q \in Callers, Replaying(q)', NEW k \in Keys, Owes(k)',
                      k[2] = call'[q].date, \A a \in Amounts : <<k[1], a>> \notin call'[q].listed
               PROVE  Held(k)'
    BY DEF EvaluatedKept
  <2>1. CASE q = p
    BY <1>1, <2>1
  <2>2. CASE q # p
    BY <1>1, <1>3, <2>2 DEF KeptInv, EvaluatedKept
  <2> QED
    BY <2>1, <2>2
<1>7. FirstDate'
  BY <1>4 DEF KeptInv, FirstDate
<1>8. Neighbours'
  BY <1>4 DEF KeptInv, Neighbours
<1> QED
  BY <1>2, <1>5, <1>6, <1>7, <1>8 DEF KeptInv

LEMMA BeginRetryKept ==
  ASSUME ShapeInv, KeptInv, NEW p \in Callers, NEW k \in Keys, BeginRetry(p, k)
  PROVE  KeptInv'
<1>1. call[p] \in Call /\ call \in [Callers -> Call] /\ call[p].pc = "dates"
  BY DEF ShapeInv, TypeOK, BeginRetry
<1>2. /\ call'[p].pc = "rules" /\ call'[p].retrying
      /\ call'[p].next = call[p].next /\ call'[p].latest = call[p].latest
      /\ \A q \in Callers : q # p => call'[q] = call[q]
  BY <1>1 DEF BeginRetry, Call
<1>3. UNCHANGED <<cursor, since, state, created, occurrences, failures>>
  BY DEF BeginRetry, dbVars, ruleVars
<1>4. Active(p) /\ Active(p)' /\ ~Replaying(p) /\ ~Replaying(p)'
  BY <1>1, <1>2 DEF Active, Replaying, OnDate
<1>5. Upto(p)' = Upto(p)
  BY <1>2, <1>4 DEF Upto
<1>6. \A j \in Keys : Held(j)' <=> Held(j)
  BY <1>3 DEF Held
<1> QED
  BY <1>2, <1>3, <1>4, <1>5, <1>6, OwnStep

LEMMA BeginDateKept ==
  ASSUME ShapeInv, KeptInv, NEW p \in Callers, BeginDate(p)
  PROVE  KeptInv'
<1>1. call[p] \in Call /\ call \in [Callers -> Call] /\ call[p].pc = "dates"
  BY DEF ShapeInv, TypeOK, BeginDate
<1>2. /\ call'[p].pc = "rules" /\ ~call'[p].retrying
      /\ call'[p].next = call[p].next + 1 /\ call'[p].latest = call[p].latest
      /\ call'[p].listed = {<<r, amount[r]>> : r \in Enabled}
      /\ \A q \in Callers : q # p => call'[q] = call[q]
  BY <1>1 DEF BeginDate, Call
<1>3. UNCHANGED <<cursor, since, state, created, occurrences, failures>>
  BY DEF BeginDate, dbVars, ruleVars
<1>4. Active(p) /\ Active(p)' /\ ~Replaying(p) /\ Replaying(p)'
  BY <1>1, <1>2 DEF Active, Replaying, OnDate
<1>5. call[p].next \in Int /\ call[p].next # NoDate /\ call[p].next # -2
  BY <1>1 DEF BeginDate, Call
<1>6. Upto(p)' = Upto(p) /\ call'[p].next # NoDate
  BY <1>2, <1>4, <1>5 DEF Upto
<1>7. \A j \in Keys : Held(j)' <=> Held(j)
  BY <1>3 DEF Held
<1>8. ASSUME NEW j \in Keys, Owes(j), \A a \in Amounts : <<j[1], a>> \notin call'[p].listed
      PROVE  FALSE
  <2>1. j[1] \in Enabled /\ amount[j[1]] \in Amounts
    BY <1>8 DEF Owes, Enabled, Keys, ShapeInv, TypeOK
  <2>2. <<j[1], amount[j[1]]>> \in call'[p].listed
    BY <1>2, <2>1
  <2> QED
    BY <1>8, <2>1, <2>2
<1> QED
  BY <1>2, <1>3, <1>4, <1>5, <1>6, <1>7, <1>8, OwnStep

(* Within an evaluation only what leaves the list matters. *)
LEMMA EvaluationKept ==
  ASSUME ShapeInv, KeptInv, NEW p \in Callers, OnDate(p), OnDate(p)',
         Moved(call[p], call'[p]), \A q \in Callers : q # p => call'[q] = call[q],
         UNCHANGED <<cursor, since, state, created>>,
         \A k \in Keys : Owes(k) /\ Held(k) => Held(k)',
         \A k \in Keys, a \in Amounts :
           Owes(k) /\ k[2] = call[p].date
             /\ <<k[1], a>> \in call[p].listed /\ <<k[1], a>> \notin call'[p].listed
           => Held(k)'
  PROVE  KeptInv'
<1>1. Active(p) /\ Active(p)'
  BY DEF OnDate, Active
<1>2. /\ call'[p].next = call[p].next /\ call'[p].latest = call[p].latest
      /\ call'[p].retrying = call[p].retrying /\ call'[p].date = call[p].date
  BY DEF Moved
<1>3. Replaying(p)' <=> Replaying(p)
  BY <1>2 DEF Replaying
<1>4. Upto(p)' = Upto(p)
  BY <1>2, <1>3 DEF Upto
<1>5. ASSUME Replaying(p)', NEW k \in Keys, Owes(k), k[2] = call'[p].date,
             \A a \in Amounts : <<k[1], a>> \notin call'[p].listed
      PROVE  Held(k)'
  <2>1. CASE \E a \in Amounts : <<k[1], a>> \in call[p].listed
    BY <1>2, <1>5, <2>1
  <2>2. CASE \A a \in Amounts : <<k[1], a>> \notin call[p].listed
    <3>1. Held(k)
      BY <1>2, <1>3, <1>5, <2>2 DEF KeptInv, EvaluatedKept
    <3> QED
      BY <1>5, <3>1
  <2> QED
    BY <2>1, <2>2
<1> QED
  BY <1>1, <1>2, <1>4, <1>5, OwnStep

LEMMA EvaluateNotDueKept ==
  ASSUME ShapeInv, KeptInv, NEW p \in Callers, NEW r \in Rules, NEW a \in Amounts,
         EvaluateNotDue(p, r, a)
  PROVE  KeptInv'
<1>1. call[p] \in Call /\ call \in [Callers -> Call] /\ call[p].pc = "rules"
  BY DEF ShapeInv, TypeOK, EvaluateNotDue
<1>2. /\ call'[p].pc = "rules" /\ Moved(call[p], call'[p])
      /\ call'[p].listed = call[p].listed \ {<<r, a>>}
      /\ \A q \in Callers : q # p => call'[q] = call[q]
  BY <1>1 DEF EvaluateNotDue, Call, Moved
<1>3. OnDate(p) /\ OnDate(p)'
  BY <1>1, <1>2 DEF OnDate
<1>4. UNCHANGED <<cursor, since, state, created, occurrences>>
  BY DEF EvaluateNotDue, ruleVars
<1>5. failures' = failures \ {<<r, call[p].date>>} /\ ~IsDue(r, call[p].date)
  BY DEF EvaluateNotDue
<1>6. call[p].date \in Dates /\ created \in [Rules -> 0..MaxDate]
  BY <1>3 DEF ShapeInv, CallShape, TypeOK
<1>7. ~Owes(<<r, call[p].date>>)
  BY <1>5, <1>6 DEF Owes, IsDue
<1>8. \A k \in Keys : k[1] = r /\ k[2] = call[p].date => k = <<r, call[p].date>>
  BY DEF Keys
<1>9. \A k \in Keys : Owes(k) /\ Held(k) => Held(k)'
  BY <1>4, <1>5, <1>7 DEF Held
<1>10. \A k \in Keys, b \in Amounts :
         Owes(k) /\ k[2] = call[p].date
           /\ <<k[1], b>> \in call[p].listed /\ <<k[1], b>> \notin call'[p].listed
         => Held(k)'
  BY <1>2, <1>7, <1>8
<1> QED
  BY <1>2, <1>3, <1>4, <1>9, <1>10, EvaluationKept

LEMMA CreateOccurrenceKept ==
  ASSUME ShapeInv, KeptInv, NEW p \in Callers, NEW r \in Rules, NEW a \in Amounts,
         CreateOccurrence(p, r, a)
  PROVE  KeptInv'
<1>1. call[p] \in Call /\ call \in [Callers -> Call] /\ call[p].pc = "rules"
  BY DEF ShapeInv, TypeOK, CreateOccurrence
<1>2. /\ call'[p].pc = "alert"
      /\ call'[p].listed = call[p].listed \ {<<r, a>>}
      /\ call'[p].next = call[p].next /\ call'[p].latest = call[p].latest
      /\ call'[p].retrying = call[p].retrying /\ call'[p].date = call[p].date
      /\ \A q \in Callers : q # p => call'[q] = call[q]
  BY <1>1 DEF CreateOccurrence, Call
<1>3. call'[p] \in Call
  BY CreateOccurrenceShape DEF ShapeInv, TypeOK
<1>4. OnDate(p) /\ OnDate(p)' /\ Moved(call[p], call'[p])
  BY <1>1, <1>2, <1>3 DEF OnDate, Moved
<1>5. UNCHANGED <<cursor, since, state, created, failures>>
  BY DEF CreateOccurrence, ruleVars
<1>6. \A k \in Keys : k[1] = r /\ k[2] = call[p].date => k = <<r, call[p].date>>
  BY DEF Keys
<1>7. Held(<<r, call[p].date>>)'
  <2>1. occurrences'[<<r, call[p].date>>] # NoOccurrence
    BY CreateOccurrenceFacts
  <2> QED
    BY <1>2, <2>1 DEF Held
<1>8. \A k \in Keys : Held(k) => Held(k)'
  BY <1>5, CreateOccurrenceFacts DEF Held
<1>9. ASSUME NEW k \in Keys, k[2] = call[p].date,
             NEW b \in Amounts, <<k[1], b>> \in call[p].listed,
             <<k[1], b>> \notin call'[p].listed
      PROVE  Held(k)'
  <2>1. k[1] = r
    BY <1>2, <1>9
  <2>2. k = <<r, call[p].date>>
    BY <1>6, <1>9, <2>1
  <2>3. occurrences'[k] # NoOccurrence
    BY <2>2, CreateOccurrenceFacts
  <2> QED
    BY <2>3 DEF Held
<1> QED
  BY <1>2, <1>4, <1>5, <1>8, <1>9, EvaluationKept

LEMMA EvaluationFailsKept ==
  ASSUME ShapeInv, KeptInv, NEW p \in Callers, NEW r \in Rules, NEW a \in Amounts,
         EvaluationFails(p, r, a)
  PROVE  KeptInv'
<1>1. call[p] \in Call /\ call \in [Callers -> Call] /\ call[p].pc = "rules"
  BY DEF ShapeInv, TypeOK, EvaluationFails
<1>2. /\ call'[p].pc = "rules" /\ Moved(call[p], call'[p])
      /\ call'[p].listed = call[p].listed \ {<<r, a>>}
      /\ \A q \in Callers : q # p => call'[q] = call[q]
  BY ZenonT(60), <1>1 DEF EvaluationFails, Call, Moved
<1>3. OnDate(p) /\ OnDate(p)'
  BY <1>1, <1>2 DEF OnDate
<1>4. UNCHANGED <<cursor, since, state, created, occurrences>>
  BY DEF EvaluationFails, ruleVars
<1>5. failures' = failures \cup {<<r, call[p].date>>}
  BY DEF EvaluationFails, Failed
<1>6. \A k \in Keys : k[1] = r /\ k[2] = call[p].date => k = <<r, call[p].date>>
  BY DEF Keys
<1>7. \A k \in Keys : Held(k) => Held(k)'
  BY <1>4, <1>5 DEF Held
<1>8. ASSUME NEW k \in Keys, k[2] = call[p].date,
             NEW b \in Amounts, <<k[1], b>> \in call[p].listed,
             <<k[1], b>> \notin call'[p].listed
      PROVE  Held(k)'
  <2>1. k[1] = r
    BY <1>2, <1>8
  <2>2. k \in failures'
    BY <1>5, <1>6, <1>8, <2>1
  <2> QED
    BY <2>2 DEF Held
<1> QED
  BY <1>2, <1>3, <1>4, <1>7, <1>8, EvaluationKept

LEMMA BuildAlertKept ==
  ASSUME ShapeInv, KeptInv, NEW p \in Callers, BuildAlert(p)
  PROVE  KeptInv'
<1> DEFINE j == <<call[p].made[1], call[p].date>>
<1>1. call[p] \in Call /\ call \in [Callers -> Call] /\ call[p].pc = "alert"
  BY DEF ShapeInv, TypeOK, BuildAlert
<1>2. /\ call'[p].pc \in {"rules", "reserve"}
      /\ call'[p].next = call[p].next /\ call'[p].latest = call[p].latest
      /\ call'[p].retrying = call[p].retrying /\ call'[p].date = call[p].date
      /\ call'[p].listed = call[p].listed
      /\ \A q \in Callers : q # p => call'[q] = call[q]
  BY <1>1 DEF BuildAlert, Call
<1>3. call'[p] \in Call
  BY BuildAlertShape DEF ShapeInv, TypeOK
<1>4. OnDate(p) /\ OnDate(p)' /\ Moved(call[p], call'[p])
  BY <1>1, <1>2, <1>3 DEF OnDate, Moved
<1>5. UNCHANGED <<cursor, since, state, created, occurrences>>
  BY DEF BuildAlert, ruleVars
<1>6. call[p].made \in Rules \X Amounts /\ occurrences[j] = call[p].made[2]
  BY <1>1 DEF ShapeInv, CallShape
<1>7. occurrences[j] # NoOccurrence
  BY <1>6
<1>8. failures' = failures \ {j}
  BY DEF BuildAlert
<1> HIDE DEF j
<1>9. \A k \in Keys : Held(k) => Held(k)'
  BY <1>5, <1>7, <1>8 DEF Held
<1> QED
  BY <1>2, <1>4, <1>5, <1>9, EvaluationKept

LEMMA ReserveKept ==
  ASSUME ShapeInv, KeptInv, NEW p \in Callers, Reserve(p)
  PROVE  KeptInv'
<1>1. call[p] \in Call /\ call \in [Callers -> Call] /\ call[p].pc = "reserve"
  BY DEF ShapeInv, TypeOK, Reserve
<1>2. /\ call'[p].pc = "rules"
      /\ call'[p].next = call[p].next /\ call'[p].latest = call[p].latest
      /\ call'[p].retrying = call[p].retrying /\ call'[p].date = call[p].date
      /\ call'[p].listed = call[p].listed
      /\ \A q \in Callers : q # p => call'[q] = call[q]
  BY <1>1 DEF Reserve, Call
<1>3. call'[p] \in Call
  BY ReserveShape DEF ShapeInv, TypeOK
<1>4. OnDate(p) /\ OnDate(p)' /\ Moved(call[p], call'[p])
  BY <1>1, <1>2, <1>3 DEF OnDate, Moved
<1>5. UNCHANGED <<cursor, since, state, created, occurrences, failures>>
  BY DEF Reserve, ruleVars
<1>6. \A k \in Keys : Held(k) => Held(k)'
  BY <1>5 DEF Held
<1> QED
  BY <1>2, <1>4, <1>5, <1>6, EvaluationKept

(* A new call takes on the dates up to the cursor, which are held.         *)
LEMMA BeginKept ==
  ASSUME ShapeInv, KeptInv, NEW p \in Writers, NEW past \in BOOLEAN, Begin(p, past),
         UNCHANGED <<cursor, since, state, created, occurrences>>,
         \A q \in Callers : q # p /\ Active(q) =>
           /\ call[q].latest >= LastDue(past) - 1
           /\ call[q].latest <= LastDue(past) + 1
           /\ call[q].next = NoDate => call[q].latest <= LastDue(past),
         ~past => \A q \in Callers : ~Active(q)
  PROVE  KeptInv'
<1>1. p \in Callers /\ p # "check"
  BY DEF Writers
<1>2. /\ \A q \in Callers : q # p => call'[q] = call[q]
      /\ call'[p].pc = "dates"
      /\ call'[p].latest = LastDue(past)
      /\ cursor # NoDate => call'[p].next = cursor + 1
      /\ cursor = NoDate => call'[p].next = IF past THEN today ELSE NoDate
  BY ZenonT(60), <1>1, BeginShape
<1>3. /\ today \in Dates /\ cursor \in 0..MaxDate \cup {NoDate}
      /\ LastDue(past) \in 0..MaxDate /\ (past => LastDue(past) = today)
  BY LastDueType DEF ShapeInv, TypeOK, LastDue
<1>4. \A k \in Keys : Owes(k)' <=> Owes(k)
  BY DEF Owes
<1>5. \A k \in Keys : Owes(k) /\ Held(k) => Held(k)'
  BY DEF Begin, Kept, Owes, Held, Enabled, Keys
<1>6. ASSUME NEW q \in Callers, q # p
      PROVE  /\ call'[q] = call[q] /\ (Active(q)' <=> Active(q))
             /\ (Replaying(q)' <=> Replaying(q)) /\ Upto(q)' = Upto(q)
  BY <1>2, <1>6 DEF Active, Replaying, OnDate, Upto
<1>7. ~Replaying(p)'
  BY <1>2 DEF Replaying, OnDate
<1>8. /\ cursor # NoDate => call'[p].next # NoDate /\ Upto(p)' = cursor
      /\ cursor = NoDate /\ past => call'[p].next # NoDate /\ Upto(p)' = call'[p].latest - 1
      /\ cursor = NoDate /\ ~past => call'[p].next = NoDate
  BY <1>2, <1>3, <1>7 DEF Upto
<1>9. DeductionsKept'
  <2> SUFFICES ASSUME NEW k \in Keys, PassedTo(k, cursor)' PROVE Held(k)'
    BY DEF DeductionsKept, Held, Remembered
  <2>1. Owes(k) /\ k[2] <= cursor /\ k[2] > since
    BY DEF PassedTo, Owes
  <2>2. Held(k)
    BY <2>1 DEF KeptInv, DeductionsKept, PassedTo, Owes, Held, Remembered
  <2> QED
    BY <1>5, <2>1, <2>2
<1>10. ReplayedKept'
  <2> SUFFICES ASSUME cursor # NoDate, NEW q \in Writers, Active(q)', NEW k \in Keys,
                      Owes(k)', k[2] > since, k[2] <= Upto(q)'
               PROVE  Held(k)'
    BY DEF ReplayedKept
  <2>1. CASE q = p
    <3>1. Owes(k) /\ k[2] <= cursor
      BY <1>4, <1>8, <2>1
    <3>2. Held(k)
      BY <3>1 DEF KeptInv, DeductionsKept, PassedTo, Owes, Held, Remembered
    <3> QED
      BY <1>5, <3>1, <3>2
  <2>2. CASE q # p
    BY <1>4, <1>5, <1>6, <2>2 DEF KeptInv, ReplayedKept, Writers
  <2> QED
    BY <2>1, <2>2
<1>11. EvaluatedKept'
  <2> SUFFICES ASSUME NEW q \in Callers, Replaying(q)', NEW k \in Keys, Owes(k)',
                      k[2] = call'[q].date, \A a \in Amounts : <<k[1], a>> \notin call'[q].listed
               PROVE  Held(k)'
    BY DEF EvaluatedKept
  <2>1. q # p
    BY <1>7
  <2> QED
    BY <1>4, <1>5, <1>6, <2>1 DEF KeptInv, EvaluatedKept
<1>12. FirstDate'
  BY <1>6, <1>8 DEF KeptInv, FirstDate, Writers
<1>13. Neighbours'
  <2> SUFFICES ASSUME NEW q \in Writers, NEW o \in Writers, q # o, Active(q)', Active(o)'
               PROVE  /\ call'[o].latest <= call'[q].latest + 1
                      /\ call'[q].next = NoDate => call'[q].latest <= call'[o].latest
    BY DEF Neighbours
  <2>0. q \in Callers /\ o \in Callers
    BY DEF Writers
  <2>1. CASE q = p
    <3>1. o # p /\ Active(o) /\ call'[o] = call[o]
      BY <1>6, <2>0, <2>1
    <3>2. call'[q].next # NoDate
      BY <1>8, <2>0, <2>1, <3>1
    <3>3. call[o].latest <= LastDue(past) + 1
      BY <2>0, <3>1
    <3> QED
      BY <1>2, <2>1, <3>1, <3>2, <3>3
  <2>2. CASE o = p
    <3>1. q # p /\ Active(q) /\ call'[q] = call[q]
      BY <1>6, <2>0, <2>2
    <3>2. /\ call[q].latest >= LastDue(past) - 1
          /\ call[q].next = NoDate => call[q].latest <= LastDue(past)
      BY <2>0, <3>1
    <3>3. call[q].latest \in Int
      BY <2>0, <3>1, UptoBounds
    <3> QED
      BY <1>2, <1>3, <2>2, <3>1, <3>2, <3>3
  <2>3. CASE q # p /\ o # p
    BY <1>6, <2>0, <2>3 DEF KeptInv, Neighbours
  <2> QED
    BY <2>1, <2>2, <2>3
<1> QED
  BY <1>9, <1>10, <1>11, <1>12, <1>13 DEF KeptInv

LEMMA StartKept == ASSUME ShapeInv, KeptInv, Start PROVE KeptInv'
<1>1. CASE "catchup" \in Callers
  <2>1. \A q \in Callers : ~Active(q)
    BY DEF Start, ShapeInv, CallShape, Active
  <2>2. late \in BOOLEAN /\ "catchup" \in Writers
    BY <1>1 DEF ShapeInv, TypeOK, Writers
  <2>3. Begin("catchup", late) /\ UNCHANGED <<cursor, since, state, created, occurrences>>
    BY <1>1 DEF Start, ruleVars
  <2> QED
    BY <2>1, <2>2, <2>3, BeginKept
<1>2. CASE "catchup" \notin Callers
  <2>1. UNCHANGED <<cursor, since, state, created, occurrences, failures, call>>
    BY <1>2 DEF Start, ruleVars
  <2>2. \A k \in Keys : (Owes(k)' <=> Owes(k)) /\ (Held(k)' <=> Held(k))
    BY <2>1 DEF Owes, Held
  <2> QED
    BY <2>1, <2>2, QuietStep
<1> QED
  BY <1>1, <1>2

LEMMA ReminderTimeKept == ASSUME ShapeInv, KeptInv, ReminderTime PROVE KeptInv'
<1>1. CASE up /\ "job" \in Callers /\ call["job"] = Idle
  <2>1. "job" \in Writers /\ Begin("job", TRUE) /\ LastDue(TRUE) = today
    BY <1>1 DEF ReminderTime, Writers, LastDue
  <2>2. UNCHANGED <<cursor, since, state, created, occurrences>>
    BY DEF ReminderTime, ruleVars
  <2>3. ASSUME NEW q \in Callers, Active(q)
        PROVE  /\ call[q].latest >= today - 1
               /\ call[q].latest <= today
               /\ call[q].latest \in Int /\ today \in Int
    <3>1. call[q] # Idle
      BY <2>3 DEF Active, Idle
    <3>2. call[q].latest >= today - 1
      BY <3>1 DEF ReminderTime
    <3>3. today \in Int
      BY DEF ShapeInv, TypeOK
    <3> QED
      BY <2>3, <3>2, <3>3, UptoBounds
  <2>4. ASSUME NEW q \in Callers, Active(q)
        PROVE  /\ call[q].latest >= LastDue(TRUE) - 1
               /\ call[q].latest <= LastDue(TRUE) + 1
               /\ call[q].latest <= LastDue(TRUE)
    <3> DEFINE l == call[q].latest
    <3>1. l >= today - 1 /\ l <= today /\ l \in Int /\ today \in Int
      BY <2>3, <2>4
    <3> HIDE DEF l
    <3>2. l >= today - 1 /\ l <= today + 1 /\ l <= today
      BY <3>1
    <3> QED
      BY <2>1, <3>2 DEF l
  <2> QED
    BY <2>1, <2>2, <2>4, BeginKept
<1>2. CASE ~(up /\ "job" \in Callers /\ call["job"] = Idle)
  <2>1. UNCHANGED <<cursor, since, state, created, occurrences, failures, call>>
    BY <1>2 DEF ReminderTime, ruleVars
  <2>2. \A k \in Keys : (Owes(k)' <=> Owes(k)) /\ (Held(k)' <=> Held(k))
    BY <2>1 DEF Owes, Held
  <2> QED
    BY <2>1, <2>2, QuietStep
<1> QED
  BY <1>1, <1>2

(* What becomes owed lies ahead. *)
LEMMA NewlyOwed ==
  ASSUME ShapeInv, CommandStep, NEW k \in Keys, Owes(k)'
  PROVE  k[2] > today \/ Owes(k)
<1>1. /\ state \in [Rules -> {"absent", "enabled", "removed"}]
      /\ created \in [Rules -> 0..MaxDate]
  BY DEF ShapeInv, TypeOK
<1>2. k[1] \in Rules
  BY DEF Keys
<1>3. CASE \E r \in Rules, a \in Amounts : AddRule(r, a)
  BY <1>1, <1>2, <1>3 DEF AddRule, Owes
<1>4. CASE \E r \in Rules, a \in Amounts : SetDcaAmount(r, a)
  BY <1>4 DEF SetDcaAmount, Owes
<1>5. CASE \E v \in Fees : SetFundFee(v)
  BY <1>5 DEF SetFundFee, Owes
<1>6. CASE \E r \in Rules : DeleteRule(r)
  BY <1>1, <1>2, <1>6 DEF DeleteRule, Owes
<1> QED
  BY <1>3, <1>4, <1>5, <1>6 DEF CommandStep

LEMMA CommandKept == ASSUME ShapeInv, KeptInv, CommandStep PROVE KeptInv'
<1>1. UNCHANGED <<today, cursor, since, occurrences, failures, call>>
  BY DEF CommandStep, AddRule, SetDcaAmount, SetFundFee, DeleteRule, outsideVars
<1>2. \A k \in Keys : Held(k)' <=> Held(k)
  BY <1>1 DEF Held
<1> QED
  BY <1>1, <1>2, NewlyOwed, QuietStep

(* Steps that change neither rules nor what is held. *)
LEMMA OtherKept ==
  ASSUME ShapeInv, KeptInv, UNCHANGED <<cursor, since, state, created, occurrences, failures>>,
         \A q \in Callers : call'[q] = call[q] \/ call'[q].pc = "idle"
  PROVE  KeptInv'
<1>1. \A k \in Keys : (Owes(k)' <=> Owes(k)) /\ (Held(k)' <=> Held(k))
  BY DEF Owes, Held
<1> QED
  BY <1>1, QuietStep

LEMMA StopKept == ASSUME ShapeInv, KeptInv, Stop PROVE KeptInv'
<1>1. \A q \in Callers : call'[q].pc = "idle"
  BY DEF Stop, Idle
<1> QED
  BY <1>1, OtherKept DEF Stop, dbVars, ruleVars

LEMMA AbortKept == ASSUME ShapeInv, KeptInv, NEW p \in Callers, Abort(p) PROVE KeptInv'
<1>1. \A q \in Callers : call'[q] = call[q] \/ call'[q].pc = "idle"
  BY DEF Abort, Idle, ShapeInv, TypeOK
<1> QED
  BY <1>1, OtherKept DEF Abort, dbVars, ruleVars

(* /check is not among those that write the cursor.                        *)
LEMMA CheckKept == ASSUME ShapeInv, KeptInv, StartCheck PROVE KeptInv'
<1>1. UNCHANGED <<cursor, since, state, created, occurrences, failures>>
  BY DEF StartCheck, dbVars, ruleVars
<1>2. \A q \in Writers : q \in Callers /\ call'[q] = call[q]
  BY DEF StartCheck, Writers, ShapeInv, TypeOK
<1>3. \A q \in Callers : Replaying(q)' => call'[q] = call[q] /\ Replaying(q)
  <2>1. ~Replaying("check")'
    BY DEF StartCheck, Replaying, OnDate, ShapeInv, TypeOK, Idle
  <2>2. \A q \in Callers : q # "check" => call'[q] = call[q]
    BY <1>2 DEF Writers
  <2> QED
    BY <2>1, <2>2 DEF Replaying, OnDate
<1>4. \A q \in Writers : (Active(q)' <=> Active(q)) /\ Upto(q)' = Upto(q)
  BY <1>2 DEF Active, Upto, Replaying, OnDate
<1>5. \A k \in Keys : (Owes(k)' <=> Owes(k)) /\ (Held(k)' <=> Held(k))
  BY <1>1 DEF Owes, Held
<1>6. DeductionsKept'
  BY <1>1 DEF KeptInv, DeductionsKept, PassedTo, Remembered
<1>7. ReplayedKept'
  BY <1>1, <1>4, <1>5 DEF KeptInv, ReplayedKept
<1>8. EvaluatedKept'
  BY <1>3, <1>5 DEF KeptInv, EvaluatedKept
<1>9. FirstDate'
  BY <1>1, <1>2, <1>4 DEF KeptInv, FirstDate
<1>10. Neighbours'
  BY <1>2, <1>4 DEF KeptInv, Neighbours
<1> QED
  BY <1>6, <1>7, <1>8, <1>9, <1>10 DEF KeptInv

(* Without a cursor, no other call is past the date a call writes. *)
LEMMA FirstWrite ==
  ASSUME ShapeInv, KeptInv, cursor = NoDate, NEW p \in Writers, Active(p),
         NEW q \in Writers, Active(q), q # p
  PROVE  -1 <= Upto(q) /\ Upto(q) <= call[p].latest
<1>1. call[q] \in Call /\ call[p] \in Call
  BY DEF ShapeInv, TypeOK, Writers
<1>2. call[q].latest \in Int /\ call[q].latest >= 0 /\ call[p].latest \in Int
  BY <1>1 DEF Call
<1>3. call[q].next = NoDate \/ Upto(q) = call[q].latest - 1
  BY DEF KeptInv, FirstDate
<1>4. /\ call[q].latest <= call[p].latest + 1
      /\ call[q].next = NoDate => call[q].latest <= call[p].latest
  BY DEF KeptInv, Neighbours
<1>5. call[q].next = NoDate => Upto(q) = call[q].latest
  BY DEF Upto
<1> QED
  BY <1>2, <1>3, <1>4, <1>5

(* A call that writes a date which it has handled, as the first one or not.*)
LEMMA WriteKept ==
  ASSUME ShapeInv, KeptInv, NEW p \in Writers, Active(p), NEW d \in 0..MaxDate,
         NEW before \in 0..MaxDate, WriteCursor(d, before),
         UNCHANGED <<state, created, occurrences, failures>>,
         \A q \in Callers : q # p => call'[q] = call[q],
         ~Replaying(p)',
         Active(p)' => /\ call'[p].latest = call[p].latest
                       /\ (call'[p].next = NoDate <=> call[p].next = NoDate)
                       /\ Upto(p)' = d,
         d - 1 <= Upto(p),
         \A k \in Keys : Owes(k) /\ k[2] = d /\ k[2] > before => Held(k),
         before >= d - 1,
         cursor # NoDate => \A k \in Keys : Owes(k) /\ k[2] = d /\ k[2] > since => Held(k),
         cursor = NoDate => d = call[p].latest /\ (call[p].next = NoDate => before = d)
  PROVE  KeptInv'
<1>1. cursor' = d /\ since' = IF cursor = NoDate THEN before ELSE since
  BY DEF WriteCursor
<1>2. /\ \A k \in Keys : k[2] \in Int
      /\ since \in Int /\ today \in Int /\ cursor' # NoDate /\ p \in Callers
      /\ Upto(p) \in Int
  BY <1>1, UptoBounds DEF ShapeInv, TypeOK, Keys, Writers
<1>3. \A k \in Keys : (Owes(k)' <=> Owes(k)) /\ (Held(k)' <=> Held(k))
  BY DEF Owes, Held
<1>4. ASSUME NEW k \in Keys, Owes(k), k[2] > since', k[2] <= d
      PROVE  Held(k)
  <2>1. CASE cursor = NoDate
    BY <1>1, <1>2, <1>4, <2>1
  <2>2. CASE cursor # NoDate /\ k[2] = d
    BY <1>1, <1>4, <2>2
  <2>3. CASE cursor # NoDate /\ k[2] # d
    <3>1. k[2] <= Upto(p) /\ k[2] > since
      BY <1>1, <1>2, <1>4, <2>3
    <3> QED
      BY <1>4, <2>3, <3>1 DEF KeptInv, ReplayedKept
  <2> QED
    BY <2>1, <2>2, <2>3
<1>5. DeductionsKept'
  <2> SUFFICES ASSUME NEW k \in Keys, PassedTo(k, cursor)' PROVE Held(k)'
    BY DEF DeductionsKept, Held, Remembered
  <2>1. Owes(k) /\ k[2] <= d /\ k[2] > since'
    BY <1>1 DEF PassedTo, Owes
  <2> QED
    BY <1>3, <1>4, <2>1
<1>6. ASSUME NEW q \in Callers, q # p
      PROVE  /\ call'[q] = call[q] /\ (Active(q)' <=> Active(q))
             /\ (Replaying(q)' <=> Replaying(q)) /\ Upto(q)' = Upto(q)
  BY <1>6 DEF Active, Replaying, OnDate, Upto
<1>7. ReplayedKept'
  <2> SUFFICES ASSUME NEW q \in Writers, Active(q)', NEW k \in Keys,
                      Owes(k)', k[2] > since', k[2] <= Upto(q)'
               PROVE  Held(k)'
    BY DEF ReplayedKept
  <2>1. CASE k[2] <= d
    BY <1>3, <1>4, <2>1
  <2>2. CASE q # p /\ k[2] > d
    <3>1. q \in Callers /\ Active(q) /\ k[2] <= Upto(q) /\ Owes(k)
      BY <1>3, <1>6, <2>2 DEF Writers
    <3>2. cursor # NoDate
      <4> SUFFICES ASSUME cursor = NoDate PROVE FALSE
        OBVIOUS
      <4>1. Upto(q) <= d
        BY <2>2, <3>1, FirstWrite
      <4>2. Upto(q) \in Int
        BY <3>1, UptoBounds
      <4> QED
        BY <1>2, <2>2, <3>1, <4>1, <4>2
    <3>3. k[2] > since
      BY <1>1, <3>2
    <3> QED
      BY <1>3, <3>1, <3>2, <3>3 DEF KeptInv, ReplayedKept
  <2>3. CASE q = p /\ k[2] > d
    BY <1>2, <2>3
  <2> QED
    BY <1>2, <2>1, <2>2, <2>3
<1>8. EvaluatedKept'
  <2> SUFFICES ASSUME NEW q \in Callers, Replaying(q)', NEW k \in Keys, Owes(k)',
                      k[2] = call'[q].date, \A a \in Amounts : <<k[1], a>> \notin call'[q].listed
               PROVE  Held(k)'
    BY DEF EvaluatedKept
  <2> QED
    BY <1>3, <1>6 DEF KeptInv, EvaluatedKept
<1>9. FirstDate'
  BY <1>2 DEF FirstDate
<1>10. ASSUME NEW q \in Writers, Active(q)'
      PROVE  /\ Active(q) /\ call'[q].latest = call[q].latest
             /\ (call'[q].next = NoDate <=> call[q].next = NoDate)
  BY <1>6, <1>10 DEF Writers
<1>11. Neighbours'
  BY <1>10 DEF KeptInv, Neighbours
<1> QED
  BY <1>5, <1>7, <1>8, <1>9, <1>11 DEF KeptInv

LEMMA EndDispatchKept ==
  ASSUME ShapeInv, KeptInv, NEW p \in Callers, EndDispatch(p)
  PROVE  KeptInv'
<1>1. Dispatching(p) /\ Active(p) /\ OnDate(p) /\ call[p] \in Call
  BY DispatchFacts DEF EndDispatch
<1>2. call \in [Callers -> Call]
  BY DEF ShapeInv, TypeOK
<1>3. /\ call'[p].pc = "dates"
      /\ call'[p].next = call[p].next /\ call'[p].latest = call[p].latest
      /\ \A q \in Callers : q # p => call'[q] = call[q]
  BY <1>1, <1>2 DEF EndDispatch, Call
<1>4. Active(p)' /\ ~Replaying(p)'
  BY <1>3 DEF Active, Replaying, OnDate
<1>5. UNCHANGED <<state, created, occurrences, failures>>
  BY DEF EndDispatch, ruleVars
<1>6. \A k \in Keys : Held(k)' <=> Held(k)
  BY <1>5 DEF Held
<1>7. CASE call[p].retrying \/ p = "check"
  <2>1. UNCHANGED <<cursor, since>>
    BY <1>7 DEF EndDispatch
  <2>2. p \in Writers => Upto(p)' = Upto(p)
    BY <1>3, <1>4, <1>7 DEF Writers, Upto, Replaying
  <2> QED
    BY <1>1, <1>3, <1>4, <1>5, <1>6, <2>1, <2>2, OwnStep
<1>8. CASE ~(call[p].retrying \/ p = "check")
  <2> DEFINE d == call[p].date
  <2>1. p \in Writers /\ Replaying(p)
    BY <1>1, <1>8 DEF Writers, Replaying
  <2>2. /\ d \in 0..MaxDate /\ d - 1 \in 0..MaxDate
        /\ d = call[p].next - 1 /\ call[p].next # NoDate /\ Upto(p) = d - 1
        /\ call[p].latest \in Int
    BY <1>1, <2>1, UptoBounds
  <2>3. WriteCursor(d, d - 1)
    BY <1>8 DEF EndDispatch, At
  <2>4. ASSUME NEW k \in Keys, Owes(k), k[2] = d PROVE Held(k)
    <3>1. call[p].listed = {}
      BY <1>1 DEF Dispatching
    <3> QED
      BY <2>1, <2>4, <3>1 DEF KeptInv, EvaluatedKept
  <2>5. Upto(p)' = d
    BY <1>3, <1>4, <2>2 DEF Upto
  <2>6. cursor = NoDate => d = call[p].latest
    <3>1. cursor = NoDate => Upto(p) = call[p].latest - 1
      BY <1>1, <2>1, <2>2 DEF KeptInv, FirstDate
    <3> HIDE DEF d
    <3> QED
      BY <2>2, <3>1
  <2> HIDE DEF d
  <2>7. d - 1 <= Upto(p) /\ d - 1 >= d - 1
    BY <2>2
  <2> QED
    BY <1>1, <1>3, <1>4, <1>5, <2>1, <2>2, <2>3, <2>4, <2>5, <2>6, <2>7, WriteKept
<1> QED
  BY <1>7, <1>8

LEMMA EndCallKept ==
  ASSUME ShapeInv, KeptInv, NEW p \in Callers, EndCall(p)
  PROVE  KeptInv'
<1>1. Active(p) /\ call[p] \in Call /\ call \in [Callers -> Call]
  BY DEF EndCall, ShapeInv, TypeOK, Active
<1>2. /\ \A q \in Callers : q # p => call'[q] = call[q]
      /\ call'[p].pc = "idle"
  BY <1>1 DEF EndCall, Idle
<1>3. UNCHANGED <<state, created, occurrences, failures>>
  BY DEF EndCall, ruleVars
<1>4. CASE call[p].next # NoDate
  <2>1. UNCHANGED <<cursor, since>>
    BY <1>4 DEF EndCall
  <2> QED
    BY <1>2, <1>3, <2>1, OtherKept
<1>5. CASE call[p].next = NoDate
  <2> DEFINE d == call[p].latest
  <2>1. p \in Writers
    BY <1>1, <1>5 DEF ShapeInv, CallShape, Writers
  <2>2. WriteCursor(d, d)
    BY <1>5 DEF EndCall
  <2>3. d \in 0..MaxDate /\ Upto(p) = d
    BY <1>1, <1>5 DEF Call, Upto
  <2>4. ~Active(p)' /\ ~Replaying(p)'
    BY <1>2 DEF Active, Replaying, OnDate
  <2>5. cursor # NoDate => \A k \in Keys : Owes(k) /\ k[2] = d /\ k[2] > since => Held(k)
    BY <1>1, <2>1, <2>3 DEF KeptInv, ReplayedKept
  <2>6. cursor = NoDate => d = call[p].latest
    OBVIOUS
  <2> HIDE DEF d
  <2>7. \A k \in Keys : Owes(k) /\ k[2] = d /\ k[2] > d => Held(k)
    BY <2>3
  <2>8. d - 1 <= Upto(p) /\ d >= d - 1
    BY <2>3
  <2> QED
    BY ZenonT(60), <1>1, <1>2, <1>3, <2>1, <2>2, <2>3, <2>4, <2>5, <2>6, <2>7, <2>8, WriteKept
<1> QED
  BY <1>4, <1>5

LEMMA KeptStep == ASSUME ShapeInv, KeptInv, [Next]_vars PROVE KeptInv'
<1>1. CASE UNCHANGED vars \/ NextDay \/ \E k \in Keys : DeliveryFails(k)
  <2>1. UNCHANGED <<cursor, since, state, created, occurrences, failures, call>>
    BY <1>1 DEF vars, dbVars, ruleVars, NextDay, DeliveryFails
  <2> QED
    BY <2>1, OtherKept
<1>2. CASE ReminderTime \/ Start \/ Stop \/ StartCheck \/ CommandStep
  BY <1>2, ReminderTimeKept, StartKept, StopKept, CheckKept, CommandKept
<1>3. CASE \E p \in Callers : Evaluate(p)
  BY <1>3, BeginRetryKept, BeginDateKept, EvaluateNotDueKept, CreateOccurrenceKept,
     EvaluationFailsKept, BuildAlertKept, ReserveKept DEF Evaluate
<1>4. CASE \E p \in Callers : EndDispatch(p) \/ Abort(p) \/ EndCall(p)
  BY <1>4, EndDispatchKept, AbortKept, EndCallKept
<1> QED
  BY <1>1, <1>2, <1>3, <1>4 DEF Next, CommandStep

(* However calls overlap, fail, or are cut off, and whatever is changed in *)
(* the rules: a due date the cursor has passed has its occurrence, or the  *)
(* failure that will be retried.                                           *)
THEOREM NoDeductionLost == Spec => []DeductionsKept
<1>1. KeptInv => DeductionsKept
  BY DEF KeptInv
<1> QED
  BY <1>1, InitShape, InitKept, ShapeStep, KeptStep, PTL DEF Spec

-----------------------------------------------------------------------------
(* The cursor passes only what is handled, and only a stop forgets it.     *)

(* A reminder is being made if some call is about to reserve it. *)
Reserving(p, k) == call[p].pc = "reserve" /\ k = <<call[p].made[1], call[p].date>>

LEMMA MakingIsReserving ==
  ASSUME NEW k
  PROVE  InTheMaking(k) <=> \E p \in Callers : Reserving(p, k)
  BY DEF InTheMaking, Evaluating, Dispatching, Reserving

LEMMA MakingIsReservingNext ==
  ASSUME NEW k
  PROVE  InTheMaking(k)' <=> \E p \in Callers : Reserving(p, k)'
  BY DEF InTheMaking, Evaluating, Dispatching, Reserving

(* Calls that are about to reserve a reminder. *)
ReservesKept == \A q \in Callers : call[q].pc = "reserve" => call'[q] = call[q]

(* What keeps a date handled. *)
LEMMA HandledKept ==
  ASSUME NEW k \in Keys, Handled(k), Reminded(k) => Reminded(k)',
         k \in failures => k \in failures' \/ Reminded(k)' \/ InTheMaking(k)',
         ReservesKept
  PROVE  Handled(k)'
<1>1. InTheMaking(k) => InTheMaking(k)'
  <2> SUFFICES ASSUME NEW p \in Callers, Reserving(p, k)
               PROVE  Reserving(p, k)'
    BY MakingIsReserving, MakingIsReservingNext
  <2> QED
    BY DEF ReservesKept, Reserving
<1> QED
  BY <1>1 DEF Handled, Remembered

LEMMA SameHandled ==
  ASSUME NEW k \in Keys, Handled(k), UNCHANGED <<events, failures>>, ReservesKept
  PROVE  Handled(k)'
  BY HandledKept DEF Reminded

LEMMA BeginHandled ==
  ASSUME ShapeInv, NEW p \in Callers, NEW past \in BOOLEAN, Begin(p, past), ~Active(p),
         UNCHANGED <<events, state>>, NEW k \in Keys, Owes(k)', Handled(k)
  PROVE  Handled(k)'
<1>1. ReservesKept
  BY DEF Begin, Active, ReservesKept, ShapeInv, TypeOK
<1>2. k[1] \in Enabled
  BY DEF Owes, Enabled, Keys
<1>3. k \in failures => k \in failures'
  BY <1>2 DEF Begin, Kept
<1> QED
  BY <1>1, <1>3, HandledKept DEF Reminded

(* A step of a call that is not about to reserve. *)
LEMMA OneReservesKept ==
  ASSUME ShapeInv, NEW p \in Callers, call[p].pc # "reserve",
         \A q \in Callers : q # p => call'[q] = call[q]
  PROVE  ReservesKept
  BY DEF ReservesKept

(* Steps that touch neither reminders nor failures. *)
LEMMA BystanderHandled ==
  ASSUME ShapeInv, NEW k \in Keys, Handled(k),
         \/ NextDay
         \/ CommandStep
         \/ StartCheck
         \/ \E p \in Callers, j \in Keys : BeginRetry(p, j)
         \/ \E p \in Callers : BeginDate(p)
         \/ \E p \in Callers, r \in Rules, a \in Amounts : CreateOccurrence(p, r, a)
         \/ \E p \in Callers : EndDispatch(p) \/ Abort(p) \/ EndCall(p)
  PROVE  Handled(k)'
<1>1. call \in [Callers -> Call]
  BY DEF ShapeInv, TypeOK
<1>2. UNCHANGED <<events, failures>>
  BY ZenonT(60)
     DEF NextDay, CommandStep, AddRule, SetDcaAmount, SetFundFee, DeleteRule, StartCheck,
         BeginRetry, BeginDate, CreateOccurrence, EndDispatch, Abort, EndCall, dbVars
<1>3. CASE call' = call
  BY <1>2, <1>3, SameHandled DEF ReservesKept
<1>4. CASE NextDay \/ CommandStep
  BY <1>3, <1>4 DEF NextDay, CommandStep, AddRule, SetDcaAmount, SetFundFee, DeleteRule
<1>5. CASE StartCheck
  <2>1. /\ "check" \in Callers /\ call["check"].pc # "reserve"
        /\ \A q \in Callers : q # "check" => call'[q] = call[q]
    BY <1>1, <1>5 DEF StartCheck, Change, HandlerFree
  <2> QED
    BY <1>2, <2>1, OneReservesKept, SameHandled
<1>6. ASSUME NEW p \in Callers,
             \/ (\E j \in Keys : BeginRetry(p, j)) \/ BeginDate(p)
             \/ \E r \in Rules, a \in Amounts : CreateOccurrence(p, r, a)
             \/ EndDispatch(p) \/ Abort(p) \/ EndCall(p)
      PROVE  Handled(k)'
  <2>1. call[p].pc # "reserve"
    BY <1>6 DEF BeginRetry, BeginDate, CreateOccurrence, EndDispatch, Abort, EndCall,
                Dispatching
  <2>2. \A q \in Callers : q # p => call'[q] = call[q]
    BY ZenonT(60), <1>1, <1>6
       DEF BeginRetry, BeginDate, CreateOccurrence, EndDispatch, Abort, EndCall
  <2> QED
    BY <1>2, <2>1, <2>2, OneReservesKept, SameHandled
<1> QED
  BY <1>4, <1>5, <1>6

LEMMA EvaluateNotDueHandled ==
  ASSUME ShapeInv, NEW p \in Callers, NEW r \in Rules, NEW a \in Amounts,
         EvaluateNotDue(p, r, a), NEW k \in Keys, Owes(k), Handled(k)
  PROVE  Handled(k)'
<1>1. OnDate(p) /\ call[p].pc # "reserve" /\ events' = events
  BY DEF EvaluateNotDue, OnDate
<1>2. \A q \in Callers : q # p => call'[q] = call[q]
  BY DEF EvaluateNotDue, ShapeInv, TypeOK
<1>3. call[p].date \in Dates /\ created \in [Rules -> 0..MaxDate]
  BY <1>1 DEF ShapeInv, CallShape, TypeOK
<1>4. k # <<r, call[p].date>>
  BY <1>3 DEF EvaluateNotDue, Owes, IsDue
<1>5. k \in failures => k \in failures'
  BY <1>4 DEF EvaluateNotDue
<1> QED
  BY <1>1, <1>2, <1>5, OneReservesKept, HandledKept DEF Reminded

LEMMA EvaluationFailsHandled ==
  ASSUME ShapeInv, NEW p \in Callers, NEW r \in Rules, NEW a \in Amounts,
         EvaluationFails(p, r, a), NEW k \in Keys, Handled(k)
  PROVE  Handled(k)'
<1>1. call[p].pc # "reserve" /\ events' = events
  BY DEF EvaluationFails
<1>2. \A q \in Callers : q # p => call'[q] = call[q]
  BY DEF EvaluationFails, ShapeInv, TypeOK
<1>3. k \in failures => k \in failures'
  BY DEF EvaluationFails, Failed
<1> QED
  BY <1>1, <1>2, <1>3, OneReservesKept, HandledKept DEF Reminded

(* What a call makes a reminder of. *)
Made(p) == <<call[p].made[1], call[p].date>>

LEMMA AlertIsReminder ==
  ASSUME NEW k, AlertExists(k)
  PROVE  Reminded(k)
  BY DEF AlertExists, Reminded, NoEvent

(* The failure row is cleared for a reminder that is there, or is made. *)
LEMMA BuildAlertMakes ==
  ASSUME ShapeInv, NEW p \in Callers, BuildAlert(p), NEW k, k = Made(p)
  PROVE  Reminded(k)' \/ InTheMaking(k)'
<1>1. call[p] \in Call /\ call \in [Callers -> Call] /\ call[p].pc = "alert"
  BY DEF ShapeInv, TypeOK, BuildAlert
<1>2. CASE AlertExists(k)
  <2>1. events[k] # NoEvent
    BY <1>2, AlertIsReminder DEF Reminded
  <2>2. events' = events
    BY DEF BuildAlert
  <2> QED
    BY <2>1, <2>2 DEF Reminded
<1>3. CASE ~AlertExists(k)
  <2>1. call' = [call EXCEPT ![p].pc = "reserve"]
    BY <1>3 DEF BuildAlert, Made
  <2>2. call'[p].pc = "reserve" /\ call'[p].made = call[p].made /\ call'[p].date = call[p].date
    BY <1>1, <2>1 DEF Call
  <2>3. Reserving(p, k)'
    BY <2>2 DEF Reserving, Made
  <2> QED
    BY <2>3, MakingIsReservingNext
<1> QED
  BY <1>2, <1>3

LEMMA BuildAlertHandled ==
  ASSUME ShapeInv, NEW p \in Callers, BuildAlert(p), NEW k \in Keys, Handled(k)
  PROVE  Handled(k)'
<1>1. call[p].pc # "reserve" /\ events' = events /\ failures' = failures \ {Made(p)}
  BY DEF BuildAlert, Made
<1>2. \A q \in Callers : q # p => call'[q] = call[q]
  BY DEF BuildAlert, ShapeInv, TypeOK
<1>3. k \in failures => k \in failures' \/ Reminded(k)' \/ InTheMaking(k)'
  BY <1>1, BuildAlertMakes
<1> QED
  BY <1>1, <1>2, <1>3, OneReservesKept, HandledKept DEF Reminded

(* Reserving turns what was being made into a reminder. *)
LEMMA ReserveReminds ==
  ASSUME ShapeInv, NEW p \in Callers, Reserve(p), NEW k \in Keys
  PROVE  /\ k = Made(p) => Reminded(k)'
         /\ Reminded(k) => Reminded(k)'
<1>1. events \in [Keys -> Event \cup {NoEvent}]
  BY DEF ShapeInv, TypeOK
<1>2. CASE AlertExists(Made(p))
  <2>1. events' = events
    BY <1>2 DEF Reserve, Made
  <2> QED
    BY <1>2, <2>1, AlertIsReminder DEF Reminded
<1>3. CASE ~AlertExists(Made(p))
  <2> DEFINE e == [status |-> "reserved", amount |-> call[p].made[2]]
  <2>1. events' = [events EXCEPT ![Made(p)] = e]
    BY <1>3 DEF Reserve, Made
  <2>2. e # NoEvent
    BY DEF NoEvent
  <2> HIDE DEF e
  <2> QED
    BY <1>1, <2>1, <2>2 DEF Reminded
<1> QED
  BY <1>2, <1>3

LEMMA ReserveHandled ==
  ASSUME ShapeInv, NEW p \in Callers, Reserve(p), NEW k \in Keys, Handled(k)
  PROVE  Handled(k)'
<1>1. \A q \in Callers : q # p => call'[q] = call[q]
  BY DEF Reserve, ShapeInv, TypeOK
<1>2. CASE Reminded(k)
  BY <1>2, ReserveReminds DEF Handled
<1>3. CASE Remembered(k)
  BY <1>3 DEF Handled, Remembered, Reserve
<1>4. ASSUME NEW q \in Callers, Reserving(q, k)
      PROVE  Handled(k)'
  <2>1. CASE q = p
    BY <1>4, <2>1, ReserveReminds DEF Handled, Reserving, Made
  <2>2. CASE q # p
    <3>1. Reserving(q, k)'
      BY <1>1, <1>4, <2>2 DEF Reserving
    <3> QED
      BY <3>1, MakingIsReservingNext DEF Handled
  <2> QED
    BY <2>1, <2>2
<1> QED
  BY <1>2, <1>3, <1>4, MakingIsReserving DEF Handled

(* A failed delivery leaves the event. *)
LEMMA DeliveryFailsHandled ==
  ASSUME ShapeInv, NEW j \in Keys, DeliveryFails(j), NEW k \in Keys, Handled(k)
  PROVE  Handled(k)'
<1> DEFINE e == [events[j] EXCEPT !.status = "failed"]
<1>1. events \in [Keys -> Event \cup {NoEvent}]
  BY DEF ShapeInv, TypeOK
<1>2. events[j] \in Event
  BY <1>1 DEF DeliveryFails, NoEvent
<1>3. e # NoEvent
  BY <1>2 DEF Event, NoEvent
<1>4. events' = [events EXCEPT ![j] = e] /\ UNCHANGED <<failures, call>>
  BY DEF DeliveryFails
<1> HIDE DEF e
<1>5. Reminded(k) => Reminded(k)'
  BY <1>1, <1>3, <1>4 DEF Reminded
<1> QED
  BY <1>4, <1>5, HandledKept DEF ReservesKept

(* What is owed and handled remains so, unless the process stops.          *)
LEMMA HandledStays ==
  ASSUME ShapeInv, [Next]_vars, ~Stop, NEW k \in Keys, Owes(k)', Handled(k)
  PROVE  Handled(k)'
<1>1. CASE UNCHANGED vars
  BY <1>1, SameHandled DEF vars, dbVars, ReservesKept
<1>2. CASE Start
  <2>1. CASE "catchup" \in Callers
    <3>1. Begin("catchup", late) /\ UNCHANGED <<events, state>>
      BY <1>2, <2>1 DEF Start, ruleVars
    <3>2. ~Active("catchup") /\ late \in BOOLEAN
      BY <1>2, <2>1 DEF Start, ShapeInv, CallShape, TypeOK, Active
    <3> QED
      BY <2>1, <3>1, <3>2, BeginHandled
  <2>2. CASE "catchup" \notin Callers
    BY <1>2, <2>2, SameHandled DEF Start, ReservesKept
  <2> QED
    BY <2>1, <2>2
<1>3. CASE ReminderTime
  <2>1. CASE up /\ "job" \in Callers /\ call["job"] = Idle
    <3>1. Begin("job", TRUE) /\ UNCHANGED <<events, state>>
      BY <1>3, <2>1 DEF ReminderTime, ruleVars
    <3>2. ~Active("job")
      BY <2>1 DEF Active, Idle
    <3> QED
      BY <2>1, <3>1, <3>2, BeginHandled
  <2>2. CASE ~(up /\ "job" \in Callers /\ call["job"] = Idle)
    BY <1>3, <2>2, SameHandled DEF ReminderTime, ReservesKept
  <2> QED
    BY <2>1, <2>2
<1>4. ASSUME NEW p \in Callers, Evaluate(p)
      PROVE  Handled(k)'
  <2>1. ASSUME NEW r \in Rules, NEW a \in Amounts, EvaluateNotDue(p, r, a)
        PROVE  Handled(k)'
    <3>1. Owes(k)
      BY <2>1 DEF EvaluateNotDue, ruleVars, Owes
    <3> QED
      BY <2>1, <3>1, EvaluateNotDueHandled
  <2> QED
    BY <1>4, <2>1, BystanderHandled, EvaluationFailsHandled, BuildAlertHandled, ReserveHandled
       DEF Evaluate
<1>5. CASE NextDay \/ CommandStep \/ StartCheck
           \/ \E p \in Callers : EndDispatch(p) \/ Abort(p) \/ EndCall(p)
  BY <1>5, BystanderHandled
<1> QED
  BY <1>1, <1>2, <1>3, <1>4, <1>5, DeliveryFailsHandled DEF Next, CommandStep

(* Of the dates after c, those up to d are handled. *)
HandledFrom(c, d) ==
  \A k \in Keys : Owes(k) /\ k[2] > since /\ k[2] > c /\ k[2] <= d => Handled(k)

(* The dates after c that the cursor is past, and that a call is past, are *)
(* handled: c is where the cursor stood when the process last stopped.     *)
HandledAfter(c) ==
  /\ crashes = 0 => c = -1
  /\ cursor = NoDate => c = -1
  /\ cursor # NoDate =>
       /\ c <= cursor
       /\ HandledFrom(c, cursor)
       /\ \A p \in Writers : Active(p) => c <= Upto(p) /\ HandledFrom(c, Upto(p))

(* Of the date under evaluation, what is neither listed any more nor just  *)
(* given its occurrence.                                                   *)
EvaluatedHandled(p) ==
  \A k \in Keys :
    /\ Owes(k)
    /\ k[2] = call[p].date
    /\ \A a \in Amounts : <<k[1], a>> \notin call[p].listed
    /\ ~(call[p].pc = "alert" /\ k = Made(p))
    => Handled(k)

HandledInv ==
  /\ \E c \in Int : HandledAfter(c)
  /\ \A p \in Callers : Replaying(p) => EvaluatedHandled(p)

LEMMA InitHandled == Init => HandledInv
<1> SUFFICES ASSUME Init PROVE HandledInv
  OBVIOUS
<1>1. \A p \in Callers : ~Replaying(p)
  BY DEF Init, Replaying, OnDate, Idle
<1>2. HandledAfter(-1)
  BY DEF Init, HandledAfter
<1>3. -1 \in Int
  OBVIOUS
<1> QED
  BY <1>1, <1>2, <1>3 DEF HandledInv

LEMMA SameCall ==
  ASSUME NEW q \in Callers, call'[q] = call[q]
  PROVE  /\ Active(q)' <=> Active(q)
         /\ Replaying(q)' <=> Replaying(q)
         /\ Upto(q)' = Upto(q)
  BY DEF Active, Replaying, OnDate, Upto

(* A step that does not write the cursor: no call comes further than it    *)
(* was, or than the cursor.                                                *)
LEMMA HandledOn ==
  ASSUME ShapeInv, HandledInv, UNCHANGED <<cursor, since>>, crashes' = 0 => crashes = 0,
         \A k \in Keys :
           Owes(k)' => k[2] > today \/ (Owes(k) /\ (Handled(k) => Handled(k)')),
         \A q \in Writers : Active(q)' /\ cursor # NoDate =>
           Upto(q)' = cursor \/ (Active(q) /\ Upto(q)' = Upto(q)),
         \A q \in Callers : Replaying(q)' =>
           (call'[q] = call[q] /\ Replaying(q)) \/ EvaluatedHandled(q)'
  PROVE  HandledInv'
<1>1. PICK c \in Int : HandledAfter(c)
  BY DEF HandledInv
<1>2. /\ today \in Int /\ cursor \in Int /\ cursor <= today /\ c \in Int
      /\ \A k \in Keys : k[2] \in Int
  BY DEF ShapeInv, TypeOK, CallShape, Keys
<1>3. ASSUME NEW d, d <= today, d \in Int, HandledFrom(c, d),
             NEW k \in Keys, Owes(k)', k[2] > since, k[2] > c, k[2] <= d
      PROVE  Handled(k)'
  <2>1. k[2] <= today
    BY <1>2, <1>3
  <2>2. Owes(k) /\ (Handled(k) => Handled(k)')
    BY <1>2, <1>3, <2>1
  <2> QED
    BY <1>3, <2>2 DEF HandledFrom
<1>4. cursor # NoDate => c <= cursor /\ HandledFrom(c, cursor)'
  BY <1>1, <1>2, <1>3 DEF HandledAfter, HandledFrom
<1>5. ASSUME cursor # NoDate, NEW q \in Writers, Active(q)'
      PROVE  c <= Upto(q)' /\ HandledFrom(c, Upto(q))'
  <2>1. CASE Upto(q)' = cursor
    BY <1>4, <1>5, <2>1 DEF HandledFrom
  <2>2. CASE Active(q) /\ Upto(q)' = Upto(q)
    <3>1. c <= Upto(q) /\ HandledFrom(c, Upto(q))
      BY <1>1, <1>5, <2>2 DEF HandledAfter
    <3>2. Upto(q) \in Int /\ Upto(q) <= today
      BY <2>2, UptoBounds DEF Writers
    <3> QED
      BY <1>3, <2>2, <3>1, <3>2 DEF HandledFrom
  <2> QED
    BY <1>5, <2>1, <2>2
<1>6. HandledAfter(c)'
  BY <1>1, <1>4, <1>5 DEF HandledAfter
<1>7. ASSUME NEW q \in Callers, Replaying(q)', call'[q] = call[q], Replaying(q)
      PROVE  EvaluatedHandled(q)'
  <2>1. Active(q) /\ EvaluatedHandled(q) /\ Made(q)' = Made(q)
    BY <1>7 DEF HandledInv, Active, Replaying, OnDate, Made
  <2>2. call[q].date <= today
    BY <1>7, <2>1, UptoBounds
  <2> SUFFICES ASSUME NEW k \in Keys, Owes(k)', k[2] = call[q].date,
                      \A a \in Amounts : <<k[1], a>> \notin call[q].listed,
                      ~(call[q].pc = "alert" /\ k = Made(q))
               PROVE  Handled(k)'
    BY <1>7, <2>1 DEF EvaluatedHandled
  <2>3. Owes(k) /\ (Handled(k) => Handled(k)')
    BY <1>2, <2>2
  <2> QED
    BY <2>1, <2>3 DEF EvaluatedHandled
<1> QED
  BY <1>6, <1>7 DEF HandledInv

(* A step of the user, or of the clock. *)
LEMMA OutsideHandled ==
  ASSUME ShapeInv, HandledInv, [Next]_vars, UNCHANGED <<cursor, since, call, crashes>>,
         \A k \in Keys : Owes(k)' => k[2] > today \/ Owes(k)
  PROVE  HandledInv'
<1>1. ~Stop
  BY DEF Stop, ShapeInv, TypeOK
<1>2. \A k \in Keys : Owes(k)' => k[2] > today \/ (Owes(k) /\ (Handled(k) => Handled(k)'))
  BY <1>1, HandledStays
<1>3. \A q \in Writers : Active(q)' => Active(q) /\ Upto(q)' = Upto(q)
  BY SameCall DEF Writers
<1>4. \A q \in Callers : Replaying(q)' => call'[q] = call[q] /\ Replaying(q)
  BY SameCall
<1> QED
  BY <1>2, <1>3, <1>4, HandledOn

LEMMA CommandHandled ==
  ASSUME ShapeInv, HandledInv, [Next]_vars,
         CommandStep \/ NextDay \/ UNCHANGED vars \/ \E k \in Keys : DeliveryFails(k)
  PROVE  HandledInv'
<1>1. UNCHANGED <<cursor, since, call, crashes>>
  BY DEF CommandStep, AddRule, SetDcaAmount, SetFundFee, DeleteRule, NextDay, DeliveryFails,
         vars, dbVars, bounds
<1>2. \A k \in Keys : Owes(k)' => k[2] > today \/ Owes(k)
  <2>1. CASE CommandStep
    BY <2>1, NewlyOwed
  <2>2. CASE NextDay \/ UNCHANGED vars \/ \E k \in Keys : DeliveryFails(k)
    BY <2>2 DEF NextDay, DeliveryFails, vars, dbVars, ruleVars, Owes
  <2> QED
    BY <2>1, <2>2
<1> QED
  BY <1>1, <1>2, OutsideHandled

(* A step of calls that changes no rule and does not write the cursor. *)
LEMMA CallHandled ==
  ASSUME ShapeInv, HandledInv, [Next]_vars, ~Stop, crashes' = 0 => crashes = 0,
         UNCHANGED <<cursor, since, state, created>>,
         NEW p \in Callers, \A q \in Callers : q # p => call'[q] = call[q],
         p \in Writers /\ Active(p)' /\ cursor # NoDate =>
           Upto(p)' = cursor \/ (Active(p) /\ Upto(p)' = Upto(p)),
         Replaying(p)' => EvaluatedHandled(p)'
  PROVE  HandledInv'
<1>1. \A k \in Keys : Owes(k)' => Owes(k) /\ (Handled(k) => Handled(k)')
  BY HandledStays DEF Owes
<1>2. \A q \in Writers : Active(q)' /\ cursor # NoDate =>
        Upto(q)' = cursor \/ (Active(q) /\ Upto(q)' = Upto(q))
  BY SameCall DEF Writers
<1>3. \A q \in Callers : Replaying(q)' =>
        (call'[q] = call[q] /\ Replaying(q)) \/ EvaluatedHandled(q)'
  BY SameCall
<1> QED
  BY <1>1, <1>2, <1>3, HandledOn

LEMMA BeginHandledInv ==
  ASSUME ShapeInv, HandledInv, [Next]_vars, ~Stop, NEW p \in Writers, NEW past \in BOOLEAN,
         Begin(p, past), UNCHANGED <<cursor, since, state, created, crashes>>
  PROVE  HandledInv'
<1>1. p \in Callers /\ p # "check"
  BY DEF Writers
<1>2. /\ \A q \in Callers : q # p => call'[q] = call[q]
      /\ call'[p].pc = "dates"
      /\ cursor # NoDate => call'[p].next = cursor + 1
  BY ZenonT(60), <1>1, BeginShape
<1>3. ~Replaying(p)'
  BY <1>2 DEF Replaying, OnDate
<1>4. cursor # NoDate => Upto(p)' = cursor
  BY <1>2, <1>3 DEF Upto, ShapeInv, TypeOK
<1> QED
  BY <1>1, <1>2, <1>3, <1>4, CallHandled

LEMMA StartHandled == ASSUME ShapeInv, HandledInv, [Next]_vars, Start PROVE HandledInv'
<1>1. ~Stop /\ UNCHANGED <<cursor, since, state, created, crashes>>
  BY DEF Start, Stop, ruleVars, bounds
<1>2. CASE "catchup" \in Callers
  <2>1. Begin("catchup", late) /\ late \in BOOLEAN /\ "catchup" \in Writers
    BY <1>2 DEF Start, ShapeInv, TypeOK, Writers
  <2> QED
    BY <1>1, <2>1, BeginHandledInv
<1>3. CASE "catchup" \notin Callers
  <2>1. UNCHANGED call
    BY <1>3 DEF Start
  <2>2. \A k \in Keys : Owes(k)' => Owes(k)
    BY <1>1 DEF Owes
  <2> QED
    BY <1>1, <2>1, <2>2, OutsideHandled
<1> QED
  BY <1>2, <1>3

LEMMA ReminderTimeHandled ==
  ASSUME ShapeInv, HandledInv, [Next]_vars, ReminderTime
  PROVE  HandledInv'
<1>1. ~Stop /\ UNCHANGED <<cursor, since, state, created, crashes>>
  BY DEF ReminderTime, Stop, ruleVars, bounds, ShapeInv, TypeOK
<1>2. CASE up /\ "job" \in Callers /\ call["job"] = Idle
  <2>1. Begin("job", TRUE) /\ "job" \in Writers
    BY <1>2 DEF ReminderTime, Writers
  <2> QED
    BY <1>1, <2>1, BeginHandledInv
<1>3. CASE ~(up /\ "job" \in Callers /\ call["job"] = Idle)
  <2>1. UNCHANGED call
    BY <1>3 DEF ReminderTime
  <2>2. \A k \in Keys : Owes(k)' => Owes(k)
    BY <1>1 DEF Owes
  <2> QED
    BY <1>1, <2>1, <2>2, OutsideHandled
<1> QED
  BY <1>2, <1>3

LEMMA CheckHandled == ASSUME ShapeInv, HandledInv, [Next]_vars, StartCheck PROVE HandledInv'
<1>1. /\ ~Stop /\ UNCHANGED <<cursor, since, state, created, crashes>>
      /\ "check" \in Callers /\ "check" \notin Writers
  BY DEF StartCheck, Change, HandlerFree, Stop, dbVars, ruleVars, Writers
<1>2. /\ \A q \in Callers : q # "check" => call'[q] = call[q]
      /\ ~Replaying("check")'
  BY DEF StartCheck, Replaying, OnDate, ShapeInv, TypeOK, Idle
<1> QED
  BY <1>1, <1>2, CallHandled

LEMMA BeginRetryHandled ==
  ASSUME ShapeInv, HandledInv, [Next]_vars, NEW p \in Callers, NEW j \in Keys, BeginRetry(p, j)
  PROVE  HandledInv'
<1>1. call[p] \in Call /\ call \in [Callers -> Call] /\ call[p].pc = "dates"
  BY DEF ShapeInv, TypeOK, BeginRetry
<1>2. /\ call'[p].pc = "rules" /\ call'[p].retrying /\ call'[p].next = call[p].next
      /\ call'[p].latest = call[p].latest
      /\ \A q \in Callers : q # p => call'[q] = call[q]
  BY <1>1 DEF BeginRetry, Call
<1>3. ~Stop /\ UNCHANGED <<cursor, since, state, created, crashes>>
  BY DEF BeginRetry, Stop, dbVars, ruleVars, bounds
<1>4. Active(p) /\ ~Replaying(p) /\ ~Replaying(p)'
  BY <1>1, <1>2 DEF Active, Replaying, OnDate
<1>5. Upto(p)' = Upto(p)
  BY <1>2, <1>4 DEF Upto
<1> QED
  BY <1>2, <1>3, <1>4, <1>5, CallHandled

(* Every rule that owes the date is listed. *)
LEMMA BeginDateHandled ==
  ASSUME ShapeInv, HandledInv, [Next]_vars, NEW p \in Callers, BeginDate(p)
  PROVE  HandledInv'
<1>1. call[p] \in Call /\ call \in [Callers -> Call] /\ call[p].pc = "dates"
  BY DEF ShapeInv, TypeOK, BeginDate
<1>2. /\ call'[p].pc = "rules" /\ ~call'[p].retrying
      /\ call'[p].next = call[p].next + 1 /\ call'[p].latest = call[p].latest
      /\ call'[p].listed = {<<r, amount[r]>> : r \in Enabled}
      /\ \A q \in Callers : q # p => call'[q] = call[q]
  BY <1>1 DEF BeginDate, Call
<1>3. ~Stop /\ UNCHANGED <<cursor, since, state, created, crashes>>
  BY DEF BeginDate, Stop, dbVars, ruleVars, bounds
<1>4. Active(p) /\ ~Replaying(p) /\ Replaying(p)'
  BY <1>1, <1>2 DEF Active, Replaying, OnDate
<1>5. call[p].next \in Int /\ call[p].next # NoDate /\ call[p].next # -2
  BY <1>1 DEF BeginDate, Call
<1>6. Upto(p)' = Upto(p)
  BY <1>2, <1>4, <1>5 DEF Upto
<1>7. EvaluatedHandled(p)'
  <2> SUFFICES ASSUME NEW j \in Keys, Owes(j)', \A a \in Amounts : <<j[1], a>> \notin call'[p].listed
               PROVE  FALSE
    BY DEF EvaluatedHandled
  <2>1. j[1] \in Enabled /\ amount[j[1]] \in Amounts
    BY <1>3 DEF Owes, Enabled, Keys, ShapeInv, TypeOK
  <2>2. <<j[1], amount[j[1]]>> \in call'[p].listed
    BY <1>2, <2>1
  <2> QED
    BY <2>1, <2>2
<1> QED
  BY <1>2, <1>3, <1>4, <1>6, <1>7, CallHandled

(* Within an evaluation: what leaves the list, or the making of an alert,  *)
(* must be handled.                                                        *)
LEMMA EvaluationHandled ==
  ASSUME ShapeInv, HandledInv, [Next]_vars, ~Stop, NEW p \in Callers, OnDate(p), OnDate(p)',
         Moved(call[p], call'[p]), \A q \in Callers : q # p => call'[q] = call[q],
         UNCHANGED <<cursor, since, state, created, crashes>>,
         \A k \in Keys :
           /\ Owes(k) /\ k[2] = call[p].date
           /\ \/ \E a \in Amounts : <<k[1], a>> \in call[p].listed
              \/ call[p].pc = "alert" /\ k = Made(p)
           /\ \A a \in Amounts : <<k[1], a>> \notin call'[p].listed
           /\ ~(call'[p].pc = "alert" /\ k = Made(p)')
           => Handled(k)'
  PROVE  HandledInv'
<1>1. Active(p)
  BY DEF OnDate, Active
<1>2. /\ call'[p].next = call[p].next /\ call'[p].latest = call[p].latest
      /\ call'[p].retrying = call[p].retrying /\ call'[p].date = call[p].date
  BY DEF Moved
<1>3. Replaying(p)' <=> Replaying(p)
  BY <1>2 DEF Replaying
<1>4. Upto(p)' = Upto(p)
  BY <1>2, <1>3 DEF Upto
<1>5. ASSUME Replaying(p)'
      PROVE  EvaluatedHandled(p)'
  <2> SUFFICES ASSUME NEW k \in Keys, Owes(k)', k[2] = call'[p].date,
                      \A a \in Amounts : <<k[1], a>> \notin call'[p].listed,
                      ~(call'[p].pc = "alert" /\ k = Made(p)')
               PROVE  Handled(k)'
    BY DEF EvaluatedHandled
  <2>1. Owes(k) /\ k[2] = call[p].date
    BY <1>2 DEF Owes
  <2>2. CASE \/ \E a \in Amounts : <<k[1], a>> \in call[p].listed
             \/ call[p].pc = "alert" /\ k = Made(p)
    BY <2>1, <2>2
  <2>3. CASE /\ \A a \in Amounts : <<k[1], a>> \notin call[p].listed
             /\ ~(call[p].pc = "alert" /\ k = Made(p))
    <3>1. EvaluatedHandled(p)
      BY <1>3, <1>5 DEF HandledInv
    <3>2. Handled(k)
      BY <2>1, <2>3, <3>1 DEF EvaluatedHandled
    <3> QED
      BY <3>2, HandledStays
  <2> QED
    BY <2>2, <2>3
<1> QED
  BY <1>1, <1>4, <1>5, CallHandled

LEMMA EvaluateNotDueHandledInv ==
  ASSUME ShapeInv, HandledInv, [Next]_vars, NEW p \in Callers, NEW r \in Rules,
         NEW a \in Amounts, EvaluateNotDue(p, r, a)
  PROVE  HandledInv'
<1>1. call[p] \in Call /\ call \in [Callers -> Call] /\ call[p].pc = "rules"
  BY DEF ShapeInv, TypeOK, EvaluateNotDue
<1>2. /\ call'[p].pc = "rules" /\ Moved(call[p], call'[p])
      /\ call'[p].listed = call[p].listed \ {<<r, a>>}
      /\ \A q \in Callers : q # p => call'[q] = call[q]
  BY <1>1 DEF EvaluateNotDue, Call, Moved
<1>3. OnDate(p) /\ OnDate(p)'
  BY <1>1, <1>2 DEF OnDate
<1>4. ~Stop /\ UNCHANGED <<cursor, since, state, created, crashes>>
  BY DEF EvaluateNotDue, Stop, ruleVars, bounds
<1>5. call[p].date \in Dates /\ created \in [Rules -> 0..MaxDate]
  BY <1>3 DEF ShapeInv, CallShape, TypeOK
<1>6. ASSUME NEW k \in Keys, k[2] = call[p].date, Owes(k), NEW b \in Amounts,
             <<k[1], b>> \in call[p].listed, <<k[1], b>> \notin call'[p].listed
      PROVE  FALSE
  <2>1. k[1] = r
    BY <1>2, <1>6
  <2> QED
    BY <1>5, <1>6, <2>1 DEF EvaluateNotDue, Owes, IsDue
<1> QED
  BY <1>1, <1>2, <1>3, <1>4, <1>6, EvaluationHandled

LEMMA CreateOccurrenceHandledInv ==
  ASSUME ShapeInv, HandledInv, [Next]_vars, NEW p \in Callers, NEW r \in Rules,
         NEW a \in Amounts, CreateOccurrence(p, r, a)
  PROVE  HandledInv'
<1>1. call[p] \in Call /\ call \in [Callers -> Call] /\ call[p].pc = "rules"
  BY DEF ShapeInv, TypeOK, CreateOccurrence
<1>2. /\ call'[p].pc = "alert"
      /\ call'[p].listed = call[p].listed \ {<<r, a>>}
      /\ call'[p].made[1] = r
      /\ call'[p].next = call[p].next /\ call'[p].latest = call[p].latest
      /\ call'[p].retrying = call[p].retrying /\ call'[p].date = call[p].date
      /\ \A q \in Callers : q # p => call'[q] = call[q]
  BY <1>1 DEF CreateOccurrence, Call
<1>3. call'[p] \in Call
  BY CreateOccurrenceShape DEF ShapeInv, TypeOK
<1>4. OnDate(p) /\ OnDate(p)' /\ Moved(call[p], call'[p])
  BY <1>1, <1>2, <1>3 DEF OnDate, Moved
<1>5. ~Stop /\ UNCHANGED <<cursor, since, state, created, crashes>>
  BY DEF CreateOccurrence, Stop, ruleVars, bounds
<1>6. ASSUME NEW k \in Keys, k[2] = call[p].date, NEW b \in Amounts,
             <<k[1], b>> \in call[p].listed, <<k[1], b>> \notin call'[p].listed
      PROVE  k = Made(p)'
  <2>1. k[1] = r
    BY <1>2, <1>6
  <2> QED
    BY <1>2, <1>6, <2>1 DEF Made, Keys
<1> QED
  BY <1>1, <1>2, <1>4, <1>5, <1>6, EvaluationHandled

LEMMA EvaluationFailsHandledInv ==
  ASSUME ShapeInv, HandledInv, [Next]_vars, NEW p \in Callers, NEW r \in Rules,
         NEW a \in Amounts, EvaluationFails(p, r, a)
  PROVE  HandledInv'
<1>1. call[p] \in Call /\ call \in [Callers -> Call] /\ call[p].pc = "rules"
  BY DEF ShapeInv, TypeOK, EvaluationFails
<1>2. /\ call'[p].pc = "rules" /\ Moved(call[p], call'[p])
      /\ call'[p].listed = call[p].listed \ {<<r, a>>}
      /\ \A q \in Callers : q # p => call'[q] = call[q]
  BY ZenonT(60), <1>1 DEF EvaluationFails, Call, Moved
<1>3. OnDate(p) /\ OnDate(p)'
  BY <1>1, <1>2 DEF OnDate
<1>4. ~Stop /\ UNCHANGED <<cursor, since, state, created, crashes>>
  BY DEF EvaluationFails, Stop, ruleVars, bounds
<1>5. ASSUME NEW k \in Keys, k[2] = call[p].date, NEW b \in Amounts,
             <<k[1], b>> \in call[p].listed, <<k[1], b>> \notin call'[p].listed
      PROVE  Handled(k)'
  <2>1. k[1] = r
    BY <1>2, <1>5
  <2>2. k = <<r, call[p].date>>
    BY <1>5, <2>1 DEF Keys
  <2> QED
    BY <2>2 DEF EvaluationFails, Failed, Handled, Remembered
<1> QED
  BY <1>1, <1>2, <1>3, <1>4, <1>5, EvaluationHandled

LEMMA BuildAlertHandledInv ==
  ASSUME ShapeInv, HandledInv, [Next]_vars, NEW p \in Callers, BuildAlert(p)
  PROVE  HandledInv'
<1>1. call[p] \in Call /\ call \in [Callers -> Call] /\ call[p].pc = "alert"
  BY DEF ShapeInv, TypeOK, BuildAlert
<1>2. /\ call'[p].pc \in {"rules", "reserve"}
      /\ call'[p].next = call[p].next /\ call'[p].latest = call[p].latest
      /\ call'[p].retrying = call[p].retrying /\ call'[p].date = call[p].date
      /\ call'[p].listed = call[p].listed
      /\ \A q \in Callers : q # p => call'[q] = call[q]
  BY <1>1 DEF BuildAlert, Call
<1>3. call'[p] \in Call
  BY BuildAlertShape DEF ShapeInv, TypeOK
<1>4. OnDate(p) /\ OnDate(p)' /\ Moved(call[p], call'[p])
  BY <1>1, <1>2, <1>3 DEF OnDate, Moved
<1>5. ~Stop /\ UNCHANGED <<cursor, since, state, created, crashes>>
  BY DEF BuildAlert, Stop, ruleVars, bounds
<1>6. \A k \in Keys : k = Made(p) => Handled(k)'
  BY BuildAlertMakes DEF Handled
<1> QED
  BY <1>2, <1>4, <1>5, <1>6, EvaluationHandled

LEMMA ReserveHandledInv ==
  ASSUME ShapeInv, HandledInv, [Next]_vars, NEW p \in Callers, Reserve(p)
  PROVE  HandledInv'
<1>1. call[p] \in Call /\ call \in [Callers -> Call] /\ call[p].pc = "reserve"
  BY DEF ShapeInv, TypeOK, Reserve
<1>2. /\ call'[p].pc = "rules"
      /\ call'[p].next = call[p].next /\ call'[p].latest = call[p].latest
      /\ call'[p].retrying = call[p].retrying /\ call'[p].date = call[p].date
      /\ call'[p].listed = call[p].listed
      /\ \A q \in Callers : q # p => call'[q] = call[q]
  BY <1>1 DEF Reserve, Call
<1>3. call'[p] \in Call
  BY ReserveShape DEF ShapeInv, TypeOK
<1>4. OnDate(p) /\ OnDate(p)' /\ Moved(call[p], call'[p])
  BY <1>1, <1>2, <1>3 DEF OnDate, Moved
<1>5. ~Stop /\ UNCHANGED <<cursor, since, state, created, crashes>>
  BY DEF Reserve, Stop, ruleVars, bounds
<1> QED
  BY <1>1, <1>2, <1>4, <1>5, EvaluationHandled

(* How a call ends, or comes back from a dispatch. *)
LEMMA EndFacts ==
  ASSUME ShapeInv, NEW p \in Callers, EndDispatch(p) \/ Abort(p) \/ EndCall(p)
  PROVE  /\ \A q \in Callers : q # p => call'[q] = call[q]
         /\ Active(p) /\ ~Replaying(p)'
         /\ Active(p)' => /\ EndDispatch(p)
                          /\ call'[p].next = call[p].next
                          /\ call'[p].latest = call[p].latest
         /\ ~Stop /\ UNCHANGED <<state, created>> /\ (crashes' = 0 => crashes = 0)
<1>1. call[p] \in Call /\ call \in [Callers -> Call]
  BY DEF ShapeInv, TypeOK
<1>2. ~Stop /\ UNCHANGED <<state, created>> /\ (crashes' = 0 => crashes = 0)
  BY DEF EndDispatch, Abort, EndCall, Stop, dbVars, ruleVars, bounds, ShapeInv, TypeOK
<1>3. CASE EndDispatch(p)
  <2>1. /\ call'[p].pc = "dates" /\ call[p].pc = "rules"
        /\ call'[p].next = call[p].next /\ call'[p].latest = call[p].latest
        /\ \A q \in Callers : q # p => call'[q] = call[q]
    BY <1>1, <1>3 DEF EndDispatch, Dispatching, Call
  <2> QED
    BY <1>2, <1>3, <2>1 DEF Active, Replaying, OnDate
<1>4. CASE Abort(p) \/ EndCall(p)
  <2>1. call' = [call EXCEPT ![p] = Idle] /\ call[p].pc \in {"rules", "dates"}
    BY <1>4 DEF Abort, EndCall, Dispatching
  <2>2. /\ call'[p].pc = "idle"
        /\ \A q \in Callers : q # p => call'[q] = call[q]
    BY <1>1, <2>1 DEF Idle
  <2> QED
    BY <1>2, <2>1, <2>2 DEF Active, Replaying, OnDate
<1> QED
  BY <1>3, <1>4

LEMMA NoWriteHandled ==
  ASSUME ShapeInv, HandledInv, [Next]_vars, NEW p \in Callers,
         EndDispatch(p) \/ Abort(p) \/ EndCall(p), UNCHANGED <<cursor, since>>,
         p \in Writers /\ Replaying(p) => ~EndDispatch(p)
  PROVE  HandledInv'
<1>1. p \in Writers /\ Active(p)' => Active(p) /\ Upto(p)' = Upto(p)
  BY EndFacts DEF Upto
<1> QED
  BY <1>1, EndFacts, CallHandled

(* A call that writes the date it has evaluated, or a baseline. *)
Writing(p, d, before) ==
  /\ p \in Writers /\ Active(p)
  /\ WriteCursor(d, before)
  /\ d \in 0..MaxDate
  /\ \/ /\ Upto(p) = d - 1 /\ before = d - 1
        /\ \A k \in Keys : Owes(k) /\ k[2] = d => Handled(k)
     \/ Upto(p) = d /\ before = d
  /\ cursor = NoDate => d = call[p].latest
  /\ Active(p)' => Upto(p)' = d

LEMMA EndDispatchWrites ==
  ASSUME ShapeInv, KeptInv, HandledInv, NEW p \in Writers, Replaying(p), EndDispatch(p)
  PROVE  Writing(p, call[p].date, call[p].date - 1)
<1> DEFINE d == call[p].date
<1>1. p \in Callers /\ p # "check" /\ ~call[p].retrying
  BY DEF Writers, Replaying
<1>2. Active(p) /\ call[p].listed = {} /\ call[p].pc = "rules"
  BY <1>1, DispatchFacts DEF EndDispatch, Dispatching
<1>3. /\ d \in 0..MaxDate
      /\ d = call[p].next - 1 /\ call[p].next # NoDate /\ Upto(p) = d - 1
      /\ call[p].latest \in Int /\ call[p].next \in Int
  BY <1>1, <1>2, UptoBounds
<1>4. WriteCursor(d, d - 1)
  BY <1>1 DEF EndDispatch, At
<1>5. \A k \in Keys : Owes(k) /\ k[2] = d => Handled(k)
  BY <1>1, <1>2 DEF HandledInv, EvaluatedHandled
<1>6. cursor = NoDate => d = call[p].latest
  <2>1. cursor = NoDate => Upto(p) = call[p].latest - 1
    BY <1>2, <1>3 DEF KeptInv, FirstDate
  <2> HIDE DEF d
  <2> QED
    BY <1>3, <2>1
<1>7. Active(p)' => Upto(p)' = d
  BY <1>1, <1>3, EndFacts DEF Upto
<1> HIDE DEF d
<1>8. Writing(p, d, d - 1)
  BY <1>2, <1>3, <1>4, <1>5, <1>6, <1>7 DEF Writing
<1> QED
  BY <1>8 DEF d

LEMMA BaselineWrites ==
  ASSUME ShapeInv, NEW p \in Callers, call[p].next = NoDate, EndCall(p)
  PROVE  Writing(p, call[p].latest, call[p].latest)
<1>1. Active(p) /\ call[p] \in Call
  BY DEF EndCall, Active, ShapeInv, TypeOK
<1>2. p \in Writers
  BY <1>1 DEF ShapeInv, CallShape, Writers
<1>3. call[p].latest \in 0..MaxDate /\ Upto(p) = call[p].latest
  BY <1>1 DEF Call, Upto
<1>4. ~EndDispatch(p)
  BY DEF EndCall, EndDispatch, Dispatching
<1>5. ~Active(p)'
  BY <1>4, EndFacts
<1> QED
  BY <1>1, <1>2, <1>3, <1>5 DEF Writing, EndCall

(* The dates a write adds to the cursor are handled. *)
LEMMA WrittenHandled ==
  ASSUME ShapeInv, NEW p, NEW d, NEW before, Writing(p, d, before),
         NEW c \in Int, HandledAfter(c), NEW k \in Keys, Owes(k), k[2] > since',
         k[2] > c, k[2] <= d
  PROVE  Handled(k)
<1>1. p \in Callers /\ k[2] \in Int /\ Upto(p) \in Int /\ d \in Int
  BY UptoBounds DEF Writing, Writers, Keys
<1>2. CASE Upto(p) = d - 1 /\ k[2] = d
  BY <1>1, <1>2 DEF Writing
<1>3. CASE cursor = NoDate /\ ~(Upto(p) = d - 1 /\ k[2] = d)
  BY <1>1, <1>3 DEF Writing, WriteCursor
<1>4. CASE cursor # NoDate /\ ~(Upto(p) = d - 1 /\ k[2] = d)
  <2>1. k[2] <= Upto(p) /\ k[2] > since
    BY <1>1, <1>4 DEF Writing, WriteCursor
  <2>2. HandledFrom(c, Upto(p))
    BY <1>4 DEF HandledAfter, Writing
  <2> QED
    BY <2>1, <2>2 DEF HandledFrom
<1> QED
  BY <1>2, <1>3, <1>4

LEMMA WriteHandled ==
  ASSUME ShapeInv, KeptInv, HandledInv, [Next]_vars, NEW p \in Callers, NEW d, NEW before,
         Writing(p, d, before), EndDispatch(p) \/ EndCall(p)
  PROVE  HandledInv'
<1>1. PICK c \in Int : HandledAfter(c)
  BY DEF HandledInv
<1>2. /\ cursor' = d /\ d # NoDate /\ d \in Int /\ Upto(p) \in Int
      /\ p \in Writers /\ Active(p)
      /\ \A k \in Keys : k[2] \in Int
  BY UptoBounds DEF Writing, WriteCursor, Keys
<1>3. /\ \A q \in Callers : q # p => call'[q] = call[q]
      /\ ~Replaying(p)' /\ ~Stop
      /\ UNCHANGED <<state, created>> /\ (crashes' = 0 => crashes = 0)
  BY EndFacts
<1>4. \A k \in Keys : (Owes(k)' <=> Owes(k)) /\ (Owes(k) /\ Handled(k) => Handled(k)')
  BY <1>3, HandledStays DEF Owes
<1>5. HandledFrom(c, d)'
  <2> SUFFICES ASSUME NEW k \in Keys, Owes(k), k[2] > since', k[2] > c, k[2] <= d
               PROVE  Handled(k)
    BY <1>2, <1>4 DEF HandledFrom
  <2> QED
    BY <1>1, WrittenHandled
<1>6. c <= d
  BY <1>1, <1>2 DEF HandledAfter, Writing
<1>7. ASSUME NEW q \in Writers, Active(q)'
      PROVE  c <= Upto(q)' /\ HandledFrom(c, Upto(q))'
  <2>1. CASE q = p
    <3>1. Upto(q)' = d
      BY <1>7, <2>1 DEF Writing
    <3> QED
      BY <1>2, <1>5, <1>6, <3>1 DEF HandledFrom
  <2>2. CASE q # p
    <3>1. q \in Callers /\ Active(q) /\ Upto(q)' = Upto(q)
      BY <1>3, <1>7, <2>2, SameCall DEF Writers
    <3>2. Upto(q) \in Int
      BY <3>1, UptoBounds
    <3>3. CASE cursor = NoDate
      <4>1. -1 <= Upto(q) /\ Upto(q) <= d
        BY <1>2, <2>2, <3>1, <3>3, FirstWrite DEF Writing
      <4> QED
        BY <1>1, <1>2, <1>5, <3>1, <3>2, <3>3, <4>1 DEF HandledAfter, HandledFrom
    <3>4. CASE cursor # NoDate
      <4>1. c <= Upto(q) /\ HandledFrom(c, Upto(q)) /\ since' = since
        BY <1>1, <3>1, <3>4 DEF HandledAfter, Writing, WriteCursor
      <4> QED
        BY <1>4, <3>1, <4>1 DEF HandledFrom
    <3> QED
      BY <3>3, <3>4
  <2> QED
    BY <2>1, <2>2
<1>8. HandledAfter(c)'
  BY <1>1, <1>2, <1>3, <1>5, <1>6, <1>7 DEF HandledAfter
<1>9. ASSUME NEW q \in Callers, Replaying(q)'
      PROVE  EvaluatedHandled(q)'
  <2>1. call'[q] = call[q] /\ Replaying(q)
    BY <1>3, <1>9, SameCall
  <2>2. EvaluatedHandled(q) /\ Made(q)' = Made(q)
    BY <2>1 DEF HandledInv, Made
  <2> QED
    BY <1>4, <2>1, <2>2 DEF EvaluatedHandled
<1> QED
  BY <1>8, <1>9 DEF HandledInv

LEMMA StopHandled == ASSUME ShapeInv, HandledInv, Stop PROVE HandledInv'
<1>1. /\ UNCHANGED <<cursor, since, state, created>> /\ crashes' # 0
      /\ cursor \in Int /\ \A k \in Keys : k[2] \in Int
  BY DEF Stop, dbVars, ruleVars, ShapeInv, TypeOK, Keys
<1>2. \A q \in Callers : ~Active(q)' /\ ~Replaying(q)'
  BY DEF Stop, Idle, Active, Replaying, OnDate
<1>3. HandledAfter(cursor)'
  BY <1>1, <1>2 DEF HandledAfter, HandledFrom, Writers
<1> QED
  BY <1>1, <1>2, <1>3 DEF HandledInv

LEMMA HandledStep ==
  ASSUME ShapeInv, KeptInv, HandledInv, [Next]_vars
  PROVE  HandledInv'
<1>1. CASE UNCHANGED vars \/ NextDay \/ CommandStep \/ \E k \in Keys : DeliveryFails(k)
  BY <1>1, CommandHandled
<1>2. CASE ReminderTime \/ Start \/ Stop \/ StartCheck
  BY <1>2, ReminderTimeHandled, StartHandled, StopHandled, CheckHandled
<1>3. CASE \E p \in Callers : Evaluate(p)
  BY <1>3, BeginRetryHandled, BeginDateHandled, EvaluateNotDueHandledInv,
     CreateOccurrenceHandledInv, EvaluationFailsHandledInv, BuildAlertHandledInv,
     ReserveHandledInv DEF Evaluate
<1>4. ASSUME NEW p \in Callers, EndDispatch(p)
      PROVE  HandledInv'
  <2>1. CASE p \in Writers /\ Replaying(p)
    BY <1>4, <2>1, EndDispatchWrites, WriteHandled
  <2>2. CASE ~(p \in Writers /\ Replaying(p))
    <3>1. OnDate(p)
      BY <1>4 DEF EndDispatch, Dispatching, OnDate
    <3>2. UNCHANGED <<cursor, since>>
      BY <1>4, <2>2, <3>1 DEF EndDispatch, Writers, Replaying
    <3> QED
      BY <1>4, <2>2, <3>2, NoWriteHandled
  <2> QED
    BY <2>1, <2>2
<1>5. ASSUME NEW p \in Callers, Abort(p)
      PROVE  HandledInv'
  <2>1. UNCHANGED <<cursor, since>> /\ ~EndDispatch(p)
    BY <1>5 DEF Abort, EndDispatch, dbVars, bounds, ShapeInv, TypeOK
  <2> QED
    BY <1>5, <2>1, NoWriteHandled
<1>6. ASSUME NEW p \in Callers, EndCall(p)
      PROVE  HandledInv'
  <2>1. CASE call[p].next = NoDate
    BY <1>6, <2>1, BaselineWrites, WriteHandled
  <2>2. CASE call[p].next # NoDate
    <3>1. UNCHANGED <<cursor, since>> /\ ~EndDispatch(p)
      BY <1>6, <2>2 DEF EndCall, EndDispatch, Dispatching
    <3> QED
      BY <1>6, <3>1, NoWriteHandled
  <2> QED
    BY <2>1, <2>2
<1> QED
  BY <1>1, <1>2, <1>3, <1>4, <1>5, <1>6 DEF Next, CommandStep

(* Only the end of a dispatch or of a call writes the cursor. *)
LEMMA OnlyEndsWrite ==
  ASSUME [Next]_vars, cursor' # cursor
  PROVE  \E p \in Callers : EndDispatch(p) \/ EndCall(p)
<1>1. ~(UNCHANGED vars \/ NextDay \/ ReminderTime \/ StartCheck \/ Start \/ Stop)
  BY DEF vars, dbVars, NextDay, ReminderTime, StartCheck, Start, Stop
<1>2. ~CommandStep
  BY DEF CommandStep, AddRule, SetDcaAmount, SetFundFee, DeleteRule
<1>3. ASSUME NEW p \in Callers, Evaluate(p)
      PROVE  FALSE
  <2>1. ~((\E k \in Keys : BeginRetry(p, k)) \/ BeginDate(p))
    BY DEF BeginRetry, BeginDate, dbVars
  <2>2. ASSUME NEW r \in Rules, NEW a \in Amounts
        PROVE  ~(EvaluateNotDue(p, r, a) \/ CreateOccurrence(p, r, a) \/ EvaluationFails(p, r, a))
    BY DEF EvaluateNotDue, CreateOccurrence, EvaluationFails
  <2>3. ~(BuildAlert(p) \/ Reserve(p))
    BY DEF BuildAlert, Reserve
  <2> QED
    BY <1>3, <2>1, <2>2, <2>3 DEF Evaluate
<1>4. \A p \in Callers : ~Abort(p)
  BY DEF Abort, dbVars
<1>5. \A k \in Keys : ~DeliveryFails(k)
  BY DEF DeliveryFails
<1> QED
  BY <1>1, <1>2, <1>3, <1>4, <1>5 DEF Next, CommandStep

LEMMA CursorIsWritten ==
  ASSUME ShapeInv, KeptInv, HandledInv, [Next]_vars, cursor' # cursor
  PROVE  /\ \E p \in Callers, d \in Int, before \in Int : Writing(p, d, before)
         /\ UNCHANGED <<state, created>>
<1>1. PICK p \in Callers : EndDispatch(p) \/ EndCall(p)
  BY OnlyEndsWrite
<1>2. call[p] \in Call
  BY DEF ShapeInv, TypeOK
<1>3. call[p].date \in Int /\ call[p].latest \in Int
  BY <1>2 DEF Call
<1>4. UNCHANGED <<state, created>>
  BY <1>1, EndFacts
<1>5. CASE EndDispatch(p)
  <2>1. p \in Writers /\ Replaying(p)
    BY <1>5 DEF EndDispatch, Dispatching, Writers, Replaying, OnDate
  <2>2. Writing(p, call[p].date, call[p].date - 1)
    BY <1>5, <2>1, EndDispatchWrites
  <2> DEFINE d == call[p].date
  <2>3. d \in Int /\ d - 1 \in Int /\ Writing(p, d, d - 1)
    BY <1>3, <2>2
  <2> HIDE DEF d
  <2> QED
    BY <1>4, <2>3
<1>6. CASE EndCall(p)
  <2>1. call[p].next = NoDate
    BY <1>6 DEF EndCall
  <2> QED
    BY <1>3, <1>6, <1>4, <2>1, BaselineWrites
<1> QED
  BY <1>1, <1>5, <1>6

LEMMA PassingStep ==
  ASSUME ShapeInv, KeptInv, HandledInv, [Next]_vars, NEW k \in Keys,
         PassedTo(k, cursor)', ~PassedTo(k, cursor), cursor' > cursor
  PROVE  Handled(k)
<1>1. PICK p \in Callers, d \in Int, before \in Int : Writing(p, d, before)
  BY CursorIsWritten DEF ShapeInv, TypeOK
<1>2. PICK c \in Int : HandledAfter(c)
  BY DEF HandledInv
<1>3. cursor' = d /\ UNCHANGED <<state, created>>
  BY <1>1, CursorIsWritten DEF ShapeInv, TypeOK, Writing, WriteCursor
<1>4. Owes(k) /\ k[2] > since' /\ k[2] <= d
  BY <1>3 DEF PassedTo, Owes
<1>5. k[2] > c
  <2>1. k[2] \in Int /\ k[2] > 0 /\ cursor \in Int
    BY DEF Keys, ShapeInv, TypeOK
  <2>2. CASE cursor = NoDate
    BY <1>2, <2>1, <2>2 DEF HandledAfter
  <2>3. CASE cursor # NoDate
    <3>1. since' = since /\ c <= cursor
      BY <1>1, <1>2, <2>3 DEF Writing, WriteCursor, HandledAfter
    <3>2. k[2] > cursor
      BY <1>4, <2>1, <3>1 DEF PassedTo, Owes
    <3> QED
      BY <2>1, <3>1, <3>2
  <2> QED
    BY <2>2, <2>3
<1> QED
  BY <1>1, <1>2, <1>4, <1>5, WrittenHandled

LEMMA ForgettingStep ==
  ASSUME ShapeInv, [Next]_vars, NEW k \in Keys, PassedTo(k, cursor)', Handled(k), ~Handled(k)'
  PROVE  up /\ ~up' /\ InTheMaking(k)
<1>1. Owes(k)'
  BY DEF PassedTo, Owes
<1>2. Stop
  BY <1>1, HandledStays
<1>3. UNCHANGED <<events, failures>>
  BY <1>2 DEF Stop, dbVars
<1> QED
  BY <1>2, <1>3 DEF Stop, Handled, Reminded, Remembered

(* In every behaviour, for any number of stops and any overlap of calls:   *)
(* the cursor passes a due date only when its reminder is reserved, its    *)
(* failure recorded, or a check is about to reserve it; and of a date that *)
(* is passed nothing is forgotten, except by a stop in the middle of       *)
(* making the reminder.                                                    *)
THEOREM NotPassedUnreminded == Spec => RemindedWhenPassed
<1>1. ShapeInv /\ KeptInv /\ HandledInv /\ [Next]_vars =>
        \A k \in Keys :
          /\ PassedTo(k, cursor)' /\ ~PassedTo(k, cursor) /\ cursor' > cursor => Handled(k)
          /\ PassedTo(k, cursor)' /\ Handled(k) /\ ~Handled(k)' =>
               up /\ ~up' /\ InTheMaking(k)
  BY PassingStep, ForgettingStep
<1> QED
  BY <1>1, InitShape, InitKept, InitHandled, ShapeStep, KeptStep, HandledStep, PTL
     DEF Spec, RemindedWhenPassed

(* As long as the process has not stopped and no dispatch has raised: no   *)
(* due date the cursor has passed is without its reminder or its failure.  *)
THEOREM NothingForgottenBeforeAStop == Spec => []NothingForgottenAtFirst
<1>1. ASSUME ShapeInv, HandledInv
      PROVE  NothingForgottenAtFirst
  <2> SUFFICES ASSUME crashes = 0, NEW k \in Keys, PassedTo(k, cursor) PROVE Handled(k)
    BY DEF NothingForgottenAtFirst, NothingForgotten
  <2>1. HandledAfter(-1)
    BY <1>1 DEF HandledInv, HandledAfter
  <2>2. Owes(k) /\ k[2] > since /\ k[2] <= cursor /\ k[2] \in Int /\ k[2] > 0
    BY DEF PassedTo, Owes, Keys
  <2>3. cursor # NoDate
    BY <2>2
  <2> QED
    BY <2>1, <2>2, <2>3 DEF HandledAfter, HandledFrom
<1> QED
  BY <1>1, InitShape, InitKept, InitHandled, ShapeStep, KeptStep, HandledStep, PTL DEF Spec
=============================================================================
