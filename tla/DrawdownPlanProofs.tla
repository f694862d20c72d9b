------------------------- MODULE DrawdownPlanProofs -------------------------
(***************************************************************************)
(* Theorems about DrawdownPlan, for any prices, tiers, margins, days,      *)
(* drafts and restarts.  The first part is about the tables alone: facts   *)
(* are final, reminders respect the additions, every addition is explained.*)
(* The second is about what an evaluation computes: its peak, when a cycle *)
(* ends, which tiers it records and which it reminds of.                   *)
(***************************************************************************)
EXTENDS DrawdownPlan, NaturalExtrema, SequenceTheorems, FiniteSetTheorems, TLAPS

-----------------------------------------------------------------------------
(* The strengthening.  A cycle id never exceeds the number of cycles, so   *)
(* the id of a new cycle is new to every table.                            *)
CyclesAreRows == \E S : cycles \in Seq(S)
IdsAreKnown ==
  /\ \A r \in records : r.cycle \in Nat /\ r.cycle <= Len(cycles)
  /\ \A a \in added : a.cycle \in Nat /\ a.cycle <= Len(cycles)

(* What a check has read of the additions is current while it holds the    *)
(* lock.                                                                   *)
JobIsRecord == DOMAIN job = DOMAIN NoJob
CheckKnowsAdditions ==
  /\ job.step = "evaluate" /\ job.cycle = ActiveId => Added(ActiveId) \subseteq job.hidden
  /\ job.step = "announce" => job.tiers \cap Added(job.cycle) = {}

(* A draft for today holds tiers that a reminder of its cycle offered.     *)
DraftsWereOffered ==
  \A f \in drafts : ~ f.historical =>
    \E e \in events : e.cycle = f.cycle /\ e.date = f.date /\ f.tiers \subseteq e.tiers

PlanInv == /\ CyclesAreRows /\ IdsAreKnown /\ JobIsRecord /\ CheckKnowsAdditions
           /\ DraftsWereOffered /\ AdditionsAreExplained

-----------------------------------------------------------------------------
(* What persisting an evaluation may do: nothing, or facts and at most one *)
(* reminder for the cycle that is active afterwards.  If that cycle began  *)
(* earlier, neither repeats what is recorded or hidden in it.              *)
Outcome(id, facts, shown, event) ==
  /\ id \in Nat
  /\ id = Len(cycles')
  /\ \/ id = Len(cycles) + 1
     \/ /\ id = Len(cycles)
        /\ facts \cap Recorded(id) = {}
        /\ shown \cap job.hidden = {}
  /\ job.cycle = Len(cycles)
  /\ records' = RecordFacts(id, job.date, facts, event)
  /\ events' = events \cup ({event} \ {NoEvent})
  /\ \/ event = NoEvent
     \/ event = [phase |-> "action", cycle |-> id, date |-> job.date, tiers |-> shown]
  /\ job' \in {NoJob, [NoJob EXCEPT !.step = "quote", !.purpose = job.purpose,
                                    !.date = job.date, !.cycle = id]}

LEMMA CyclesGrow ==
  ASSUME CyclesAreRows, NEW row
  PROVE  /\ Len(cycles) \in Nat
         /\ \E S : Append(cycles, row) \in Seq(S)
         /\ Len(Append(cycles, row)) = Len(cycles) + 1
         /\ cycles # <<>> => /\ \E S : [cycles EXCEPT ![Len(cycles)] = row] \in Seq(S)
                             /\ Len([cycles EXCEPT ![Len(cycles)] = row]) = Len(cycles)
<1>1. PICK S : cycles \in Seq(S)
  BY DEF CyclesAreRows
<1>2. cycles \in Seq(S \cup {row}) /\ row \in S \cup {row}
  BY <1>1, SeqMonotonic
<1>3. Len(cycles) \in Nat
  BY <1>1, LenProperties
<1>4. /\ Append(cycles, row) \in Seq(S \cup {row})
      /\ Len(Append(cycles, row)) = Len(cycles) + 1
  BY <1>2, AppendProperties
<1>5. ASSUME cycles # <<>>
      PROVE  /\ [cycles EXCEPT ![Len(cycles)] = row] \in Seq(S \cup {row})
             /\ Len([cycles EXCEPT ![Len(cycles)] = row]) = Len(cycles)
  <2>1. Len(cycles) \in 1 .. Len(cycles)
    BY <1>1, <1>3, <1>5, EmptySeq
  <2> QED
    BY <1>2, <2>1, ExceptSeq
<1> QED
  BY <1>3, <1>4, <1>5

LEMMA FirstEvaluationIsFresh ==
  ASSUME NEW d, cycles = <<>>
  PROVE  Evaluation(d).fresh
  BY DEF Evaluation, Initial

LEMMA CommitOutcome ==
  ASSUME CyclesAreRows, CommitEvaluation
  PROVE  /\ CyclesAreRows'
         /\ \/ UNCHANGED factVars /\ job' = NoJob
            \/ \E id, facts, shown, event : Outcome(id, facts, shown, event)
<1> DEFINE d     == job.date
           ev    == Evaluation(d)
           id    == IF ev.fresh THEN ActiveId + 1 ELSE ActiveId
           row   == [anchor |-> ev.anchor, peak |-> ev.peak, evaluated |-> d]
           quiet == job.purpose = "initialize"
           facts == IF quiet THEN {} ELSE Crossed(ev, d)
           shown == IF quiet THEN {} ELSE Actionable(ev, d)
           event == IF shown = {} THEN NoEvent
                    ELSE [phase |-> "action", cycle |-> id, date |-> d, tiers |-> shown]
           goes  == StillExpected /\ (event = NoEvent \/ ~ KeyTaken(event))
<1>1. CASE ~ goes
  <2>1. UNCHANGED factVars /\ job' = NoJob
    BY <1>1 DEF CommitEvaluation
  <2> QED
    BY <2>1 DEF CyclesAreRows, factVars
<1>2. CASE goes
  <2>1. /\ cycles' = IF ev.fresh THEN Append(cycles, row)
                     ELSE [cycles EXCEPT ![ActiveId] = row]
        /\ records' = RecordFacts(id, d, facts, event)
        /\ events' = events \cup ({event} \ {NoEvent})
        /\ job' = Continue(id)
    BY <1>2 DEF CommitEvaluation
  <2>2. job.cycle = Len(cycles)
    BY <1>2 DEF StillExpected, ActiveId
  <2>3. event = NoEvent
        \/ event = [phase |-> "action", cycle |-> id, date |-> d, tiers |-> shown]
    OBVIOUS
  <2>4. job' \in {NoJob, [NoJob EXCEPT !.step = "quote", !.purpose = job.purpose,
                                       !.date = d, !.cycle = id]}
    BY <2>1 DEF Continue
  <2>5. /\ CyclesAreRows' /\ id \in Nat /\ id = Len(cycles')
        /\ \/ id = Len(cycles) + 1
           \/ /\ id = Len(cycles)
              /\ facts \cap Recorded(id) = {} /\ shown \cap job.hidden = {}
    <3> HIDE DEF row
    <3>0. /\ Len(cycles) \in Nat
          /\ \E S : Append(cycles, row) \in Seq(S)
          /\ Len(Append(cycles, row)) = Len(cycles) + 1
          /\ cycles # <<>> => /\ \E S : [cycles EXCEPT ![Len(cycles)] = row] \in Seq(S)
                              /\ Len([cycles EXCEPT ![Len(cycles)] = row]) = Len(cycles)
      BY CyclesGrow
    <3>1. CASE ev.fresh
      <4>1. cycles' = Append(cycles, row) /\ id = Len(cycles) + 1
        BY <2>1, <3>1 DEF ActiveId
      <4>2. CyclesAreRows'
        BY <3>0, <4>1 DEF CyclesAreRows
      <4> QED
        BY <3>0, <4>1, <4>2
    <3>2. CASE ~ ev.fresh
      <4>1. cycles # <<>>
        BY <3>2, FirstEvaluationIsFresh
      <4>2. cycles' = [cycles EXCEPT ![Len(cycles)] = row] /\ id = Len(cycles)
        BY <2>1, <3>2 DEF ActiveId
      <4>5. CyclesAreRows' /\ Len(cycles') = Len(cycles)
        BY <3>0, <4>1, <4>2 DEF CyclesAreRows
      <4>3. facts \cap Recorded(id) = {}
        BY <3>2 DEF Crossed
      <4>4. shown \cap job.hidden = {}
        BY <3>2 DEF Actionable
      <4> QED
        BY <3>0, <4>2, <4>3, <4>4, <4>5
    <3> QED
      BY <3>1, <3>2
  <2>6. Outcome(id, facts, shown, event)
    <3> HIDE DEF id, facts, shown, event
    <3> QED
      BY <2>1, <2>2, <2>3, <2>4, <2>5 DEF Outcome
  <2> QED
    BY <2>5, <2>6
<1> QED
  BY <1>1, <1>2

(* What a committed evaluation does to the tables, from its outcome.       *)
LEMMA OutcomeKeepsRecords ==
  ASSUME CyclesAreRows, IdsAreKnown, NEW id, NEW facts, NEW shown, NEW event,
         Outcome(id, facts, shown, event), NEW r \in records
  PROVE  /\ r.source = "close_confirmed" => r \in records'
         /\ \E q \in records' : q.cycle = r.cycle /\ q.tier = r.tier
<1>1. records' = {q \in records : q.cycle # id \/ q.tier \notin facts}
                 \cup {[cycle |-> id, tier |-> t, source |-> "close_confirmed",
                        date |-> job.date,
                        event |-> IF event # NoEvent /\ t \in event.tiers THEN event
                                  ELSE NoEvent] : t \in facts}
  BY DEF Outcome, RecordFacts
<1>2. CASE r.cycle # id \/ r.tier \notin facts
  BY <1>1, <1>2
<1>3. CASE r.cycle = id /\ r.tier \in facts
  <2> DEFINE new(t) == [cycle |-> id, tier |-> t, source |-> "close_confirmed",
                        date |-> job.date,
                        event |-> IF event # NoEvent /\ t \in event.tiers THEN event
                                  ELSE NoEvent]
  <2>0. new(r.tier) \in records' /\ new(r.tier).cycle = id /\ new(r.tier).tier = r.tier
    BY <1>1, <1>3
  <2>1. \E q \in records' : q.cycle = r.cycle /\ q.tier = r.tier
    BY <1>3, <2>0
  <2>2. id # Len(cycles) + 1
    <3>1. Len(cycles) \in Nat
      BY LenProperties DEF CyclesAreRows
    <3> QED
      BY <1>3, <3>1 DEF IdsAreKnown
  <2>3. r.source # "close_confirmed"
    BY <1>3, <2>2 DEF Outcome, Recorded
  <2> QED
    BY <2>1, <2>3
<1> QED
  BY <1>2, <1>3

LEMMA OutcomeKeepsIds ==
  ASSUME CyclesAreRows, IdsAreKnown, NEW id, NEW facts, NEW shown, NEW event,
         Outcome(id, facts, shown, event), UNCHANGED added
  PROVE  IdsAreKnown'
<1>1. \A r \in records' : r \in records \/ r.cycle = id
  BY DEF Outcome, RecordFacts
<1>2. Len(cycles) \in Nat
  BY LenProperties DEF CyclesAreRows
<1> QED
  BY <1>1, <1>2 DEF IdsAreKnown, Outcome

-----------------------------------------------------------------------------
(* Each action keeps the strengthening.                                    *)

(* Most actions leave the tables it speaks of alone, and the process does  *)
(* nothing but let go of a check or of drafts.                             *)
LEMMA QuietStep ==
  ASSUME PlanInv, UNCHANGED <<factVars, added>>, drafts' \subseteq drafts,
         job' \in {job, NoJob}
  PROVE  PlanInv'
<1> USE DEF factVars
<1>1. CyclesAreRows' /\ IdsAreKnown' /\ AdditionsAreExplained'
  BY DEF PlanInv, CyclesAreRows, IdsAreKnown, AdditionsAreExplained, ConfirmedBy
<1>2. DraftsWereOffered'
  BY DEF PlanInv, DraftsWereOffered
<1>3. JobIsRecord'
  BY DEF PlanInv, JobIsRecord, NoJob
<1>4. CheckKnowsAdditions'
  <2>1. CASE job' = job
    BY <2>1 DEF PlanInv, CheckKnowsAdditions, ActiveId, Added
  <2>2. CASE job' = NoJob
    BY <2>2 DEF CheckKnowsAdditions, NoJob
  <2> QED
    BY <2>1, <2>2
<1> QED
  BY <1>1, <1>2, <1>3, <1>4 DEF PlanInv

(* A check that begins or reads its quote has just read the additions.     *)
LEMMA CheckStep ==
  ASSUME PlanInv, UNCHANGED <<factVars, added, drafts>>, JobIsRecord', CheckKnowsAdditions'
  PROVE  PlanInv'
BY DEF factVars, PlanInv, CyclesAreRows, IdsAreKnown, AdditionsAreExplained, ConfirmedBy,
       DraftsWereOffered

LEMMA ReadingKnowsAdditions ==
  ASSUME NEW purpose, NEW d
  PROVE  /\ DOMAIN Reading(purpose, d) = DOMAIN NoJob
         /\ Reading(purpose, d).step = "evaluate"
         /\ Added(ActiveId) \subseteq Reading(purpose, d).hidden
BY DEF Reading, NoJob, Suppressed

LEMMA BeginStep ==
  ASSUME PlanInv, BeginAfterClose \/ BeginPreAlert
  PROVE  PlanInv'
<1>1. UNCHANGED <<factVars, added, drafts>>
  BY DEF BeginAfterClose, BeginPreAlert, userVars
<1>2. \/ \E purpose, d : job' = Reading(purpose, d)
      \/ \E d : job' = [NoJob EXCEPT !.step = "quote", !.purpose = "catch_up",
                                     !.date = d, !.cycle = ActiveId]
  BY DEF BeginAfterClose, BeginPreAlert
<1>3. JobIsRecord' /\ CheckKnowsAdditions'
  <2>1. CASE \E purpose, d : job' = Reading(purpose, d)
    BY <1>1, <2>1, ReadingKnowsAdditions
    DEF JobIsRecord, CheckKnowsAdditions, ActiveId, Added, factVars, NoJob
  <2>2. CASE \E d : job' = [NoJob EXCEPT !.step = "quote", !.purpose = "catch_up",
                                         !.date = d, !.cycle = ActiveId]
    BY <2>2 DEF JobIsRecord, CheckKnowsAdditions, NoJob
  <2> QED
    BY <1>2, <2>1, <2>2
<1> QED
  BY <1>1, <1>3, CheckStep

LEMMA QuoteStep ==
  ASSUME PlanInv, NEW p \in Prices, Quote(p)
  PROVE  PlanInv'
<1> DEFINE tiers == Reached(p, closes[RecoveredPeak]) \ Suppressed(job.cycle, job.date + 1)
<1>1. CASE tiers = {}
  BY <1>1, QuietStep DEF Quote, userVars
<1>2. CASE tiers # {}
  <2>1. /\ UNCHANGED <<factVars, added, drafts>>
        /\ job' = [job EXCEPT !.step = "announce", !.tiers = tiers]
    BY <1>2 DEF Quote, userVars
  <2>2. tiers \cap Added(job.cycle) = {}
    BY DEF Suppressed
  <2> HIDE DEF tiers
  <2>3. /\ DOMAIN job' = DOMAIN NoJob
        /\ job'.step = "announce" /\ job'.tiers = tiers /\ job'.cycle = job.cycle
    BY <2>1 DEF PlanInv, JobIsRecord, NoJob
  <2>4. JobIsRecord' /\ CheckKnowsAdditions'
    BY <2>1, <2>2, <2>3 DEF JobIsRecord, CheckKnowsAdditions, Added, NoJob
  <2> QED
    BY <2>1, <2>4, CheckStep
<1> QED
  BY <1>1, <1>2

LEMMA AnnounceStep ==
  ASSUME PlanInv, Announce
  PROVE  PlanInv'
<1>1. /\ UNCHANGED <<cycles, records, added, drafts>>
      /\ events \subseteq events' /\ job' = NoJob
  BY DEF Announce, userVars
<1>2. CyclesAreRows' /\ IdsAreKnown' /\ AdditionsAreExplained'
  BY <1>1 DEF PlanInv, CyclesAreRows, IdsAreKnown, AdditionsAreExplained, ConfirmedBy
<1>3. DraftsWereOffered'
  BY <1>1 DEF PlanInv, DraftsWereOffered
<1>4. JobIsRecord' /\ CheckKnowsAdditions'
  BY <1>1 DEF JobIsRecord, CheckKnowsAdditions, NoJob
<1> QED
  BY <1>2, <1>3, <1>4 DEF PlanInv

LEMMA CommitStep ==
  ASSUME PlanInv, CommitEvaluation
  PROVE  PlanInv'
<1>1. UNCHANGED <<added, drafts>> /\ CyclesAreRows'
  BY CommitOutcome DEF CommitEvaluation, userVars, PlanInv
<1>2. CASE UNCHANGED factVars /\ job' = NoJob
  BY <1>1, <1>2, QuietStep
<1>3. CASE \E id, facts, shown, event : Outcome(id, facts, shown, event)
  <2>1. PICK id, facts, shown, event : Outcome(id, facts, shown, event)
    BY <1>3
  <2>2. /\ events \subseteq events'
        /\ \A r \in records : /\ r.source = "close_confirmed" => r \in records'
                              /\ \E q \in records' : q.cycle = r.cycle /\ q.tier = r.tier
    BY <2>1, OutcomeKeepsRecords DEF PlanInv, Outcome
  <2>3. IdsAreKnown'
    BY <1>1, <2>1, OutcomeKeepsIds DEF PlanInv
  <2>4. AdditionsAreExplained'
    BY <1>1, <2>2 DEF PlanInv, AdditionsAreExplained, ConfirmedBy
  <2>5. DraftsWereOffered'
    BY <1>1, <2>2 DEF PlanInv, DraftsWereOffered
  <2>6. JobIsRecord' /\ CheckKnowsAdditions'
    <3>1. \/ job' = NoJob
          \/ \E q, d : job' = [NoJob EXCEPT !.step = "quote", !.purpose = q, !.date = d,
                                            !.cycle = id]
      BY <2>1 DEF Outcome
    <3>2. DOMAIN job' = DOMAIN NoJob /\ job'.step \in {"idle", "quote"}
      <4>1. CASE job' = NoJob
        BY <4>1 DEF NoJob
      <4>2. CASE job' # NoJob
        <5>1. PICK q, d : job' = [NoJob EXCEPT !.step = "quote", !.purpose = q, !.date = d,
                                               !.cycle = id]
          BY <3>1, <4>2
        <5>2. DOMAIN job' = DOMAIN NoJob
          BY <5>1 DEF NoJob
        <5>3. job'.step = "quote"
          BY <5>1 DEF NoJob
        <5> QED
          BY <5>2, <5>3
      <4> QED
        BY <4>1, <4>2
    <3> QED
      BY <3>2 DEF JobIsRecord, CheckKnowsAdditions, NoJob
  <2> QED
    BY <1>1, <2>3, <2>4, <2>5, <2>6 DEF PlanInv
<1> QED
  BY <1>2, <1>3, CommitOutcome DEF PlanInv

LEMMA DraftStep ==
  ASSUME PlanInv,
         \/ \E e \in events, tiers \in SUBSET Tiers : DraftToday(e, tiers)
         \/ \E d \in Dates, tiers \in SUBSET Tiers : DraftHistorical(d, tiers)
  PROVE  PlanInv'
<1>1. UNCHANGED <<factVars, added, job>>
  BY DEF DraftToday, DraftHistorical, userVars
<1>2. DraftsWereOffered'
  <2>1. CASE \E e \in events, tiers \in SUBSET Tiers : DraftToday(e, tiers)
    <3>1. PICK e \in events, tiers \in SUBSET Tiers : DraftToday(e, tiers)
      BY <2>1
    <3>2. /\ e.cycle = ActiveId /\ e.date = Today /\ tiers \subseteq e.tiers
          /\ drafts' = drafts \cup {[cycle |-> ActiveId, date |-> Today,
                                     historical |-> FALSE, tiers |-> tiers]}
      BY <3>1 DEF DraftToday, ButtonsWork
    <3> QED
      BY <1>1, <3>2 DEF PlanInv, DraftsWereOffered, factVars
  <2>2. CASE \E d \in Dates, tiers \in SUBSET Tiers : DraftHistorical(d, tiers)
    BY <1>1, <2>2 DEF DraftHistorical, PlanInv, DraftsWereOffered, factVars
  <2> QED
    BY <2>1, <2>2
<1>3. CyclesAreRows' /\ IdsAreKnown' /\ AdditionsAreExplained' /\ JobIsRecord'
  BY <1>1 DEF PlanInv, CyclesAreRows, IdsAreKnown, AdditionsAreExplained, ConfirmedBy,
              JobIsRecord, factVars, NoJob
<1>4. CheckKnowsAdditions'
  BY <1>1 DEF PlanInv, CheckKnowsAdditions, ActiveId, Added, factVars
<1> QED
  BY <1>2, <1>3, <1>4 DEF PlanInv

LEMMA ConfirmStep ==
  ASSUME PlanInv, NEW f \in drafts, ConfirmAddition(f)
  PROVE  PlanInv'
<1> DEFINE new == f.tiers \ Added(f.cycle)
<1>1. /\ UNCHANGED <<cycles, events, job>>
      /\ added' = added \cup {[cycle |-> f.cycle, tier |-> t, date |-> f.date] : t \in new}
      /\ records' = MarkRecords(f.cycle, f.date, new)
      /\ drafts' \subseteq drafts
  BY DEF ConfirmAddition
<1>2. /\ job.step = "idle" /\ f.cycle = Len(cycles)
      /\ IF f.historical THEN f.tiers \subseteq ConfirmedBy(f.cycle, f.date)
         ELSE \E e \in events : e.cycle = f.cycle /\ e.date = f.date /\ f.tiers \subseteq e.tiers
  BY DEF ConfirmAddition, Eligible, LockFree, ActiveId, PlanInv, DraftsWereOffered
<1>3. Len(cycles) \in Nat
  BY LenProperties DEF PlanInv, CyclesAreRows
<1> DEFINE mark(t) == [cycle |-> f.cycle, tier |-> t, source |-> "user_marked_added",
                       date |-> f.date, event |-> NoEvent]
           unmarked == {t \in new : \A r \in records : r.cycle # f.cycle \/ r.tier # t}
<1>4. records' = records \cup {mark(t) : t \in unmarked}
  BY <1>1 DEF MarkRecords
<1>5. IdsAreKnown'
  <2>1. \A r \in records' : r.cycle \in Nat /\ r.cycle <= Len(cycles)
    BY <1>2, <1>3, <1>4 DEF PlanInv, IdsAreKnown
  <2>2. \A a \in added' : a.cycle \in Nat /\ a.cycle <= Len(cycles)
    BY <1>1, <1>2, <1>3 DEF PlanInv, IdsAreKnown
  <2> QED
    BY <1>1, <2>1, <2>2 DEF IdsAreKnown
<1>6. AdditionsAreExplained'
  <2>1. \A c, d : ConfirmedBy(c, d) \subseteq ConfirmedBy(c, d)'
    BY <1>4 DEF ConfirmedBy
  <2>2. ASSUME NEW a \in added
        PROVE  /\ \E r \in records' : r.cycle = a.cycle /\ r.tier = a.tier
               /\ \/ \E e \in events' : e.cycle = a.cycle /\ e.date = a.date /\ a.tier \in e.tiers
                  \/ a.tier \in ConfirmedBy(a.cycle, a.date)'
    BY <1>1, <1>4, <2>1 DEF PlanInv, AdditionsAreExplained
  <2>3. ASSUME NEW t \in new
        PROVE  /\ \E r \in records' : r.cycle = f.cycle /\ r.tier = t
               /\ \/ \E e \in events' : e.cycle = f.cycle /\ e.date = f.date /\ t \in e.tiers
                  \/ t \in ConfirmedBy(f.cycle, f.date)'
    <3>1. CASE t \in unmarked
      <4>1. mark(t) \in records' /\ mark(t).cycle = f.cycle /\ mark(t).tier = t
        BY <1>4, <3>1
      <4> QED
        BY <1>1, <1>2, <2>1, <4>1
    <3>2. CASE t \notin unmarked
      BY <1>1, <1>2, <1>4, <2>1, <3>2
    <3> QED
      BY <3>1, <3>2
  <2>4. ASSUME NEW a \in added', a \notin added
        PROVE  \E t \in new : a.cycle = f.cycle /\ a.tier = t /\ a.date = f.date
    BY <1>1, <2>4
  <2> QED
    BY <2>2, <2>3, <2>4 DEF AdditionsAreExplained
<1>7. CheckKnowsAdditions' /\ JobIsRecord' /\ CyclesAreRows' /\ DraftsWereOffered'
  BY <1>1, <1>2 DEF PlanInv, CheckKnowsAdditions, JobIsRecord, CyclesAreRows,
                    DraftsWereOffered, NoJob
<1> QED
  BY <1>5, <1>6, <1>7 DEF PlanInv

LEMMA InitPlanInv == Init => PlanInv
<1> SUFFICES ASSUME Init PROVE PlanInv
  OBVIOUS
<1>1. CyclesAreRows
  BY EmptySeq DEF Init, CyclesAreRows
<1>2. IdsAreKnown /\ AdditionsAreExplained /\ DraftsWereOffered
  BY DEF Init, IdsAreKnown, AdditionsAreExplained, DraftsWereOffered
<1>3. JobIsRecord /\ CheckKnowsAdditions
  BY DEF Init, JobIsRecord, CheckKnowsAdditions, NoJob
<1> QED
  BY <1>1, <1>2, <1>3 DEF PlanInv

LEMMA NextPlanInv == PlanInv /\ [Next]_vars => PlanInv'
<1> SUFFICES ASSUME PlanInv, [Next]_vars PROVE PlanInv'
  OBVIOUS
<1>1. CASE Checks
  <2>1. CASE GiveUpQuote
    BY <2>1, QuietStep DEF GiveUpQuote, userVars
  <2> QED
    BY <1>1, <2>1, BeginStep, CommitStep, QuoteStep, AnnounceStep DEF Checks
<1>2. CASE Handlers
  <2>1. CASE \E e \in events : PressSnooze(e) \/ PressSkip(e)
    BY <2>1, QuietStep DEF PressSnooze, PressSkip, userVars
  <2>2. CASE WriteSnooze \/ WriteSkip
    BY <2>2, QuietStep DEF WriteSnooze, WriteSkip
  <2>3. CASE \E f \in drafts : DropDraft(f)
    BY <2>3, QuietStep DEF DropDraft, userVars
  <2>4. CASE (\E m \in Margins : SetRearm(m)) \/ DeleteRule
    BY <2>4, QuietStep DEF SetRearm, DeleteRule, userVars
  <2> QED
    BY <1>2, <2>1, <2>2, <2>3, <2>4, DraftStep, ConfirmStep DEF Handlers
<1>3. CASE StartDay \/ (\E p \in Prices : CloseMarket(p)) \/ Crash
  BY <1>3, QuietStep DEF StartDay, CloseMarket, Crash, userVars
<1>4. CASE UNCHANGED vars
  BY <1>4, QuietStep DEF vars, userVars
<1> QED
  BY <1>1, <1>2, <1>3, <1>4 DEF Next

LEMMA PlanInvariant == Spec => []PlanInv
  BY InitPlanInv, NextPlanInv, PTL DEF Spec

-----------------------------------------------------------------------------
(* The theorems.                                                           *)

(* Every addition in the database has a tier record in its cycle, and was  *)
(* offered by a reminder of its date or confirmed by a close by then:      *)
(* record_manual_addition (db.py 2394-2772) under the work lock.           *)
THEOREM AdditionsExplained == Spec => []AdditionsAreExplained
  BY PlanInvariant, PTL DEF PlanInv

(* No step alters or removes a close-confirmed tier record: a persisted    *)
(* evaluation writes to a new cycle or leaves what is recorded out, and    *)
(* marking a tier only inserts (db.py 4366-4419, 2747-2772).               *)
THEOREM FactsAreFinal == Spec => FactsNeverChange
<1> DEFINE Keep == \A r \in records : r.source = "close_confirmed" => r \in records'
<1>1. PlanInv /\ [Next]_vars => [Keep]_vars
  <2> SUFFICES ASSUME PlanInv, [Next]_vars PROVE Keep
    OBVIOUS
  <2>1. CASE CommitEvaluation
    <3>1. CASE UNCHANGED factVars
      BY <3>1 DEF factVars
    <3>2. CASE \E id, facts, shown, event : Outcome(id, facts, shown, event)
      BY <3>2, OutcomeKeepsRecords DEF PlanInv
    <3> QED
      BY <2>1, <3>1, <3>2, CommitOutcome DEF PlanInv
  <2>2. CASE \E f \in drafts : ConfirmAddition(f)
    BY <2>2 DEF ConfirmAddition, MarkRecords
  <2>3. CASE /\ ~ CommitEvaluation
             /\ ~ \E f \in drafts : ConfirmAddition(f)
    <3>1. UNCHANGED records
      BY <2>3 DEF Next, Checks, Handlers, BeginAfterClose, BeginPreAlert, Quote, Announce,
                  GiveUpQuote, PressSnooze, PressSkip, WriteSnooze, WriteSkip, DraftToday,
                  DraftHistorical, DropDraft, SetRearm, DeleteRule, StartDay, CloseMarket,
                  Crash, vars, factVars
    <3> QED
      BY <3>1
  <2> QED
    BY <2>1, <2>2, <2>3
<1> QED
  BY <1>1, PlanInvariant, PTL DEF Spec, FactsNeverChange

(* No step reserves a reminder or a pre-alert for a tier that is added in  *)
(* its cycle: additions need the lock that the check holds between its     *)
(* reads and its write (checks.py 411-470, 675-745; commands.py 2355).     *)
THEOREM AddedAreLeftAlone == Spec => NoReminderForAdded
<1> DEFINE Respect == \A e \in events' \ events :
                        \A a \in added : a.cycle = e.cycle => a.tier \notin e.tiers
<1>1. PlanInv /\ [Next]_vars => [Respect]_vars
  <2> SUFFICES ASSUME PlanInv, [Next]_vars PROVE Respect
    OBVIOUS
  <2>1. CASE CommitEvaluation
    <3>1. CASE UNCHANGED factVars
      BY <3>1 DEF factVars
    <3>2. CASE \E id, facts, shown, event : Outcome(id, facts, shown, event)
      <4>1. PICK id, facts, shown, event : Outcome(id, facts, shown, event)
        BY <3>2
      <4> SUFFICES ASSUME NEW e \in events' \ events, NEW a \in added, a.cycle = e.cycle
                   PROVE  a.tier \notin e.tiers
        OBVIOUS
      <4>2. e.cycle = id /\ e.tiers = shown
        BY <4>1 DEF Outcome
      <4>3. Len(cycles) \in Nat
        BY LenProperties DEF PlanInv, CyclesAreRows
      <4>4. id = Len(cycles) /\ shown \cap job.hidden = {} /\ job.cycle = Len(cycles)
        BY <4>1, <4>2, <4>3 DEF Outcome, PlanInv, IdsAreKnown
      <4>5. a.tier \in Added(Len(cycles))
        BY <4>2, <4>4 DEF Added
      <4>6. Added(Len(cycles)) \subseteq job.hidden
        BY <2>1, <4>4 DEF CommitEvaluation, PlanInv, CheckKnowsAdditions, ActiveId
      <4> QED
        BY <4>2, <4>4, <4>5, <4>6
    <3> QED
      BY <2>1, <3>1, <3>2, CommitOutcome DEF PlanInv
  <2>2. CASE Announce
    <3> SUFFICES ASSUME NEW e \in events' \ events, NEW a \in added, a.cycle = e.cycle
                 PROVE  a.tier \notin e.tiers
      OBVIOUS
    <3>1. e.cycle = job.cycle /\ e.tiers = job.tiers
      BY <2>2 DEF Announce
    <3>2. a.tier \in Added(job.cycle)
      BY <3>1 DEF Added
    <3> QED
      BY <2>2, <3>1, <3>2 DEF Announce, PlanInv, CheckKnowsAdditions
  <2>3. CASE ~ CommitEvaluation /\ ~ Announce
    <3>1. UNCHANGED events
      BY <2>3 DEF Next, Checks, Handlers, BeginAfterClose, BeginPreAlert, Quote,
                  GiveUpQuote, PressSnooze, PressSkip, WriteSnooze, WriteSkip, DraftToday,
                  DraftHistorical, ConfirmAddition, DropDraft, SetRearm, DeleteRule,
                  StartDay, CloseMarket, Crash, vars, factVars
    <3> QED
      BY <3>1
  <2> QED
    BY <2>1, <2>2, <2>3
<1> QED
  BY <1>1, PlanInvariant, PTL DEF Spec, NoReminderForAdded

(* An addition is booked on the cycle that is active when it is booked,    *)
(* not on the one it was opened in (db.py 2408-2470).                      *)
THEOREM AdditionsAreCurrent == Spec => AdditionsJoinActiveCycle
<1> DEFINE Current == \A a \in added' \ added : a.cycle = Len(cycles')
<1>1. [Next]_vars => [Current]_vars
  <2> SUFFICES ASSUME [Next]_vars PROVE Current
    OBVIOUS
  <2>1. CASE \E f \in drafts : ConfirmAddition(f)
    BY <2>1 DEF ConfirmAddition, Eligible, ActiveId
  <2>2. CASE ~ \E f \in drafts : ConfirmAddition(f)
    <3>1. UNCHANGED added
      BY <2>2 DEF Next, Checks, Handlers, BeginAfterClose, BeginPreAlert, CommitEvaluation,
                  Quote, Announce, GiveUpQuote, PressSnooze, PressSkip, WriteSnooze,
                  WriteSkip, DraftToday, DraftHistorical, DropDraft, SetRearm, DeleteRule,
                  StartDay, CloseMarket, Crash, vars, userVars
    <3> QED
      BY <3>1
  <2> QED
    BY <2>1, <2>2
<1> QED
  BY <1>1, PTL DEF Spec, AdditionsJoinActiveCycle

-----------------------------------------------------------------------------
(* Types.  An evaluation works on a date after the last one evaluated, and *)
(* a row's dates are in order; ids of reminders, drafts and presses are    *)
(* those of cycles there are.                                              *)

RowsOrdered ==
  \A c \in DOMAIN cycles : /\ cycles[c].anchor <= cycles[c].peak
                           /\ cycles[c].peak <= cycles[c].evaluated
                           /\ cycles[c].evaluated <= Len(closes)

Jobs == [step : {"idle", "evaluate", "quote", "announce"},
         purpose : {"none", "after_close", "initialize", "catch_up"},
         date : Nat, cycle : Nat, evaluated : Nat,
         hidden : SUBSET Tiers, tiers : SUBSET Tiers]

JobIsTyped ==
  /\ job \in Jobs
  /\ job.step # "idle" => job.date \in 1..Len(closes)
  /\ job.step # "idle" /\ job.purpose # "after_close" => job.date + 1 \in Dates
  /\ job.step = "evaluate" => job.evaluated < job.date
  /\ job.step \in {"quote", "announce"} =>
       job.purpose # "after_close" /\ job.cycle \in 1..Len(cycles)

MarketIsTyped ==
  /\ closes \in Seq(Nat) /\ 1 <= Len(closes) /\ Len(closes) <= MaxDate + 1
  /\ session \in {"open", "closed"}
  /\ session = "open" => Len(closes) < MaxDate
  /\ restatements \in 0..MaxRestatements

FactsAreTyped ==
  /\ cycles \in Seq(Cycles)
  /\ events \subseteq Events
  /\ \A e \in events : e.cycle \in 1..Len(cycles)
  /\ \A r \in records : /\ r.cycle \in 1..Len(cycles) /\ r.tier \in Tiers
                        /\ r.source \in {"close_confirmed", "user_marked_added"}
                        /\ r.date \in Dates /\ r.event \in events \cup {NoEvent}

UserIsTyped ==
  /\ \A a \in added : a.cycle \in 1..Len(cycles) /\ a.tier \in Tiers /\ a.date \in Dates
  /\ skipped \subseteq (1..Len(cycles)) \X Tiers
  /\ snoozed \subseteq (1..Len(cycles)) \X Tiers \X Dates

PressIsTyped ==
  /\ press \in Presses \cup {NoPress}
  /\ press # NoPress => press.cycle \in 1..Len(cycles)

DraftsAreTyped ==
  /\ drafts \subseteq Drafts
  /\ IsFiniteSet(drafts) /\ Cardinality(drafts) <= MaxDrafts
  /\ \A f \in drafts : f.cycle \in 1..Len(cycles)

TypeInv ==
  /\ MarketIsTyped /\ FactsAreTyped /\ RowsOrdered /\ UserIsTyped
  /\ JobIsTyped /\ PressIsTyped /\ DraftsAreTyped
  /\ enabled \in BOOLEAN /\ margin \in Margins /\ crashes \in 0..MaxCrashes

LEMMA TypesAre ==
  ASSUME TypeInv
  PROVE  /\ closes \in Seq(Nat) /\ Len(closes) \in Nat /\ Len(closes) >= 1
         /\ Len(closes) <= MaxDate + 1 /\ 1..Len(closes) \subseteq Dates
         /\ \A i \in 1..Len(closes) : closes[i] \in Nat
         /\ cycles \in Seq(Cycles) /\ Len(cycles) \in Nat /\ DOMAIN cycles = 1..Len(cycles)
         /\ \A c \in 1..Len(cycles) :
              /\ cycles[c].anchor \in Nat /\ cycles[c].peak \in Nat /\ cycles[c].evaluated \in Nat
              /\ 1 <= cycles[c].anchor /\ cycles[c].anchor <= cycles[c].peak
              /\ cycles[c].peak <= cycles[c].evaluated
              /\ cycles[c].evaluated <= Len(closes)
<1>1. closes \in Seq(Nat) /\ Len(closes) <= MaxDate + 1 /\ Len(closes) >= 1
  BY DEF TypeInv, MarketIsTyped
<1>2. Len(closes) \in Nat /\ \A i \in 1..Len(closes) : closes[i] \in Nat
  BY <1>1
<1>3. 1..Len(closes) \subseteq Dates
  BY <1>1, <1>2, PlanAssumption DEF Dates
<1>4. cycles \in Seq(Cycles)
  BY DEF TypeInv, FactsAreTyped
<1>5. /\ Len(cycles) \in Nat /\ DOMAIN cycles = 1..Len(cycles)
      /\ \A c \in 1..Len(cycles) : cycles[c] \in Cycles
  BY <1>4
<1>6. \A x \in Cycles : /\ x.anchor \in Nat /\ x.peak \in Nat /\ x.evaluated \in Nat
                        /\ 1 <= x.anchor
  <2>1. \A x \in Dates : x \in Nat /\ 1 <= x
    BY DEF Dates
  <2> QED
    BY <2>1 DEF Cycles
<1> QED
  BY <1>1, <1>2, <1>3, <1>4, <1>5, <1>6 DEF TypeInv, RowsOrdered

-----------------------------------------------------------------------------
(* One evaluation, of the close of a date that is not evaluated yet.       *)

LEMMA FirstHighestIs ==
  ASSUME TypeInv, NEW S \in SUBSET (1..Len(closes)), S # {}
  PROVE  /\ FirstHighest(S) \in S
         /\ \A j \in S : \/ closes[j] < closes[FirstHighest(S)]
                         \/ closes[j] = closes[FirstHighest(S)] /\ FirstHighest(S) <= j
<1>1. \E i \in S : \A j \in S : closes[j] < closes[i] \/ (closes[j] = closes[i] /\ i <= j)
  BY TypesAre, FirstHighestExists
<1> QED
  BY <1>1 DEF FirstHighest

LEMMA LastHighestIs ==
  ASSUME TypeInv, NEW S \in SUBSET (1..Len(closes)), S # {}
  PROVE  /\ LastHighest(S) \in S
         /\ \A j \in S : \/ closes[j] < closes[LastHighest(S)]
                         \/ closes[j] = closes[LastHighest(S)] /\ j <= LastHighest(S)
<1>1. \E i \in S : \A j \in S : closes[j] < closes[i] \/ (closes[j] = closes[i] /\ j <= i)
  BY TypesAre, LastHighestExists
<1> QED
  BY <1>1 DEF LastHighest

(* Whatever was restated, the recovered peak is the highest close of the   *)
(* cycle so far.                                                           *)
LEMMA RecoveredPeakIs ==
  ASSUME TypeInv, cycles # <<>>
  PROVE  /\ RecoveredPeak \in Active.anchor..Active.evaluated
         /\ \A i \in Active.anchor..Active.evaluated : closes[i] <= closes[RecoveredPeak]
<1>1. ActiveId \in 1..Len(cycles)
  <2>1. Len(cycles) # 0
    BY TypesAre
  <2> QED
    BY <2>1, TypesAre DEF ActiveId
<1>2. /\ Active.anchor \in Nat /\ Active.peak \in Nat /\ Active.evaluated \in Nat
      /\ 1 <= Active.anchor /\ Active.anchor <= Active.peak
      /\ Active.peak <= Active.evaluated /\ Active.evaluated <= Len(closes)
  BY <1>1, TypesAre DEF Active
<1> DEFINE S == Active.anchor..Active.evaluated
           top == FirstHighest(S)
<1>3. S \in SUBSET (1..Len(closes)) /\ Active.peak \in S /\ S # {}
  BY <1>2, TypesAre
<1> HIDE DEF S
<1>4. top \in S /\ \A j \in S : closes[j] < closes[top] \/ closes[j] = closes[top]
  BY <1>3, FirstHighestIs
<1>5. \A j \in S : closes[j] \in Nat
  BY <1>3, TypesAre
<1>6. RecoveredPeak = IF closes[top] > closes[Active.peak] THEN top ELSE Active.peak
  BY DEF RecoveredPeak, S
<1> HIDE DEF top
<1>7. RecoveredPeak \in S /\ \A i \in S : closes[i] <= closes[RecoveredPeak]
  BY <1>3, <1>4, <1>5, <1>6
<1> QED
  BY <1>7 DEF S

LEMMA ActiveIs ==
  ASSUME TypeInv, cycles # <<>>
  PROVE  /\ ActiveId \in 1..Len(cycles)
         /\ EvaluatedUpTo = Active.evaluated
         /\ Active.anchor \in Nat /\ Active.peak \in Nat /\ Active.evaluated \in Nat
         /\ 1 <= Active.anchor /\ Active.anchor <= Active.peak
         /\ Active.peak <= Active.evaluated /\ Active.evaluated <= Len(closes)
<1>1. ActiveId \in 1..Len(cycles)
  <2>1. Len(cycles) # 0
    BY TypesAre
  <2> QED
    BY <2>1, TypesAre DEF ActiveId
<1>2. EvaluatedUpTo = Active.evaluated
  BY DEF EvaluatedUpTo
<1> QED
  BY <1>1, <1>2, TypesAre DEF Active

(* The peak after the closes up to d are taken in. *)
TakenIn(d) == FirstHighest({RecoveredPeak} \cup (Active.evaluated + 1) .. d)

LEMMA TakenInIs ==
  ASSUME TypeInv, cycles # <<>>, NEW d \in 1..Len(closes), Active.evaluated < d
  PROVE  /\ TakenIn(d) \in Nat /\ Active.anchor <= TakenIn(d) /\ TakenIn(d) <= d
         /\ \A i \in Active.anchor..d : closes[i] <= closes[TakenIn(d)]
         /\ TakenIn(d) > Active.evaluated =>
              \A i \in Active.anchor..Active.evaluated : closes[i] < closes[TakenIn(d)]
<1> DEFINE S == {RecoveredPeak} \cup (Active.evaluated + 1) .. d
           peak == FirstHighest(S)
           a == Active.anchor
           e == Active.evaluated
<1>1. /\ a \in Nat /\ e \in Nat /\ 1 <= a /\ a <= e /\ e <= Len(closes)
      /\ Len(closes) \in Nat /\ d \in Nat /\ e < d /\ d <= Len(closes)
  BY ActiveIs, TypesAre
<1>2. /\ RecoveredPeak \in a..e
      /\ \A i \in a..e : closes[i] <= closes[RecoveredPeak]
  BY RecoveredPeakIs
<1>3. S \in SUBSET (1..Len(closes)) /\ S # {}
  BY <1>1, <1>2
<1>4. \A i \in 1..Len(closes) : closes[i] \in Nat
  BY TypesAre
<1>5. /\ peak \in S
      /\ \A j \in S : closes[j] < closes[peak] \/ (closes[j] = closes[peak] /\ peak <= j)
  <2> HIDE DEF S
  <2> QED
    BY <1>3, FirstHighestIs
<1>6. TakenIn(d) = peak
  BY DEF TakenIn
<1> HIDE DEF peak, a, e
<1>7. peak \in Nat /\ a <= peak /\ peak <= d
  <2>1. peak = RecoveredPeak \/ peak \in (e + 1) .. d
    BY <1>5 DEF e
  <2> QED
    BY <1>1, <1>2, <2>1
<1>8. ASSUME NEW i \in a..d
      PROVE  closes[i] <= closes[peak]
  <2>0. closes[peak] \in Nat /\ closes[i] \in Nat /\ closes[RecoveredPeak] \in Nat
    BY <1>1, <1>2, <1>4, <1>7
  <2>1. CASE i <= e
    <3>1. closes[i] <= closes[RecoveredPeak]
      BY <1>1, <1>2, <2>1
    <3>2. closes[RecoveredPeak] <= closes[peak]
      BY <1>5, <2>0
    <3> QED
      BY <2>0, <3>1, <3>2
  <2>2. CASE i > e
    <3>1. i \in S
      BY <1>1, <2>2 DEF e
    <3> QED
      BY <1>5, <2>0, <3>1
  <2> QED
    BY <1>1, <2>1, <2>2
<1>9. ASSUME peak > e, NEW i \in a..e
      PROVE  closes[i] < closes[peak]
  <2>0. closes[peak] \in Nat /\ closes[i] \in Nat /\ closes[RecoveredPeak] \in Nat
    BY <1>1, <1>2, <1>4, <1>7
  <2>1. closes[RecoveredPeak] < closes[peak]
    BY <1>1, <1>2, <1>5, <1>7, <1>9
  <2> QED
    BY <1>2, <2>0, <2>1
<1> QED
  BY <1>6, <1>7, <1>8, <1>9 DEF a, e

(* What evaluating the close of d says of the cycle as of that close.      *)
EvaluationFacts(ev, d) ==
  /\ ev.anchor \in Nat /\ ev.peak \in Nat
  /\ 1 <= ev.anchor /\ ev.anchor <= ev.peak /\ ev.peak <= d
  /\ \A i \in ev.anchor..d : closes[i] <= closes[ev.peak]
  /\ ~ ev.fresh => cycles # <<>> /\ ev.anchor = Active.anchor
  /\ ev.fresh /\ cycles # <<>> =>
       /\ ev.anchor > Active.evaluated
       /\ Gains(closes[ev.anchor], closes[Active.anchor], margin)
       /\ \A i \in Active.anchor..Active.evaluated : closes[i] < closes[ev.anchor]

LEMMA EvaluationIs ==
  ASSUME TypeInv, NEW d \in 1..Len(closes), EvaluatedUpTo < d
  PROVE  EvaluationFacts(Evaluation(d), d)
<1>0. d \in Nat /\ 1 <= d /\ d <= Len(closes) /\ Len(closes) \in Nat
  BY TypesAre
<1>1. CASE cycles = <<>>
  <2> DEFINE S == {i \in 1..d : i > d - Lookback}
             peak == LastHighest(S)
             ev == [anchor |-> peak, peak |-> peak, fresh |-> TRUE]
  <2>1. Evaluation(d) = ev
    BY <1>1 DEF Evaluation, Initial
  <2>2. S \in SUBSET (1..Len(closes)) /\ d \in S
    BY <1>0, PlanAssumption
  <2>3. /\ peak \in S
        /\ \A j \in S : closes[j] < closes[peak] \/ (closes[j] = closes[peak] /\ j <= peak)
    <3> HIDE DEF S
    <3> QED
      BY <2>2, LastHighestIs
  <2> HIDE DEF peak
  <2>4. peak \in Nat /\ 1 <= peak /\ peak <= d /\ peak > d - Lookback
    BY <1>0, <2>3
  <2>5. ASSUME NEW i \in peak..d
        PROVE  closes[i] <= closes[peak]
    <3>1. i \in S
      BY <1>0, <2>4, PlanAssumption
    <3>2. closes[i] \in Nat /\ closes[peak] \in Nat
      BY <2>2, <2>3, <3>1, TypesAre
    <3> QED
      BY <2>3, <3>1, <3>2
  <2> QED
    BY <1>1, <2>1, <2>4, <2>5 DEF EvaluationFacts
<1>2. CASE cycles # <<>>
  <2> DEFINE peak == TakenIn(d)
             rec == [anchor |-> Active.anchor, peak |-> peak,
                     fresh |-> peak > Active.evaluated
                               /\ Gains(closes[peak], closes[Active.anchor], margin)]
  <2>1. Recover(d) = rec
    BY DEF Recover, TakenIn
  <2>2. Active.evaluated < d
    BY <1>2, ActiveIs
  <2>3. /\ peak \in Nat /\ Active.anchor <= peak /\ peak <= d
        /\ \A i \in Active.anchor..d : closes[i] <= closes[peak]
        /\ peak > Active.evaluated =>
             \A i \in Active.anchor..Active.evaluated : closes[i] < closes[peak]
    BY <1>2, <2>2, TakenInIs
  <2>4. Active.anchor \in Nat /\ 1 <= Active.anchor
    BY <1>2, ActiveIs
  <2> HIDE DEF peak
  <2>7. rec.fresh \in BOOLEAN
    OBVIOUS
  <2>5. CASE rec.fresh
    <3>1. Evaluation(d) = [rec EXCEPT !.anchor = peak]
      BY <1>2, <2>1, <2>5 DEF Evaluation
    <3>2. \A i \in peak..d : closes[i] <= closes[peak]
      BY <1>0, <2>3, <2>4
    <3>3. /\ Evaluation(d).anchor = peak /\ Evaluation(d).peak = peak /\ Evaluation(d).fresh
          /\ peak > Active.evaluated /\ Gains(closes[peak], closes[Active.anchor], margin)
      BY <2>5, <3>1
    <3>4. 1 <= peak /\ peak <= peak
      BY <2>3, <2>4
    <3> HIDE DEF rec
    <3> QED
      BY <1>2, <2>3, <3>2, <3>3, <3>4 DEF EvaluationFacts
  <2>6. CASE ~ rec.fresh
    <3>1. Evaluation(d) = rec
      BY <1>2, <2>1, <2>6 DEF Evaluation
    <3> QED
      BY <1>2, <2>3, <2>4, <2>6, <3>1 DEF EvaluationFacts
  <2> QED
    BY <2>5, <2>6
<1> QED
  BY <1>1, <1>2

(* The parts of a persisted evaluation, named. *)
CommitId(ev) == IF ev.fresh THEN ActiveId + 1 ELSE ActiveId
CommitRow(ev) == [anchor |-> ev.anchor, peak |-> ev.peak, evaluated |-> job.date]
CommitFacts(ev) == IF job.purpose = "initialize" THEN {} ELSE Crossed(ev, job.date)
CommitShown(ev) == IF job.purpose = "initialize" THEN {} ELSE Actionable(ev, job.date)
CommitEvent(ev) ==
  IF CommitShown(ev) = {} THEN NoEvent
  ELSE [phase |-> "action", cycle |-> CommitId(ev), date |-> job.date,
        tiers |-> CommitShown(ev)]

Commits(ev) ==
  /\ EvaluationFacts(ev, job.date)
  /\ job.date \in 1..Len(closes) /\ EvaluatedUpTo < job.date
  /\ job.step = "evaluate" /\ job.cycle = ActiveId
  /\ CommitId(ev) \in Nat /\ CommitId(ev) >= 1
  /\ CommitId(ev) >= Len(cycles) /\ CommitId(ev) <= Len(cycles) + 1
  /\ CommitRow(ev) \in Cycles
  /\ cycles' \in Seq(Cycles) /\ Len(cycles') = CommitId(ev)
  /\ cycles'[CommitId(ev)] = CommitRow(ev)
  /\ \A c \in 1..(CommitId(ev) - 1) : c \in 1..Len(cycles) /\ cycles'[c] = cycles[c]
  /\ records' = RecordFacts(CommitId(ev), job.date, CommitFacts(ev), CommitEvent(ev))
  /\ events' = events \cup ({CommitEvent(ev)} \ {NoEvent})
  /\ job' = Continue(CommitId(ev))

LEMMA CommitDoes ==
  ASSUME TypeInv, CommitEvaluation
  PROVE  \/ UNCHANGED factVars /\ job' = NoJob
         \/ Commits(Evaluation(job.date))
<1> DEFINE d == job.date
           ev == Evaluation(d)
           id == CommitId(ev)
           row == CommitRow(ev)
           event == CommitEvent(ev)
           goes == StillExpected /\ (event = NoEvent \/ ~ KeyTaken(event))
<1>1. /\ job.step = "evaluate"
      /\ IF goes
         THEN /\ cycles' = IF ev.fresh THEN Append(cycles, row)
                           ELSE [cycles EXCEPT ![ActiveId] = row]
              /\ records' = RecordFacts(id, d, CommitFacts(ev), event)
              /\ events' = events \cup ({event} \ {NoEvent})
              /\ job' = Continue(id)
         ELSE UNCHANGED factVars /\ job' = NoJob
  BY DEF CommitEvaluation, CommitId, CommitRow, CommitFacts, CommitShown, CommitEvent
<1>2. CASE ~ goes
  BY <1>1, <1>2
<1>3. CASE goes
  <2>1. /\ d \in 1..Len(closes) /\ EvaluatedUpTo < d /\ job.cycle = ActiveId
    BY <1>1, <1>3 DEF StillExpected, TypeInv, JobIsTyped
  <2>2. EvaluationFacts(ev, d)
    BY <2>1, EvaluationIs
  <2>3. row \in Cycles
    <3>1. /\ ev.anchor \in 1..Len(closes) /\ ev.peak \in 1..Len(closes)
      BY <2>1, <2>2, TypesAre DEF EvaluationFacts
    <3>2. ev.anchor \in Dates /\ ev.peak \in Dates /\ d \in Dates
      BY <2>1, <3>1, TypesAre
    <3> HIDE DEF ev, d
    <3>3. row = [anchor |-> ev.anchor, peak |-> ev.peak, evaluated |-> d]
      BY DEF CommitRow, d
    <3> QED
      BY <3>2, <3>3 DEF Cycles
  <2>4. /\ cycles \in Seq(Cycles) /\ Len(cycles) \in Nat /\ ActiveId = Len(cycles)
    BY TypesAre DEF ActiveId
  <2>5. /\ id \in Nat /\ id >= 1 /\ id >= Len(cycles) /\ id <= Len(cycles) + 1
        /\ cycles' \in Seq(Cycles) /\ Len(cycles') = id /\ cycles'[id] = row
        /\ \A c \in 1..(id - 1) : c \in 1..Len(cycles) /\ cycles'[c] = cycles[c]
    <3> HIDE DEF ev, row
    <3>1. CASE ev.fresh
      <4>1. id = Len(cycles) + 1 /\ cycles' = Append(cycles, row)
        BY <1>1, <1>3, <2>4, <3>1 DEF CommitId
      <4>2. /\ Append(cycles, row) \in Seq(Cycles) /\ Len(Append(cycles, row)) = Len(cycles) + 1
            /\ \A i \in 1..Len(cycles) : Append(cycles, row)[i] = cycles[i]
            /\ Append(cycles, row)[Len(cycles) + 1] = row
        BY <2>3, <2>4, AppendProperties
      <4> QED
        BY <2>4, <4>1, <4>2
    <3>2. CASE ~ ev.fresh
      <4>1. cycles # <<>>
        BY <2>2, <3>2 DEF EvaluationFacts
      <4>2. Len(cycles) \in 1..Len(cycles)
        BY <4>1, ActiveIs DEF ActiveId
      <4>3. id = Len(cycles) /\ cycles' = [cycles EXCEPT ![Len(cycles)] = row]
        BY <1>1, <1>3, <2>4, <3>2 DEF CommitId
      <4>4. /\ cycles' \in Seq(Cycles) /\ Len(cycles') = Len(cycles)
            /\ \A i \in 1..Len(cycles) : cycles'[i] = IF i = Len(cycles) THEN row ELSE cycles[i]
        BY <2>3, <2>4, <4>2, <4>3, ExceptSeq
      <4> QED
        BY <2>4, <4>2, <4>3, <4>4
    <3> QED
      BY <3>1, <3>2
  <2> QED
    BY <1>1, <1>3, <2>1, <2>2, <2>3, <2>5 DEF Commits
<1> QED
  BY <1>2, <1>3

(* Only a persisted evaluation changes the cycles.                         *)
LEMMA OnlyCommitsPersist ==
  ASSUME TypeInv, [Next]_vars, Persists
  PROVE  CommitEvaluation /\ Commits(Evaluation(job.date)) /\ UNCHANGED marketVars
<1>1. CommitEvaluation
  <2>1. CASE ~ CommitEvaluation
    <3>1. UNCHANGED cycles
      BY <2>1 DEF Next, Checks, Handlers, BeginAfterClose, BeginPreAlert, Quote, Announce,
                  GiveUpQuote, PressSnooze, PressSkip, WriteSnooze, WriteSkip, DraftToday,
                  DraftHistorical, ConfirmAddition, DropDraft, SetRearm, DeleteRule,
                  StartDay, CloseMarket, Crash, vars, factVars
    <3> QED
      BY <3>1 DEF Persists
  <2> QED
    BY <2>1
<1>2. ~ UNCHANGED factVars
  BY DEF Persists, factVars
<1> QED
  BY <1>1, <1>2, CommitDoes DEF CommitEvaluation

LEMMA HighestIs ==
  ASSUME NEW first, NEW last, NEW p \in first..last,
         \A i \in first..last : closes[i] \in Nat /\ closes[i] <= closes[p]
  PROVE  HighestSince(first, last) = closes[p]
<1> DEFINE S == {closes[i] : i \in first..last}
           Is(n) == \A i \in first..last : closes[i] <= n
<1>1. closes[p] \in S /\ Is(closes[p]) /\ S \subseteq Nat
  OBVIOUS
<1>2. \A n \in S : Is(n) => n = closes[p]
  <2> SUFFICES ASSUME NEW n \in S, Is(n) PROVE n = closes[p]
    OBVIOUS
  <2>1. n <= closes[p] /\ closes[p] <= n /\ n \in Nat /\ closes[p] \in Nat
    OBVIOUS
  <2> QED
    BY <2>1
<1>3. HighestSince(first, last) = CHOOSE n \in S : Is(n)
  BY DEF HighestSince
<1> HIDE DEF S, Is
<1> QED
  BY <1>1, <1>2, <1>3

(* The cycle a persisted evaluation leaves behind.                         *)
LEMMA NewRowIs ==
  ASSUME TypeInv, NEW ev, Commits(ev)
  PROVE  /\ NewActive = CommitRow(ev) /\ Len(cycles') = CommitId(ev)
         /\ NewActive.evaluated = job.date /\ NewActive.peak = ev.peak
         /\ NewActive.anchor = ev.anchor
         /\ closes[ev.peak] = HighestSince(NewActive.anchor, NewActive.evaluated)
<1>1. /\ NewActive = CommitRow(ev) /\ Len(cycles') = CommitId(ev)
  BY DEF Commits, NewActive
<1>2. /\ NewActive.evaluated = job.date /\ NewActive.peak = ev.peak
      /\ NewActive.anchor = ev.anchor
  BY <1>1 DEF CommitRow
<1> DEFINE d == job.date
<1>3. /\ ev.anchor \in Nat /\ ev.peak \in Nat /\ d \in Nat /\ d <= Len(closes)
      /\ 1 <= ev.anchor /\ ev.anchor <= ev.peak /\ ev.peak <= d /\ Len(closes) \in Nat
      /\ \A i \in ev.anchor..d : closes[i] <= closes[ev.peak]
  BY TypesAre DEF Commits, EvaluationFacts
<1> HIDE DEF d
<1>4. \A i \in ev.anchor..d : closes[i] \in Nat
  BY <1>3, TypesAre
<1>5. HighestSince(ev.anchor, d) = closes[ev.peak]
  <2>1. ev.peak \in ev.anchor..d
    BY <1>3
  <2> QED
    BY <1>3, <1>4, <2>1, HighestIs
<1> QED
  BY <1>1, <1>2, <1>5 DEF d

LEMMA TypeInvIsTypeOK == TypeInv => TypeOK
<1> SUFFICES ASSUME TypeInv PROVE TypeOK
  OBVIOUS
<1>1. DOMAIN cycles = 1..Len(cycles)
  BY TypesAre
<1>2. job.step \in {"idle", "evaluate", "quote", "announce"}
  BY DEF TypeInv, JobIsTyped, Jobs
<1> QED
  BY <1>1, <1>2 DEF TypeInv, TypeOK, MarketIsTyped, FactsAreTyped, UserIsTyped,
                    PressIsTyped, DraftsAreTyped

LEMMA IdleJobIsTyped ==
  ASSUME TypeInv, job' = NoJob
  PROVE  JobIsTyped'
<1>1. NoJob \in Jobs /\ NoJob.step = "idle"
  BY DEF NoJob, Jobs
<1> QED
  BY <1>1 DEF JobIsTyped

(* A step that leaves the market and the facts alone keeps the types if it *)
(* keeps those of what it changes.                                         *)
LEMMA OthersKeepTypes ==
  ASSUME TypeInv, UNCHANGED <<closes, cycles>>
  PROVE  /\ UNCHANGED <<session, restatements>> => MarketIsTyped'
         /\ UNCHANGED <<records, events>> => FactsAreTyped'
         /\ RowsOrdered'
         /\ UNCHANGED userVars => UserIsTyped'
         /\ UNCHANGED job => JobIsTyped'
         /\ UNCHANGED press => PressIsTyped'
         /\ UNCHANGED drafts => DraftsAreTyped'
<1>1. UNCHANGED <<session, restatements>> => MarketIsTyped'
  BY DEF TypeInv, MarketIsTyped
<1>2. UNCHANGED <<records, events>> => FactsAreTyped'
  BY DEF TypeInv, FactsAreTyped
<1>3. RowsOrdered'
  BY DEF TypeInv, RowsOrdered
<1>4. UNCHANGED userVars => UserIsTyped'
  BY DEF TypeInv, UserIsTyped, userVars
<1>5. UNCHANGED job => JobIsTyped'
  BY DEF TypeInv, JobIsTyped
<1>6. UNCHANGED press => PressIsTyped'
  BY DEF TypeInv, PressIsTyped
<1>7. UNCHANGED drafts => DraftsAreTyped'
  BY DEF TypeInv, DraftsAreTyped
<1> QED
  BY <1>1, <1>2, <1>3, <1>4, <1>5, <1>6, <1>7

LEMMA SuppressedAreTiers ==
  ASSUME TypeInv, NEW c, NEW d
  PROVE  Suppressed(c, d) \in SUBSET Tiers
  BY DEF TypeInv, UserIsTyped, Suppressed, Added

LEMMA ReadingIsTyped ==
  ASSUME TypeInv, NEW purpose \in {"after_close", "initialize", "catch_up"},
         EvaluatedUpTo < Len(closes), job' = Reading(purpose, Len(closes)),
         purpose # "after_close" => session = "open", UNCHANGED <<closes, cycles>>
  PROVE  JobIsTyped'
<1>1. /\ Len(closes) \in Nat /\ Len(closes) \in 1..Len(closes)
      /\ purpose # "after_close" => Len(closes) + 1 \in Dates
  BY TypesAre, PlanAssumption DEF Dates, TypeInv, MarketIsTyped
<1>2. ActiveId \in Nat /\ EvaluatedUpTo \in Nat
  <2>1. CASE cycles = <<>>
    BY <2>1, TypesAre DEF ActiveId, EvaluatedUpTo
  <2>2. CASE cycles # <<>>
    BY <2>2, TypesAre, ActiveIs
  <2> QED
    BY <2>1, <2>2
<1> DEFINE r == Reading(purpose, Len(closes))
<1>3. /\ r \in Jobs /\ r.step = "evaluate" /\ r.purpose = purpose
      /\ r.date = Len(closes) /\ r.evaluated = EvaluatedUpTo
  BY <1>1, <1>2, SuppressedAreTiers DEF Reading, Jobs
<1> HIDE DEF r
<1>4. job' = r
  BY DEF r
<1> QED
  BY <1>1, <1>3, <1>4 DEF JobIsTyped

LEMMA QuoteJobIsTyped ==
  ASSUME TypeInv, NEW purpose \in {"initialize", "catch_up"},
         NEW d \in 1..Len(closes'), d + 1 \in Dates, NEW c \in 1..Len(cycles'),
         job' = [NoJob EXCEPT !.step = "quote", !.purpose = purpose, !.date = d, !.cycle = c]
  PROVE  JobIsTyped'
<1> DEFINE r == [NoJob EXCEPT !.step = "quote", !.purpose = purpose, !.date = d, !.cycle = c]
<1>1. d \in Nat /\ c \in Nat
  OBVIOUS
<1>2. /\ r \in Jobs /\ r.step = "quote" /\ r.purpose = purpose /\ r.date = d /\ r.cycle = c
  BY <1>1 DEF NoJob, Jobs
<1> HIDE DEF r
<1>3. job' = r
  BY DEF r
<1> QED
  BY <1>2, <1>3 DEF JobIsTyped

LEMMA BeginTypes ==
  ASSUME TypeInv, BeginAfterClose \/ BeginPreAlert
  PROVE  TypeInv'
<1>1. /\ UNCHANGED <<marketVars, ruleVars, factVars, userVars, press, drafts, crashes>>
      /\ UNCHANGED <<closes, session, restatements, enabled, margin, cycles, records, events>>
  BY DEF BeginAfterClose, BeginPreAlert, marketVars, ruleVars, factVars
<1>2. JobIsTyped'
  <2>1. CASE BeginAfterClose
    BY <1>1, <2>1, ReadingIsTyped DEF BeginAfterClose
  <2>2. CASE BeginPreAlert
    <3>1. session = "open" /\ Len(closes) \in Nat /\ Len(closes) >= 1
      BY <2>2, TypesAre DEF BeginPreAlert
    <3>2. CASE EvaluatedUpTo >= Len(closes)
      <4>1. cycles # <<>>
        BY <3>1, <3>2 DEF EvaluatedUpTo
      <4>2. ActiveId \in 1..Len(cycles')
        BY <1>1, <4>1, ActiveIs
      <4>3. Len(closes) \in 1..Len(closes') /\ Len(closes) + 1 \in Dates
        BY <1>1, <3>1, PlanAssumption DEF Dates, TypeInv, MarketIsTyped
      <4>4. job' = [NoJob EXCEPT !.step = "quote", !.purpose = "catch_up",
                                 !.date = Len(closes), !.cycle = ActiveId]
        BY <2>2, <3>2 DEF BeginPreAlert
      <4> QED
        BY <4>2, <4>3, <4>4, QuoteJobIsTyped
    <3>3. CASE ~ (EvaluatedUpTo >= Len(closes))
      <4>1. PICK purpose \in {"initialize", "catch_up"} : job' = Reading(purpose, Len(closes))
        BY <2>2, <3>3 DEF BeginPreAlert
      <4>2. EvaluatedUpTo \in Nat
        BY ActiveIs DEF EvaluatedUpTo
      <4>3. EvaluatedUpTo < Len(closes)
        BY <3>1, <3>3, <4>2
      <4> QED
        BY <1>1, <3>1, <4>1, <4>3, ReadingIsTyped
    <3> QED
      BY <3>2, <3>3
  <2> QED
    BY <2>1, <2>2
<1> QED
  BY <1>1, <1>2, OthersKeepTypes DEF TypeInv

LEMMA QuoteTypes ==
  ASSUME TypeInv, NEW p \in Prices, Quote(p)
  PROVE  TypeInv'
<1>1. /\ UNCHANGED <<marketVars, ruleVars, factVars, userVars, press, drafts, crashes>>
      /\ UNCHANGED <<closes, session, restatements, enabled, margin, cycles, records, events>>
  BY DEF Quote, marketVars, ruleVars, factVars
<1>2. JobIsTyped'
  <2>1. CASE job' = NoJob
    BY <2>1, IdleJobIsTyped
  <2>2. CASE job' # NoJob
    <3> DEFINE tiers == Reached(p, closes[RecoveredPeak])
                        \ Suppressed(job.cycle, job.date + 1)
    <3>1. job.step = "quote" /\ job' = [job EXCEPT !.step = "announce", !.tiers = tiers]
      BY <2>2 DEF Quote
    <3>2. tiers \in SUBSET Tiers
      BY DEF Reached
    <3> HIDE DEF tiers
    <3>3. job \in Jobs
      BY DEF TypeInv, JobIsTyped
    <3>4. /\ job' \in Jobs /\ job'.step = "announce" /\ job'.purpose = job.purpose
          /\ job'.date = job.date /\ job'.cycle = job.cycle
      BY <3>1, <3>2, <3>3 DEF Jobs
    <3> QED
      BY <1>1, <3>1, <3>4 DEF TypeInv, JobIsTyped
  <2> QED
    BY <2>1, <2>2
<1> QED
  BY <1>1, <1>2, OthersKeepTypes DEF TypeInv

LEMMA AnnounceTypes ==
  ASSUME TypeInv, Announce
  PROVE  TypeInv'
<1> DEFINE event == [phase |-> "pre_alert", cycle |-> job.cycle, date |-> job.date + 1,
                     tiers |-> job.tiers]
<1>1. /\ UNCHANGED <<userVars, press, drafts, crashes>>
      /\ UNCHANGED <<closes, session, restatements, enabled, margin, cycles, records>>
      /\ job' = NoJob /\ events' \in {events, events \cup {event}}
  BY DEF Announce, marketVars, ruleVars
<1>2. event \in Events /\ event.cycle \in 1..Len(cycles)
  <2>1. /\ job \in Jobs /\ job.cycle \in 1..Len(cycles) /\ job.date + 1 \in Dates
    BY DEF Announce, TypeInv, JobIsTyped
  <2> QED
    BY <2>1 DEF Events, Jobs
<1> HIDE DEF event
<1>3. FactsAreTyped'
  BY <1>1, <1>2 DEF TypeInv, FactsAreTyped
<1>4. JobIsTyped'
  BY <1>1, IdleJobIsTyped
<1> QED
  BY <1>1, <1>3, <1>4, OthersKeepTypes DEF TypeInv

LEMMA MoreCycles ==
  ASSUME TypeInv, Len(cycles') \in Nat, Len(cycles) <= Len(cycles'),
         UNCHANGED <<userVars, press, drafts>>
  PROVE  UserIsTyped' /\ PressIsTyped' /\ DraftsAreTyped'
<1>1. 1..Len(cycles) \subseteq 1..Len(cycles')
  BY TypesAre
<1>2. UserIsTyped'
  BY <1>1 DEF TypeInv, UserIsTyped, userVars
<1>3. PressIsTyped'
  BY <1>1 DEF TypeInv, PressIsTyped
<1>4. DraftsAreTyped'
  BY <1>1 DEF TypeInv, DraftsAreTyped
<1> QED
  BY <1>2, <1>3, <1>4

LEMMA CommitTypes ==
  ASSUME TypeInv, CommitEvaluation
  PROVE  TypeInv'
<1>0. /\ UNCHANGED <<userVars, press, drafts, crashes>>
      /\ UNCHANGED <<closes, session, restatements, enabled, margin>>
  BY DEF CommitEvaluation, marketVars, ruleVars
<1>1. CASE UNCHANGED factVars /\ job' = NoJob
  <2>1. UNCHANGED <<cycles, records, events>> /\ JobIsTyped'
    BY <1>1, IdleJobIsTyped DEF factVars
  <2> QED
    BY <1>0, <2>1, OthersKeepTypes DEF TypeInv
<1>2. CASE Commits(Evaluation(job.date))
  <2> DEFINE ev == Evaluation(job.date)
             id == CommitId(ev)
             facts == CommitFacts(ev)
             shown == CommitShown(ev)
             event == CommitEvent(ev)
  <2>0. Commits(ev)
    BY <1>2
  <2> HIDE DEF ev
  <2>1. /\ EvaluationFacts(ev, job.date)
        /\ job.date \in 1..Len(closes) /\ job.step = "evaluate"
        /\ id \in Nat /\ id >= 1 /\ id >= Len(cycles) /\ id <= Len(cycles) + 1
        /\ CommitRow(ev) \in Cycles
        /\ cycles' \in Seq(Cycles) /\ Len(cycles') = id
        /\ cycles'[id] = CommitRow(ev)
        /\ \A c \in 1..(id - 1) : c \in 1..Len(cycles) /\ cycles'[c] = cycles[c]
        /\ records' = RecordFacts(id, job.date, facts, event)
        /\ events' = events \cup ({event} \ {NoEvent})
        /\ job' = Continue(id)
    BY <2>0 DEF Commits
  <2>2. job.date \in Dates /\ job.date \in Nat
    BY <2>1, TypesAre
  <2>3. facts \subseteq Tiers /\ shown \subseteq Tiers
    BY DEF CommitFacts, CommitShown, Crossed, Actionable, Reached
  <2>4. event = NoEvent \/ (event \in Events /\ event.cycle = id)
    <3>1. event = NoEvent \/ event = [phase |-> "action", cycle |-> id, date |-> job.date,
                                      tiers |-> shown]
      BY DEF CommitEvent
    <3> HIDE DEF id, shown, event
    <3> QED
      BY <2>1, <2>2, <2>3, <3>1 DEF Events
  <2> HIDE DEF id, facts, shown, event
  <2>5. FactsAreTyped'
    <3>1. events' \subseteq Events /\ events \subseteq events'
          /\ (event # NoEvent => event \in events')
      BY <2>1, <2>4 DEF TypeInv, FactsAreTyped
    <3>2. 1..Len(cycles) \subseteq 1..Len(cycles') /\ id \in 1..Len(cycles')
      BY <2>1, TypesAre
    <3>3. \A e \in events' : e.cycle \in 1..Len(cycles')
      BY <2>1, <2>4, <3>2 DEF TypeInv, FactsAreTyped
    <3> DEFINE new(t) == [cycle |-> id, tier |-> t, source |-> "close_confirmed",
                          date |-> job.date,
                          event |-> IF event # NoEvent /\ t \in event.tiers THEN event
                                    ELSE NoEvent]
    <3>4. \A r \in records' : r \in records \/ \E t \in facts : r = new(t)
      BY <2>1 DEF RecordFacts
    <3>5. ASSUME NEW r \in records'
          PROVE  /\ r.cycle \in 1..Len(cycles') /\ r.tier \in Tiers
                 /\ r.source \in {"close_confirmed", "user_marked_added"}
                 /\ r.date \in Dates /\ r.event \in events' \cup {NoEvent}
      <4>1. CASE r \in records
        BY <3>1, <3>2, <4>1 DEF TypeInv, FactsAreTyped
      <4>2. CASE \E t \in facts : r = new(t)
        BY <2>2, <2>3, <3>1, <3>2, <4>2
      <4> QED
        BY <3>4, <4>1, <4>2
    <3> QED
      BY <2>1, <3>1, <3>3, <3>5 DEF FactsAreTyped
  <2>6. RowsOrdered'
    <3>1. /\ CommitRow(ev).anchor <= CommitRow(ev).peak
          /\ CommitRow(ev).peak <= CommitRow(ev).evaluated
          /\ CommitRow(ev).evaluated <= Len(closes)
      BY <2>1, TypesAre DEF EvaluationFacts, CommitRow
    <3>2. DOMAIN cycles' = 1..id
      BY <2>1
    <3>3. ASSUME NEW c \in 1..id
          PROVE  /\ cycles'[c].anchor <= cycles'[c].peak
                 /\ cycles'[c].peak <= cycles'[c].evaluated
                 /\ cycles'[c].evaluated <= Len(closes)
      <4>1. CASE c = id
        BY <2>1, <3>1, <4>1
      <4>2. CASE c # id
        <5>1. c \in 1..(id - 1)
          BY <2>1, <4>2
        <5>2. c \in 1..Len(cycles) /\ cycles'[c] = cycles[c]
          BY <2>1, <5>1
        <5> QED
          BY <5>2, TypesAre
      <4> QED
        BY <4>1, <4>2
    <3> QED
      BY <1>0, <3>2, <3>3 DEF RowsOrdered
  <2>7. JobIsTyped'
    <3>1. CASE job' = NoJob
      BY <3>1, IdleJobIsTyped
    <3>2. CASE job' # NoJob
      <4>1. /\ job.purpose # "after_close"
            /\ job' = [NoJob EXCEPT !.step = "quote", !.purpose = job.purpose,
                                    !.date = job.date, !.cycle = id]
        BY <2>1, <3>2 DEF Continue
      <4>2. job \in Jobs /\ job.date + 1 \in Dates
        BY <2>1, <4>1 DEF TypeInv, JobIsTyped
      <4>3. job.purpose \in {"none", "initialize", "catch_up"}
        BY <4>1, <4>2 DEF Jobs
      <4>4. /\ job.date \in 1..Len(closes') /\ id \in 1..Len(cycles')
        BY <1>0, <2>1
      <4> DEFINE r == [NoJob EXCEPT !.step = "quote", !.purpose = job.purpose,
                                    !.date = job.date, !.cycle = id]
      <4>5. /\ r \in Jobs /\ r.step = "quote" /\ r.purpose = job.purpose
            /\ r.date = job.date /\ r.cycle = id
        BY <2>1, <2>2, <4>3 DEF NoJob, Jobs
      <4> HIDE DEF r
      <4>6. job' = r
        BY <4>1 DEF r
      <4> QED
        BY <4>1, <4>2, <4>4, <4>5, <4>6 DEF JobIsTyped
    <3> QED
      BY <3>1, <3>2
  <2>8. MarketIsTyped'
    BY <1>0 DEF TypeInv, MarketIsTyped
  <2>9. UserIsTyped' /\ PressIsTyped' /\ DraftsAreTyped'
    BY <1>0, <2>1, MoreCycles
  <2> QED
    BY <1>0, <2>5, <2>6, <2>7, <2>8, <2>9 DEF TypeInv
<1> QED
  BY <1>1, <1>2, CommitDoes

LEMMA TodayIs ==
  ASSUME TypeInv
  PROVE  Today \in Dates /\ Today \in Nat /\ Len(closes) <= Today
BY TypesAre, PlanAssumption DEF Dates, Today, TypeInv, MarketIsTyped

LEMMA ButtonsAre ==
  ASSUME TypeInv, NEW e, ButtonsWork(e)
  PROVE  ActiveId \in 1..Len(cycles) /\ ActiveId \in Nat /\ e.tiers \subseteq Tiers
<1>1. e \in Events /\ e.cycle \in 1..Len(cycles) /\ e.cycle = ActiveId
  BY DEF ButtonsWork, TypeInv, FactsAreTyped
<1> QED
  BY <1>1 DEF Events

LEMMA PressTypes ==
  ASSUME TypeInv, NEW e \in events, PressSnooze(e) \/ PressSkip(e)
  PROVE  TypeInv'
<1>1. /\ UNCHANGED <<userVars, job, drafts, crashes>>
      /\ UNCHANGED <<closes, session, restatements, enabled, margin, cycles, records, events>>
  BY DEF PressSnooze, PressSkip, marketVars, ruleVars, factVars
<1>2. \E k \in {"snooze", "skip"}, T \in SUBSET Tiers :
        press' = [kind |-> k, cycle |-> ActiveId, date |-> Today, tiers |-> T]
  <2>1. CASE PressSnooze(e)
    <3>1. e.tiers \subseteq Tiers
      BY <2>1, ButtonsAre DEF PressSnooze
    <3> QED
      BY <2>1, <3>1 DEF PressSnooze
  <2>2. CASE PressSkip(e)
    <3>1. e.tiers \subseteq Tiers
      BY <2>2, ButtonsAre DEF PressSkip
    <3>2. PICK chosen \in {e.tiers} \cup {{t} : t \in e.tiers} :
            press' = [kind |-> "skip", cycle |-> ActiveId, date |-> Today,
                      tiers |-> chosen \ Added(ActiveId)]
      BY <2>2 DEF PressSkip
    <3>3. chosen \ Added(ActiveId) \in SUBSET Tiers
      BY <3>1
    <3> QED
      BY <3>2, <3>3
  <2> QED
    BY <2>1, <2>2
<1>3. ActiveId \in 1..Len(cycles) /\ ActiveId \in Nat
  BY ButtonsAre DEF PressSnooze, PressSkip
<1>4. PressIsTyped'
  BY <1>1, <1>2, <1>3, TodayIs DEF PressIsTyped, Presses
<1> QED
  BY <1>1, <1>4, OthersKeepTypes DEF TypeInv

LEMMA WriteTypes ==
  ASSUME TypeInv, WriteSnooze \/ WriteSkip
  PROVE  TypeInv'
<1>1. /\ UNCHANGED <<added, job, drafts, crashes>> /\ press' = NoPress
      /\ UNCHANGED <<closes, session, restatements, enabled, margin, cycles, records, events>>
  BY DEF WriteSnooze, WriteSkip, marketVars, ruleVars, factVars
<1>2. press \in Presses /\ press.cycle \in 1..Len(cycles)
  BY DEF WriteSnooze, WriteSkip, NoPress, TypeInv, PressIsTyped
<1>3. press.tiers \subseteq Tiers /\ press.date \in Dates
  BY <1>2 DEF Presses
<1>4. UserIsTyped'
  <2>1. skipped' \subseteq (1..Len(cycles)) \X Tiers
    BY <1>2, <1>3 DEF WriteSnooze, WriteSkip, TypeInv, UserIsTyped
  <2>2. snoozed' \subseteq (1..Len(cycles)) \X Tiers \X Dates
    BY <1>2, <1>3 DEF WriteSnooze, WriteSkip, TypeInv, UserIsTyped
  <2> QED
    BY <1>1, <2>1, <2>2 DEF TypeInv, UserIsTyped
<1>5. PressIsTyped'
  BY <1>1 DEF PressIsTyped
<1> QED
  BY <1>1, <1>4, <1>5, OthersKeepTypes DEF TypeInv

LEMMA OneMoreDraft ==
  ASSUME TypeInv, Cardinality(drafts) < MaxDrafts, NEW f \in Drafts,
         f.cycle \in 1..Len(cycles), drafts' = drafts \cup {f}, UNCHANGED cycles
  PROVE  DraftsAreTyped'
<1>1. IsFiniteSet(drafts) /\ Cardinality(drafts) \in Nat
  BY FS_CardinalityType DEF TypeInv, DraftsAreTyped
<1>2. /\ IsFiniteSet(drafts \cup {f})
      /\ Cardinality(drafts \cup {f}) \in {Cardinality(drafts), Cardinality(drafts) + 1}
  BY <1>1, FS_AddElement
<1>3. Cardinality(drafts') <= MaxDrafts
  BY <1>1, <1>2, PlanAssumption
<1> QED
  BY <1>2, <1>3 DEF TypeInv, DraftsAreTyped

LEMMA OneDraftLess ==
  ASSUME TypeInv, NEW f \in drafts, drafts' = drafts \ {f}, UNCHANGED cycles
  PROVE  DraftsAreTyped'
<1>1. IsFiniteSet(drafts) /\ Cardinality(drafts) \in Nat /\ Cardinality(drafts) <= MaxDrafts
  BY FS_CardinalityType DEF TypeInv, DraftsAreTyped
<1>2. IsFiniteSet(drafts') /\ Cardinality(drafts') = Cardinality(drafts) - 1
  BY <1>1, FS_RemoveElement
<1>3. Cardinality(drafts') <= MaxDrafts
  BY <1>1, <1>2, PlanAssumption
<1> QED
  BY <1>2, <1>3 DEF TypeInv, DraftsAreTyped

LEMMA DraftTypes ==
  ASSUME TypeInv, NEW tiers \in SUBSET Tiers,
         \/ \E e \in events : DraftToday(e, tiers)
         \/ \E d \in Dates : DraftHistorical(d, tiers)
  PROVE  TypeInv'
<1>1. /\ UNCHANGED <<userVars, job, press, crashes>> /\ Cardinality(drafts) < MaxDrafts
      /\ UNCHANGED <<closes, session, restatements, enabled, margin, cycles, records, events>>
  BY DEF DraftToday, DraftHistorical, marketVars, ruleVars, factVars
<1>2. ActiveId \in 1..Len(cycles) /\ ActiveId \in Nat
  BY ButtonsAre, ActiveIs, TypesAre DEF DraftToday, DraftHistorical
<1>3. PICK d \in Dates, h \in BOOLEAN :
        drafts' = drafts \cup {[cycle |-> ActiveId, date |-> d, historical |-> h,
                                tiers |-> tiers]}
  BY TodayIs DEF DraftToday, DraftHistorical
<1> DEFINE f == [cycle |-> ActiveId, date |-> d, historical |-> h, tiers |-> tiers]
<1>4. f \in Drafts /\ f.cycle \in 1..Len(cycles)
  BY <1>2 DEF Drafts
<1> HIDE DEF f
<1>5. drafts' = drafts \cup {f}
  BY <1>3 DEF f
<1>6. DraftsAreTyped'
  BY <1>1, <1>4, <1>5, OneMoreDraft
<1> QED
  BY <1>1, <1>6, OthersKeepTypes DEF TypeInv

LEMMA ConfirmTypes ==
  ASSUME TypeInv, NEW f \in drafts, ConfirmAddition(f)
  PROVE  TypeInv'
<1> DEFINE new == f.tiers \ Added(f.cycle)
<1>1. /\ UNCHANGED <<snoozed, job, press, crashes>> /\ drafts' = drafts \ {f}
      /\ UNCHANGED <<closes, session, restatements, enabled, margin, cycles, events>>
      /\ added' = added \cup {[cycle |-> f.cycle, tier |-> t, date |-> f.date] : t \in new}
      /\ skipped' \subseteq skipped
      /\ records' = MarkRecords(f.cycle, f.date, new)
  BY DEF ConfirmAddition, marketVars, ruleVars
<1>2. /\ f.cycle \in 1..Len(cycles) /\ f.date \in Dates /\ new \subseteq Tiers
  <2>1. f \in Drafts /\ f.cycle \in 1..Len(cycles)
    BY DEF TypeInv, DraftsAreTyped
  <2> QED
    BY <2>1 DEF Drafts
<1> HIDE DEF new
<1>3. UserIsTyped'
  BY <1>1, <1>2 DEF TypeInv, UserIsTyped
<1>4. FactsAreTyped'
  <2>1. \A r \in records' : \/ r \in records
                            \/ \E t \in new : r = [cycle |-> f.cycle, tier |-> t,
                                  source |-> "user_marked_added", date |-> f.date,
                                  event |-> NoEvent]
    BY <1>1 DEF MarkRecords
  <2> QED
    BY <1>1, <1>2, <2>1 DEF TypeInv, FactsAreTyped
<1>5. DraftsAreTyped'
  BY <1>1, OneDraftLess
<1> QED
  BY <1>1, <1>3, <1>4, <1>5, OthersKeepTypes DEF TypeInv

LEMMA PlainHandlerTypes ==
  ASSUME TypeInv,
         \/ \E f \in drafts : DropDraft(f)
         \/ \E m \in Margins : SetRearm(m)
         \/ DeleteRule
         \/ GiveUpQuote
  PROVE  TypeInv'
<1>1. /\ UNCHANGED <<userVars, press, crashes>>
      /\ UNCHANGED <<closes, session, restatements, cycles, records, events>>
  BY DEF DropDraft, SetRearm, DeleteRule, GiveUpQuote, marketVars, factVars
<1>2. enabled' \in BOOLEAN /\ margin' \in Margins
  BY DEF DropDraft, SetRearm, DeleteRule, GiveUpQuote, ruleVars, TypeInv
<1>3. DraftsAreTyped'
  BY <1>1, OneDraftLess, OthersKeepTypes DEF DropDraft, SetRearm, DeleteRule, GiveUpQuote
<1>4. JobIsTyped'
  BY <1>1, IdleJobIsTyped, OthersKeepTypes DEF DropDraft, SetRearm, DeleteRule, GiveUpQuote
<1> QED
  BY <1>1, <1>2, <1>3, <1>4, OthersKeepTypes DEF TypeInv

(* More closes, or other prices on the same days.                          *)
LEMMA MoreCloses ==
  ASSUME TypeInv, Len(closes') \in Nat, Len(closes) <= Len(closes'),
         UNCHANGED <<ruleVars, factVars, userVars, job, press, drafts, crashes>>,
         MarketIsTyped'
  PROVE  TypeInv'
<1>1. UNCHANGED <<enabled, margin, cycles, records, events>>
  BY DEF ruleVars, factVars
<1>2. RowsOrdered'
  <2>1. \A c \in DOMAIN cycles : cycles[c].evaluated \in Nat
    BY TypesAre
  <2> QED
    BY <1>1, <2>1, TypesAre DEF TypeInv, RowsOrdered
<1>3. JobIsTyped'
  <2>1. 1..Len(closes) \subseteq 1..Len(closes')
    BY TypesAre
  <2> QED
    BY <1>1, <2>1 DEF TypeInv, JobIsTyped
<1>4. FactsAreTyped'
  BY <1>1 DEF TypeInv, FactsAreTyped
<1>5. UserIsTyped' /\ PressIsTyped' /\ DraftsAreTyped'
  BY <1>1, TypesAre, MoreCycles
<1> QED
  BY <1>1, <1>2, <1>3, <1>4, <1>5 DEF TypeInv

LEMMA StartDayTypes ==
  ASSUME TypeInv, StartDay
  PROVE  TypeInv'
<1>1. /\ UNCHANGED <<ruleVars, factVars, userVars, job, press, drafts, crashes>>
      /\ session' = "open" /\ Len(closes) < MaxDate
  BY DEF StartDay
<1>2. closes' \in Seq(Nat) /\ Len(closes') = Len(closes) /\ restatements' \in 0..MaxRestatements
  <2>1. CASE UNCHANGED <<closes, restatements>>
    BY <2>1 DEF TypeInv, MarketIsTyped
  <2>2. CASE ~ UNCHANGED <<closes, restatements>>
    <3>1. PICK x \in DOMAIN closes :
            closes' = [i \in DOMAIN closes |->
                         IF i <= x THEN (closes[i] * (100 - Payout)) \div 100 ELSE closes[i]]
      BY <2>2 DEF StartDay
    <3>2. restatements' = restatements + 1 /\ restatements < MaxRestatements
      BY <2>2 DEF StartDay
    <3>3. DOMAIN closes = 1..Len(closes) /\ Len(closes) \in Nat
      BY TypesAre
    <3>4. 100 - Payout \in Nat
      BY PlanAssumption
    <3>5. \A n, k \in Nat : (n * k) \div 100 \in Nat
      <4>1. \A n, k \in Nat : n * k \in Nat
        OBVIOUS
      <4>2. \A n \in Nat : n \div 100 \in Nat
        OBVIOUS
      <4> QED
        BY <4>1, <4>2
    <3>6. \A i \in 1..Len(closes) :
            (IF i <= x THEN (closes[i] * (100 - Payout)) \div 100 ELSE closes[i]) \in Nat
      BY <3>4, <3>5, TypesAre
    <3>7. closes' \in [1..Len(closes) -> Nat]
      BY <3>1, <3>3, <3>6
    <3>8. closes' \in Seq(Nat) /\ Len(closes') = Len(closes)
      BY <3>3, <3>7
    <3> QED
      BY <3>2, <3>8, PlanAssumption DEF TypeInv, MarketIsTyped
  <2> QED
    BY <2>1, <2>2
<1>3. MarketIsTyped'
  BY <1>1, <1>2, TypesAre, PlanAssumption DEF MarketIsTyped
<1> QED
  BY <1>1, <1>2, <1>3, TypesAre, MoreCloses

LEMMA CloseMarketTypes ==
  ASSUME TypeInv, NEW p \in Prices, CloseMarket(p)
  PROVE  TypeInv'
<1>1. /\ UNCHANGED <<ruleVars, factVars, userVars, job, press, drafts, crashes, restatements>>
      /\ session' = "closed" /\ session = "open" /\ closes' = Append(closes, p)
  BY DEF CloseMarket
<1>2. p \in Nat
  BY PlanAssumption
<1>3. closes' \in Seq(Nat) /\ Len(closes') = Len(closes) + 1 /\ Len(closes) \in Nat
  BY <1>1, <1>2, TypesAre, AppendProperties
<1>4. MarketIsTyped'
  BY <1>1, <1>3, PlanAssumption DEF TypeInv, MarketIsTyped
<1> QED
  BY <1>1, <1>3, <1>4, MoreCloses

LEMMA CrashTypes ==
  ASSUME TypeInv, Crash
  PROVE  TypeInv'
<1>1. /\ UNCHANGED userVars /\ job' = NoJob /\ press' = NoPress /\ drafts' = {}
      /\ UNCHANGED <<closes, session, restatements, enabled, margin, cycles, records, events>>
      /\ crashes < MaxCrashes /\ crashes' = crashes + 1
  BY DEF Crash, marketVars, ruleVars, factVars
<1>2. PressIsTyped'
  BY <1>1 DEF PressIsTyped
<1>3. DraftsAreTyped'
  BY <1>1, FS_EmptySet, PlanAssumption DEF DraftsAreTyped
<1>4. crashes' \in 0..MaxCrashes
  BY <1>1, PlanAssumption DEF TypeInv
<1> QED
  BY <1>1, <1>2, <1>3, <1>4, IdleJobIsTyped, OthersKeepTypes DEF TypeInv

LEMMA InitTypes == Init => TypeInv
<1> SUFFICES ASSUME Init PROVE TypeInv
  OBVIOUS
<1>1. MarketIsTyped
  <2>1. closes \in [1..History -> Prices] /\ History \in Nat /\ 1 <= History
    BY PlanAssumption DEF Init
  <2>2. closes \in [1..History -> Nat]
    BY <2>1, PlanAssumption
  <2>3. closes \in Seq(Nat) /\ Len(closes) = History
    BY <2>1, <2>2
  <2> QED
    BY <2>1, <2>3, PlanAssumption DEF Init, MarketIsTyped
<1>2. cycles \in Seq(Cycles) /\ DOMAIN cycles = {}
  BY EmptySeq DEF Init
<1>3. FactsAreTyped /\ UserIsTyped /\ RowsOrdered /\ PressIsTyped
  BY <1>2 DEF Init, FactsAreTyped, UserIsTyped, RowsOrdered, PressIsTyped
<1>4. JobIsTyped
  <2>1. NoJob \in Jobs /\ NoJob.step = "idle"
    BY DEF NoJob, Jobs
  <2> QED
    BY <2>1 DEF Init, JobIsTyped
<1>5. DraftsAreTyped
  BY FS_EmptySet, PlanAssumption DEF Init, DraftsAreTyped
<1> QED
  BY <1>1, <1>3, <1>4, <1>5, PlanAssumption DEF Init, TypeInv

LEMMA NextTypes == TypeInv /\ [Next]_vars => TypeInv'
<1> SUFFICES ASSUME TypeInv, [Next]_vars PROVE TypeInv'
  OBVIOUS
<1>1. CASE Checks
  BY <1>1, BeginTypes, CommitTypes, QuoteTypes, AnnounceTypes, PlainHandlerTypes DEF Checks
<1>2. CASE Handlers
  BY <1>2, PressTypes, WriteTypes, DraftTypes, ConfirmTypes, PlainHandlerTypes DEF Handlers
<1>3. CASE UNCHANGED vars
  <2>1. /\ UNCHANGED <<userVars, job, press, drafts, crashes>>
        /\ UNCHANGED <<closes, session, restatements, enabled, margin, cycles, records, events>>
    BY <1>3 DEF vars, marketVars, ruleVars, factVars
  <2> QED
    BY <2>1, OthersKeepTypes DEF TypeInv
<1> QED
  BY <1>1, <1>2, <1>3, StartDayTypes, CloseMarketTypes, CrashTypes DEF Next

LEMMA TypesHold == Spec => []TypeInv
  BY InitTypes, NextTypes, PTL DEF Spec

(* Every row, draft and press keeps its type, every id in a table is that  *)
(* of a cycle there is, and no more confirmations are open than the bound: *)
(* the reads and writes of checks.py 381-810 and db.py 2248-2773.          *)
THEOREM TypeCorrect == Spec => []TypeOK
  BY TypesHold, TypeInvIsTypeOK, PTL

(* After every persisted evaluation the stored peak is the highest close   *)
(* since the anchor, whatever days were missed and whatever was restated   *)
(* before: _recover_cycle and _initial_peak (rules/drawdown_plan.py).      *)
THEOREM PeaksAreHighest == Spec => PeakIsHighest
<1> DEFINE True == Persists =>
      closes[NewActive.peak] = HighestSince(NewActive.anchor, NewActive.evaluated)
<1>1. TypeInv /\ [Next]_vars => [True]_vars
  <2> SUFFICES ASSUME TypeInv, [Next]_vars, Persists PROVE True
    OBVIOUS
  <2>1. Commits(Evaluation(job.date))
    BY OnlyCommitsPersist
  <2> QED
    BY <2>1, NewRowIs
<1> QED
  BY <1>1, TypesHold, PTL DEF Spec, PeakIsHighest

(* A cycle ends only at a close that was not evaluated before, that gains  *)
(* the margin on the anchor and exceeds every close of the cycle:          *)
(* _recover_cycle's second loop (rules/drawdown_plan.py).                  *)
THEOREM OnlyHighsRearm == Spec => RearmOnlyByNewHigh
<1> DEFINE True == Len(cycles') > Len(cycles) /\ cycles # <<>> =>
       /\ NewActive.anchor > Active.evaluated
       /\ Gains(closes[NewActive.anchor], closes[Active.anchor], margin)
       /\ HighestSince(Active.anchor, Active.evaluated) < closes[NewActive.anchor]
<1>1. TypeInv /\ [Next]_vars => [True]_vars
  <2> SUFFICES ASSUME TypeInv, [Next]_vars, Len(cycles') > Len(cycles), cycles # <<>>
               PROVE  /\ NewActive.anchor > Active.evaluated
                      /\ Gains(closes[NewActive.anchor], closes[Active.anchor], margin)
                      /\ HighestSince(Active.anchor, Active.evaluated) < closes[NewActive.anchor]
    OBVIOUS
  <2> DEFINE ev == Evaluation(job.date)
             a == Active.anchor
             e == Active.evaluated
  <2>1. Commits(ev)
    <3>1. Persists
      BY TypesAre DEF Persists
    <3> QED
      BY <3>1, OnlyCommitsPersist
  <2> HIDE DEF ev
  <2>2. NewActive.anchor = ev.anchor /\ Len(cycles') = CommitId(ev)
    BY <2>1, NewRowIs
  <2>3. ev.fresh
    <3>1. Len(cycles) \in Nat
      BY TypesAre
    <3> QED
      BY <2>2, <3>1 DEF CommitId, ActiveId
  <2>4. /\ ev.anchor > e
        /\ Gains(closes[ev.anchor], closes[a], margin)
        /\ \A i \in a..e : closes[i] < closes[ev.anchor]
    BY <2>1, <2>3 DEF Commits, EvaluationFacts
  <2>5. a \in Nat /\ e \in Nat /\ 1 <= a /\ a <= e /\ e <= Len(closes) /\ Len(closes) \in Nat
    BY ActiveIs, TypesAre
  <2>6. HighestSince(a, e) = closes[RecoveredPeak] /\ RecoveredPeak \in a..e
    <3>1. /\ RecoveredPeak \in a..e
          /\ \A i \in a..e : closes[i] <= closes[RecoveredPeak]
      BY RecoveredPeakIs
    <3>2. \A i \in a..e : closes[i] \in Nat
      BY <2>5, TypesAre
    <3> HIDE DEF a, e
    <3> QED
      BY <3>1, <3>2, HighestIs
  <2> QED
    BY <2>2, <2>4, <2>6
<1> QED
  BY <1>1, TypesHold, PTL DEF Spec, RearmOnlyByNewHigh

(* Every tier the close reaches is recorded as confirmed when its          *)
(* evaluation is persisted, in the old cycle or the new one:               *)
(* persist_drawdown_plan_evaluation (db.py 4046-4419).                     *)
THEOREM ReachedAreRecorded == Spec => ReachedTiersRecorded
<1> DEFINE True == Persists /\ job.purpose # "initialize" =>
       \A t \in ReachedAtNewDate : \E r \in records' :
         /\ r.cycle = Len(cycles') /\ r.tier = t /\ r.source = "close_confirmed"
<1>1. TypeInv /\ [Next]_vars => [True]_vars
  <2> SUFFICES ASSUME TypeInv, [Next]_vars, Persists, job.purpose # "initialize",
                      NEW t \in ReachedAtNewDate
               PROVE  \E r \in records' :
                        /\ r.cycle = Len(cycles') /\ r.tier = t
                        /\ r.source = "close_confirmed"
    OBVIOUS
  <2> DEFINE ev == Evaluation(job.date)
             id == CommitId(ev)
             facts == CommitFacts(ev)
             event == CommitEvent(ev)
  <2>1. Commits(ev)
    BY OnlyCommitsPersist
  <2> HIDE DEF ev
  <2>2. t \in Reached(closes[job.date], closes[ev.peak]) /\ Len(cycles') = id
    BY <2>1, NewRowIs DEF ReachedAtNewDate
  <2>3. records' = RecordFacts(id, job.date, facts, event)
    BY <2>1 DEF Commits
  <2>4. t \in facts \/ (~ ev.fresh /\ t \in Recorded(ActiveId))
    BY <2>2 DEF CommitFacts, Crossed
  <2>5. ~ ev.fresh => id = ActiveId
    BY DEF CommitId
  <2> HIDE DEF id, facts, event
  <2>6. CASE t \in facts
    <3> DEFINE r == [cycle |-> id, tier |-> t, source |-> "close_confirmed",
                     date |-> job.date,
                     event |-> IF event # NoEvent /\ t \in event.tiers THEN event ELSE NoEvent]
    <3>1. r \in records'
      BY <2>3, <2>6 DEF RecordFacts
    <3> QED
      BY <2>2, <3>1
  <2>7. CASE t \notin facts
    <3>1. PICK r \in records : r.cycle = id /\ r.source = "close_confirmed" /\ r.tier = t
      BY <2>4, <2>5, <2>7 DEF Recorded
    <3>2. r \in records'
      BY <2>3, <2>7, <3>1 DEF RecordFacts
    <3> QED
      BY <2>2, <3>1, <3>2
  <2> QED
    BY <2>6, <2>7
<1> QED
  BY <1>1, TypesHold, PTL DEF Spec, ReachedTiersRecorded

(* What an evaluation found hidden stays explained until it writes: a tier *)
(* of its cycle is added, skipped, or snoozed for its date or a later one. *)
Excused(t, d) ==
  \/ t \in Added(ActiveId)
  \/ <<ActiveId, t>> \in skipped
  \/ \E s \in snoozed : s[1] = ActiveId /\ s[2] = t /\ s[3] >= d

HiddenAreExcused ==
  job.step = "evaluate" /\ job.cycle = ActiveId =>
    \A t \in job.hidden : Excused(t, job.date)

(* Time only goes on: no snooze is for a later date than a button pressed. *)
SnoozesArePast ==
  /\ \A s \in snoozed : s[3] <= Today
  /\ press # NoPress => press.date <= Today /\ \A s \in snoozed : s[3] <= press.date

ExcuseInv == TypeInv /\ HiddenAreExcused /\ SnoozesArePast

LEMMA TodayGoesOn ==
  ASSUME TypeInv, [Next]_vars
  PROVE  Today' \in Nat /\ Today <= Today'
<1>1. Len(closes) \in Nat /\ Today \in Nat
  BY TypesAre, TodayIs
<1>2. CASE StartDay
  <2>1. DOMAIN closes' = DOMAIN closes /\ closes' \in Seq(Nat)
    <3>1. MarketIsTyped'
      BY NextTypes DEF TypeInv
    <3> QED
      BY <1>2, <3>1, TypesAre DEF StartDay, MarketIsTyped
  <2>2. Len(closes') = Len(closes)
    BY <1>1, <2>1, TypesAre
  <2> QED
    BY <1>1, <1>2, <2>2 DEF StartDay, Today
<1>3. CASE \E p \in Prices : CloseMarket(p)
  <2>1. PICK p \in Prices : CloseMarket(p)
    BY <1>3
  <2>2. Len(closes') = Len(closes) + 1
    <3>1. p \in Nat
      BY PlanAssumption
    <3> QED
      BY <2>1, <3>1, TypesAre, AppendProperties DEF CloseMarket
  <2> QED
    BY <1>1, <2>1, <2>2 DEF CloseMarket, Today
<1>4. CASE ~ StartDay /\ ~ \E p \in Prices : CloseMarket(p)
  <2>1. UNCHANGED marketVars
    BY <1>4 DEF Next, Checks, Handlers, BeginAfterClose, BeginPreAlert, CommitEvaluation,
                Quote, Announce, GiveUpQuote, PressSnooze, PressSkip, WriteSnooze, WriteSkip,
                DraftToday, DraftHistorical, ConfirmAddition, DropDraft, SetRearm,
                DeleteRule, Crash, vars
  <2> QED
    BY <1>1, <2>1 DEF Today, marketVars
<1> QED
  BY <1>2, <1>3, <1>4

LEMMA SnoozesStep ==
  ASSUME ExcuseInv, [Next]_vars
  PROVE  SnoozesArePast'
<1>0. /\ TypeInv /\ SnoozesArePast /\ Today \in Nat /\ Today' \in Nat /\ Today <= Today'
  BY TodayGoesOn, TodayIs DEF ExcuseInv
<1>1. \A s \in snoozed : s[3] \in Nat
  BY <1>0 DEF TypeInv, UserIsTyped, Dates
<1>2. CASE \E e \in events : PressSnooze(e) \/ PressSkip(e)
  <2>1. snoozed' = snoozed /\ press'.date = Today
    BY <1>2 DEF PressSnooze, PressSkip, userVars
  <2> QED
    BY <1>0, <1>1, <2>1 DEF SnoozesArePast
<1>3. CASE WriteSnooze \/ WriteSkip
  <2>1. press # NoPress /\ press' = NoPress
    BY <1>3 DEF WriteSnooze, WriteSkip, NoPress
  <2>2. press.date \in Nat /\ press.date <= Today
    BY <1>0, <2>1 DEF TypeInv, PressIsTyped, Presses, Dates, SnoozesArePast
  <2>3. \A s \in snoozed' : s \in snoozed \/ s[3] = press.date
    BY <1>3 DEF WriteSnooze, WriteSkip
  <2>4. \A s \in snoozed' : s[3] <= Today'
    BY <1>0, <1>1, <2>2, <2>3 DEF SnoozesArePast
  <2> QED
    BY <2>1, <2>4 DEF SnoozesArePast
<1>4. CASE /\ ~ \E e \in events : PressSnooze(e) \/ PressSkip(e)
           /\ ~ (WriteSnooze \/ WriteSkip)
  <2>1. UNCHANGED snoozed /\ press' \in {press, NoPress}
    BY <1>4 DEF Next, Checks, Handlers, BeginAfterClose, BeginPreAlert, CommitEvaluation,
                Quote, Announce, GiveUpQuote, DraftToday, DraftHistorical, ConfirmAddition,
                DropDraft, SetRearm, DeleteRule, StartDay, CloseMarket, Crash, vars, userVars
  <2>2. press # NoPress => press.date \in Nat
    BY <1>0 DEF TypeInv, PressIsTyped, Presses, Dates
  <2> QED
    BY <1>0, <1>1, <2>1, <2>2 DEF SnoozesArePast
<1> QED
  BY <1>2, <1>3, <1>4

(* A button that ends a snooze replaces it by a later one or by a skip;    *)
(* recording an addition has to wait.                                      *)
LEMMA ExcusedStay ==
  ASSUME ExcuseInv, [Next]_vars, UNCHANGED cycles,
         ~ \E f \in drafts : ConfirmAddition(f),
         NEW t, NEW d \in Nat, Excused(t, d)
  PROVE  Excused(t, d)'
<1>0. TypeInv /\ SnoozesArePast /\ ActiveId' = ActiveId
  BY DEF ExcuseInv, ActiveId
<1>1. added' = added
  BY DEF Next, Checks, Handlers, BeginAfterClose, BeginPreAlert, CommitEvaluation,
         Quote, Announce, GiveUpQuote, PressSnooze, PressSkip, WriteSnooze, WriteSkip,
         DraftToday, DraftHistorical, DropDraft, SetRearm, DeleteRule,
         StartDay, CloseMarket, Crash, vars, userVars
<1>2. CASE t \in Added(ActiveId)
  BY <1>0, <1>1, <1>2 DEF Excused, Added
<1>3. skipped \subseteq skipped'
  BY DEF Next, Checks, Handlers, BeginAfterClose, BeginPreAlert, CommitEvaluation,
         Quote, Announce, GiveUpQuote, PressSnooze, PressSkip, WriteSnooze, WriteSkip,
         DraftToday, DraftHistorical, DropDraft, SetRearm, DeleteRule,
         StartDay, CloseMarket, Crash, vars, userVars
<1>4. CASE <<ActiveId, t>> \in skipped
  BY <1>0, <1>3, <1>4 DEF Excused
<1>5. CASE \E s \in snoozed : s[1] = ActiveId /\ s[2] = t /\ s[3] >= d
  <2>1. PICK s \in snoozed : s[1] = ActiveId /\ s[2] = t /\ s[3] >= d
    BY <1>5
  <2>2. CASE s \in snoozed'
    BY <1>0, <2>1, <2>2 DEF Excused
  <2>3. CASE s \notin snoozed'
    <3>1. WriteSnooze \/ WriteSkip
      BY <2>1, <2>3
      DEF Next, Checks, Handlers, BeginAfterClose, BeginPreAlert, CommitEvaluation,
          Quote, Announce, GiveUpQuote, PressSnooze, PressSkip,
          DraftToday, DraftHistorical, DropDraft, SetRearm, DeleteRule,
          StartDay, CloseMarket, Crash, vars, userVars
    <3>2. press.cycle = ActiveId /\ t \in press.tiers /\ press # NoPress
      BY <2>1, <2>3, <3>1 DEF WriteSnooze, WriteSkip, NoPress
    <3>3. s[3] \in Nat /\ press.date \in Nat /\ s[3] <= press.date
      BY <1>0, <2>1, <3>2 DEF TypeInv, UserIsTyped, PressIsTyped, Presses, Dates,
                              SnoozesArePast
    <3>4. CASE WriteSkip
      <4>1. <<ActiveId, t>> \in skipped'
        BY <3>2, <3>4 DEF WriteSkip
      <4> QED
        BY <1>0, <4>1 DEF Excused
    <3>5. CASE WriteSnooze
      <4> DEFINE n == <<ActiveId, t, press.date>>
      <4>1. n \in snoozed' /\ n[1] = ActiveId /\ n[2] = t /\ n[3] = press.date
        BY <3>2, <3>5 DEF WriteSnooze
      <4>2. press.date >= d
        BY <2>1, <3>3
      <4> HIDE DEF n
      <4> QED
        BY <1>0, <4>1, <4>2 DEF Excused
    <3> QED
      BY <3>1, <3>4, <3>5
  <2> QED
    BY <2>2, <2>3
<1> QED
  BY <1>2, <1>4, <1>5 DEF Excused

LEMMA HiddenStep ==
  ASSUME ExcuseInv, [Next]_vars
  PROVE  HiddenAreExcused'
<1>0. TypeInv
  BY DEF ExcuseInv
<1>1. CASE BeginAfterClose \/ BeginPreAlert
  <2>1. UNCHANGED <<cycles, added, skipped, snoozed>>
    BY <1>1 DEF BeginAfterClose, BeginPreAlert, factVars, userVars
  <2>2. CASE \E purpose : job' = Reading(purpose, Len(closes))
    <3>1. /\ job'.hidden = Suppressed(ActiveId, Len(closes)) /\ job'.date = Len(closes)
          /\ Len(closes) \in Nat
      BY <1>0, <2>2, TypesAre DEF Reading
    <3>2. ASSUME NEW t \in Suppressed(ActiveId, Len(closes))
          PROVE  Excused(t, Len(closes))
      <4>1. CASE <<ActiveId, t, Len(closes)>> \in snoozed
        <5> DEFINE s == <<ActiveId, t, Len(closes)>>
        <5>1. s \in snoozed /\ s[1] = ActiveId /\ s[2] = t /\ s[3] >= Len(closes)
          BY <3>1, <4>1
        <5> QED
          BY <5>1 DEF Excused
      <4> QED
        BY <4>1 DEF Suppressed, Excused
    <3> QED
      BY <2>1, <3>1, <3>2 DEF HiddenAreExcused, Excused, Added, ActiveId
  <2>3. CASE ~ \E purpose : job' = Reading(purpose, Len(closes))
    <3>1. job'.step = "quote"
      BY <1>1, <2>3 DEF BeginAfterClose, BeginPreAlert, NoJob
    <3> QED
      BY <3>1 DEF HiddenAreExcused
  <2> QED
    BY <2>2, <2>3
<1>2. CASE CommitEvaluation \/ (\E p \in Prices : Quote(p)) \/ Announce \/ GiveUpQuote \/ Crash
  <2>1. job'.step # "evaluate"
    <3>1. CASE CommitEvaluation
      <4>1. job' = NoJob \/ \E id : job' = Continue(id)
        BY <1>0, <3>1, CommitDoes DEF Commits
      <4>2. ASSUME NEW id
            PROVE  Continue(id).step # "evaluate"
        BY DEF Continue, NoJob
      <4>3. NoJob.step # "evaluate"
        BY DEF NoJob
      <4> QED
        BY <4>1, <4>2, <4>3
    <3>2. CASE \E p \in Prices : Quote(p)
      <4>1. PICK p \in Prices : Quote(p)
        BY <3>2
      <4>2. job \in Jobs
        BY <1>0 DEF TypeInv, JobIsTyped
      <4>3. \E T : job' = NoJob \/ job' = [job EXCEPT !.step = "announce", !.tiers = T]
        BY <4>1 DEF Quote
      <4>4. PICK T : job' = NoJob \/ job' = [job EXCEPT !.step = "announce", !.tiers = T]
        BY <4>3
      <4>5. CASE job' = NoJob
        BY <4>5 DEF NoJob
      <4>6. CASE job' = [job EXCEPT !.step = "announce", !.tiers = T]
        <5>1. job'.step = "announce"
          BY <4>2, <4>6 DEF Jobs
        <5> QED
          BY <5>1
      <4> QED
        BY <4>4, <4>5, <4>6
    <3> QED
      BY <1>2, <3>1, <3>2 DEF Announce, GiveUpQuote, Crash, NoJob
  <2> QED
    BY <2>1 DEF HiddenAreExcused
<1>3. CASE /\ ~ BeginAfterClose /\ ~ BeginPreAlert /\ ~ CommitEvaluation
           /\ ~ \E p \in Prices : Quote(p)
           /\ ~ Announce /\ ~ GiveUpQuote /\ ~ Crash
  <2>1. UNCHANGED <<job, cycles>>
    BY <1>3 DEF Next, Checks, Handlers, PressSnooze, PressSkip, WriteSnooze, WriteSkip,
                DraftToday, DraftHistorical, ConfirmAddition, DropDraft, SetRearm,
                DeleteRule, StartDay, CloseMarket, vars, factVars
  <2> SUFFICES ASSUME job.step = "evaluate", job.cycle = ActiveId, NEW t \in job.hidden
               PROVE  Excused(t, job.date)'
    BY <2>1 DEF HiddenAreExcused, ActiveId
  <2>2. ~ \E f \in drafts : ConfirmAddition(f)
    BY DEF ConfirmAddition, Eligible, LockFree
  <2>3. job.date \in Nat /\ Excused(t, job.date)
    BY <1>0 DEF ExcuseInv, HiddenAreExcused, TypeInv, JobIsTyped, Jobs
  <2> DEFINE d == job.date
  <2> HIDE DEF d
  <2>4. Excused(t, job.date)'
    BY <2>1, <2>2, <2>3, ExcusedStay
  <2> QED
    BY <2>4
<1> QED
  BY <1>1, <1>2, <1>3

LEMMA ExcuseHolds == Spec => []ExcuseInv
<1>1. Init => ExcuseInv
  <2>1. Init => HiddenAreExcused /\ SnoozesArePast
    BY DEF Init, HiddenAreExcused, SnoozesArePast, NoJob
  <2> QED
    BY <2>1, InitTypes DEF ExcuseInv
<1>2. ExcuseInv /\ [Next]_vars => ExcuseInv'
  <2> SUFFICES ASSUME ExcuseInv, [Next]_vars PROVE ExcuseInv'
    OBVIOUS
  <2>1. TypeInv'
    BY NextTypes DEF ExcuseInv
  <2> QED
    BY <2>1, HiddenStep, SnoozesStep DEF ExcuseInv
<1> QED
  BY <1>1, <1>2, PTL DEF Spec

(* Every tier the close reaches is reminded of by the evaluation, unless   *)
(* the user added, skipped or snoozed it, although snoozing and skipping   *)
(* take no lock and run beside it (checks.py 381-470, db.py 2248-2393).    *)
THEOREM PendingAreReminded == Spec => PendingTiersReminded
<1> DEFINE Told(t) ==
         \/ \E e \in events' : /\ e.phase = "action" /\ e.cycle = Len(cycles')
                               /\ e.date = NewActive.evaluated /\ t \in e.tiers
         \/ \E a \in added : a.cycle = Len(cycles') /\ a.tier = t
         \/ <<Len(cycles'), t>> \in skipped
         \/ \E s \in snoozed : s[1] = Len(cycles') /\ s[2] = t /\ s[3] >= NewActive.evaluated
           True == Persists /\ job.purpose # "initialize" =>
                     \A t \in ReachedAtNewDate : Told(t)
<1>1. ExcuseInv /\ [Next]_vars => [True]_vars
  <2> SUFFICES ASSUME ExcuseInv, [Next]_vars, Persists, job.purpose # "initialize",
                      NEW t \in ReachedAtNewDate
               PROVE  Told(t)
    OBVIOUS
  <2> DEFINE ev == Evaluation(job.date)
             id == CommitId(ev)
             event == CommitEvent(ev)
  <2>0. TypeInv /\ HiddenAreExcused
    BY DEF ExcuseInv
  <2>1. Commits(ev)
    BY <2>0, OnlyCommitsPersist
  <2> HIDE DEF ev
  <2>2. /\ t \in Reached(closes[job.date], closes[ev.peak]) /\ Len(cycles') = id
        /\ NewActive.evaluated = job.date
    BY <2>0, <2>1, NewRowIs DEF ReachedAtNewDate
  <2>3. /\ events' = events \cup ({event} \ {NoEvent})
        /\ job.step = "evaluate" /\ job.cycle = ActiveId
    BY <2>1 DEF Commits
  <2>4. t \in CommitShown(ev) \/ (~ ev.fresh /\ t \in job.hidden)
    BY <2>2 DEF CommitShown, Actionable
  <2>5. CASE t \in CommitShown(ev)
    <3>1. event = [phase |-> "action", cycle |-> id, date |-> job.date,
                   tiers |-> CommitShown(ev)]
      BY <2>5 DEF CommitEvent
    <3>2. event # NoEvent
      <4>1. event \in Events
        <5>1. /\ id \in Nat /\ job.date \in Dates /\ CommitShown(ev) \subseteq Tiers
          BY <2>0, <2>1, TypesAre DEF Commits, CommitShown, Actionable, Reached
        <5> HIDE DEF id, event
        <5> QED
          BY <3>1, <5>1 DEF Events
      <4> QED
        BY <4>1, NoEventAssumption
    <3>3. event \in events' /\ event.phase = "action" /\ event.cycle = id
          /\ event.date = job.date /\ t \in event.tiers
      <4>1. event \in events'
        BY <2>3, <3>2
      <4> HIDE DEF id
      <4> QED
        BY <2>5, <3>1, <4>1
    <3> HIDE DEF id, event
    <3> QED
      BY <2>2, <3>3
  <2>6. CASE ~ ev.fresh /\ t \in job.hidden
    <3>1. Excused(t, job.date) /\ Len(cycles') = ActiveId
      BY <2>0, <2>2, <2>3, <2>6 DEF HiddenAreExcused, CommitId
    <3> HIDE DEF id, event
    <3> QED
      BY <2>2, <3>1 DEF Excused, Added
  <2> QED
    BY <2>4, <2>5, <2>6
<1> QED
  BY <1>1, ExcuseHolds, PTL DEF Spec, PendingTiersReminded
=============================================================================
