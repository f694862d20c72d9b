------------------------ MODULE StandardDrawdownProofs ------------------------
(***************************************************************************)
(* Theorems about StandardDrawdown, for every value of its constants.      *)
(***************************************************************************)
EXTENDS StandardDrawdown, NaturalExtrema

USE StandardAssumption

-----------------------------------------------------------------------------
(* Price rows: functions from days to prices.                              *)

LEMMA RowsAre ==
  ASSUME NEW f
  PROVE  f \in PriceRows <=> /\ f = [d \in DOMAIN f |-> f[d]]
                             /\ DOMAIN f \subseteq Days
                             /\ \A d \in DOMAIN f : f[d] \in Prices
<1>1. ASSUME f \in PriceRows
      PROVE  /\ f = [d \in DOMAIN f |-> f[d]] /\ DOMAIN f \subseteq Days
             /\ \A d \in DOMAIN f : f[d] \in Prices
  <2>1. PICK S \in SUBSET Days : f \in [S -> Prices]
    BY <1>1 DEF PriceRows
  <2> QED
    BY <2>1
<1>2. ASSUME f = [d \in DOMAIN f |-> f[d]], DOMAIN f \subseteq Days,
             \A d \in DOMAIN f : f[d] \in Prices
      PROVE  f \in PriceRows
  <2>1. f \in [DOMAIN f -> Prices]
    BY <1>2
  <2> QED
    BY <1>2, <2>1 DEF PriceRows
<1> QED
  BY <1>1, <1>2

LEMMA NothingIs == Nothing \in PriceRows /\ DOMAIN Nothing = {}
  BY RowsAre DEF Nothing

LEMMA RestrictionIs ==
  ASSUME NEW f \in PriceRows, NEW days
  PROVE  /\ Restriction(f, days) \in PriceRows
         /\ DOMAIN Restriction(f, days) = DOMAIN f \cap days
         /\ \A d \in DOMAIN f \cap days : Restriction(f, days)[d] = f[d]
<1> DEFINE g == Restriction(f, days)
<1>1. g = [d \in DOMAIN f \cap days |-> f[d]]
  BY DEF Restriction
<1> HIDE DEF g
<1>2. DOMAIN g = DOMAIN f \cap days /\ \A d \in DOMAIN f \cap days : g[d] = f[d]
  BY <1>1
<1>3. g = [d \in DOMAIN g |-> g[d]]
  BY <1>1
<1>4. g \in PriceRows
  BY <1>2, <1>3, RowsAre
<1> QED
  BY <1>2, <1>4 DEF g

LEMMA MergedIs ==
  ASSUME NEW f \in PriceRows, NEW g \in PriceRows
  PROVE  /\ Merged(f, g) \in PriceRows
         /\ DOMAIN Merged(f, g) = DOMAIN f \cup DOMAIN g
         /\ \A d \in DOMAIN f \cup DOMAIN g :
              Merged(f, g)[d] = IF d \in DOMAIN g THEN g[d] ELSE f[d]
<1> DEFINE h == Merged(f, g)
<1>1. h = [d \in DOMAIN f \cup DOMAIN g |-> IF d \in DOMAIN g THEN g[d] ELSE f[d]]
  BY DEF Merged
<1> HIDE DEF h
<1>2. /\ DOMAIN h = DOMAIN f \cup DOMAIN g
      /\ \A d \in DOMAIN f \cup DOMAIN g : h[d] = IF d \in DOMAIN g THEN g[d] ELSE f[d]
  BY <1>1
<1>3. h = [d \in DOMAIN h |-> h[d]]
  BY <1>1
<1>4. h \in PriceRows
  BY <1>2, <1>3, RowsAre
<1> QED
  BY <1>2, <1>4 DEF h

LEMMA FirstAndLast ==
  ASSUME NEW f \in PriceRows, DOMAIN f # {}
  PROVE  /\ First(f) \in DOMAIN f /\ \A d \in DOMAIN f : First(f) <= d
         /\ Last(f) \in DOMAIN f /\ \A d \in DOMAIN f : d <= Last(f)
<1>1. DOMAIN f \subseteq Nat /\ \A d \in DOMAIN f : d <= MaxDay
  BY RowsAre DEF Days
<1>2. \E d \in DOMAIN f : \A e \in DOMAIN f : d <= e
  BY <1>1, LeastNatural
<1>3. \E d \in DOMAIN f : \A e \in DOMAIN f : e <= d
  BY <1>1, GreatestNatural
<1> QED
  BY <1>2, <1>3 DEF First, Last

LEMMA PeakIs ==
  ASSUME NEW w \in PriceRows, DOMAIN w # {}
  PROVE  /\ Peak(w) \in DOMAIN w
         /\ \A d \in DOMAIN w : w[d] < w[Peak(w)] \/ (w[d] = w[Peak(w)] /\ Peak(w) <= d)
<1>1. DOMAIN w \subseteq 1..MaxDay /\ \A d \in DOMAIN w : w[d] \in Nat
  BY RowsAre DEF Days
<1>2. \E d \in DOMAIN w : \A e \in DOMAIN w : w[e] < w[d] \/ (w[e] = w[d] /\ d <= e)
  BY <1>1, FirstHighestExists
<1> QED
  BY <1>2 DEF Peak

-----------------------------------------------------------------------------
(* The rules and the calendar.                                             *)

RuleRow == [lookback : Lookbacks, enabled : BOOLEAN]

LEMMA RulesAre ==
  ASSUME TypeOK
  PROVE  /\ Len(rules) \in Nat /\ Enabled \subseteq 1..Len(rules)
         /\ \A r \in 1..Len(rules) : rules[r] \in RuleRow /\ rules[r].lookback \in Lookbacks
<1>1. rules \in Seq(RuleRow)
  BY DEF TypeOK, RuleRow
<1>2. \A r \in 1..Len(rules) : rules[r] \in RuleRow
  BY <1>1
<1>3. \A x \in RuleRow : x.lookback \in Lookbacks
  BY DEF RuleRow
<1> QED
  BY <1>1, <1>2, <1>3 DEF Enabled

LEMMA WidestIs ==
  ASSUME TypeOK, Enabled # {}
  PROVE  Widest \in Lookbacks /\ \A r \in Enabled : rules[r].lookback <= Widest
<1> DEFINE f == [r \in Enabled |-> rules[r].lookback]
<1>1. Enabled \subseteq 1..Len(rules) /\ Len(rules) \in Nat
  BY RulesAre
<1>3. \A r \in Enabled : rules[r].lookback \in Lookbacks /\ f[r] = rules[r].lookback
  BY RulesAre
<1>4. \A r \in Enabled : f[r] \in Nat
  BY <1>3
<1> HIDE DEF f
<1>5. \E r \in Enabled : \A s \in Enabled : f[s] <= f[r]
  BY <1>1, <1>4, HighestExists
<1>6. \E l \in {rules[r].lookback : r \in Enabled} : \A r \in Enabled : rules[r].lookback <= l
  BY <1>3, <1>5
<1>7. /\ Widest \in {rules[r].lookback : r \in Enabled}
      /\ \A r \in Enabled : rules[r].lookback <= Widest
  BY <1>6 DEF Widest
<1> QED
  BY <1>3, <1>7

LEMMA ConfirmedIs ==
  ASSUME today \in Days
  PROVE  /\ Confirmed \in Nat /\ Confirmed < today
         /\ \A d \in OpenDays : d < today => d <= Confirmed
         /\ Confirmed # None => Confirmed \in OpenDays
<1> DEFINE past == OpenDays \cap (1..today - 1)
<1>1. today \in Nat /\ today >= 1 /\ past \subseteq Nat /\ \A d \in past : d <= today
  BY DEF Days
<1>2. \A d \in OpenDays : d < today => d \in past
  BY <1>1
<1>3. CASE past = {}
  <2>1. Confirmed = 0
    BY <1>3 DEF Confirmed, None
  <2> HIDE DEF past
  <2> QED
    BY <1>1, <1>3, <1>2, <2>1 DEF None
<1>4. CASE past # {}
  <2>1. \E d \in past : \A e \in past : e <= d
    <3> HIDE DEF past
    <3> QED
      BY <1>1, <1>4, GreatestNatural
  <2>2. Confirmed \in past /\ \A e \in past : e <= Confirmed
    BY <1>4, <2>1 DEF Confirmed
  <2> QED
    BY <1>1, <1>2, <2>2
<1> QED
  BY <1>3, <1>4

-----------------------------------------------------------------------------
(* What is always true of closes, the provider and the stored history.     *)

MarketFacts ==
  /\ ~evening => today \notin DOMAIN closes
  /\ \A d \in DOMAIN history : d <= published
  /\ HistoryIsOfCloses

(* The rows of f that are closes: all but one of the running session. *)
OfCloses(f) ==
  \A d \in DOMAIN f : /\ d <= today
                      /\ evening \/ d < today => d \in DOMAIN closes /\ f[d] = closes[d]

GoodRow(row) == row \in PriceRows /\ OfCloses(row)

GoodRequest(q, spot) ==
  /\ q.stored \in Days /\ q.stored <= today /\ q.end \in Days /\ q.end <= today
  /\ evening \/ (q.stored < today /\ spot \in Prices)
  /\ q.need \in {None, q.stored}
  /\ q.strict \in BOOLEAN /\ (q.strict => q.need # None)
  /\ q.strict \/ q.need = None \/ q.end = q.stored

LEMMA TypesAre ==
  ASSUME TypeOK
  PROVE  /\ today \in Days /\ today \in Nat /\ today >= 1 /\ evening \in BOOLEAN
         /\ closes \in PriceRows /\ history \in PriceRows
         /\ DOMAIN closes \subseteq OpenDays /\ \A d \in DOMAIN closes : d <= today
         /\ published \in Nat /\ published <= today
         /\ published # 0 => published \in DOMAIN closes
<1>1. /\ today \in Days /\ evening \in BOOLEAN /\ closes \in PriceRows /\ history \in PriceRows
      /\ DOMAIN closes \subseteq OpenDays \cap (1..today) /\ published \in {0} \cup DOMAIN closes
  BY DEF TypeOK
<1>2. today \in Nat /\ today >= 1
  BY <1>1 DEF Days
<1> QED
  BY <1>1, <1>2

(* What a request gets from the provider. *)
LEMMA ServedIs ==
  ASSUME TypeOK, MarketFacts, NEW q, NEW spot, GoodRequest(q, spot), NEW from \in Int
  PROVE  LET f == Served(from, q.end, spot)
         IN /\ f \in PriceRows /\ OfCloses(f)
            /\ \A d \in DOMAIN f : from <= d /\ d <= q.end /\ (d <= q.stored => d <= published)
            /\ \A d \in DOMAIN closes : from <= d /\ d <= q.end /\ d <= published
                                         => d \in DOMAIN f
            /\ published = 0 /\ q.end < today => DOMAIN f = {}
<1> DEFINE f == Served(from, q.end, spot)
           days == ({c \in DOMAIN closes : c <= published} \cup InProgress) \cap (from..q.end)
<1>1. f = [d \in days |-> IF d \in DOMAIN closes THEN closes[d] ELSE spot]
  BY DEF Served
<1>2. /\ DOMAIN f = days /\ f = [d \in DOMAIN f |-> f[d]]
      /\ \A d \in days : f[d] = IF d \in DOMAIN closes THEN closes[d] ELSE spot
  BY <1>1
<1>3. q.end \in Nat /\ q.end <= today /\ q.stored <= today
  BY DEF GoodRequest, Days
<1>4. /\ InProgress \subseteq {today} /\ (evening => InProgress = {})
  BY TypesAre DEF InProgress
<1>5. /\ DOMAIN closes \subseteq Days /\ \A d \in DOMAIN closes : closes[d] \in Prices
      /\ \A d \in Days : d \in Nat
  BY TypesAre, RowsAre DEF Days
<1>6. \A d \in days : d \in Days /\ from <= d /\ d <= q.end /\ d <= today
  BY <1>3, <1>4, <1>5, TypesAre
<1>7. \A d \in days : d \notin DOMAIN closes => d = today /\ ~evening
  BY <1>4, TypesAre
<1>8. \A d \in days : f[d] \in Prices
  BY <1>2, <1>5, <1>7 DEF GoodRequest
<1>9. f \in PriceRows
  BY <1>2, <1>6, <1>8, RowsAre
<1>10. OfCloses(f)
  BY <1>2, <1>6, <1>7, TypesAre DEF OfCloses
<1>11. \A d \in days : d <= q.stored => d <= published
  <2> SUFFICES ASSUME NEW d \in days, d <= q.stored PROVE d <= published
    OBVIOUS
  <2>1. CASE evening
    BY <1>4, <2>1
  <2>2. CASE ~evening
    BY <1>4, <2>2, TypesAre, <1>3 DEF GoodRequest, Days
  <2> QED
    BY <2>1, <2>2
<1>12. \A d \in DOMAIN closes : from <= d /\ d <= q.end /\ d <= published => d \in days
  BY <1>3, <1>5
<1>13. published = 0 /\ q.end < today => days = {}
  <2> SUFFICES ASSUME published = 0, q.end < today, NEW d \in days PROVE FALSE
    OBVIOUS
  <2>1. d # today
    BY <1>3, TypesAre
  <2>2. d \in DOMAIN closes /\ d <= 0
    BY <1>4, <2>1
  <2> QED
    BY <1>5, <2>2 DEF Days
<1> QED
  BY <1>2, <1>6, <1>9, <1>10, <1>11, <1>12, <1>13

HistoryGood(rows) ==
  /\ rows \in PriceRows
  /\ \A d \in DOMAIN rows : d <= published /\ d \in DOMAIN closes /\ rows[d] = closes[d]

(* No close from a day on is missing before the last row. *)
Filled(rows, from) ==
  \A d \in DOMAIN closes, e \in DOMAIN rows : from <= d /\ d <= e => d \in DOMAIN rows

(* The history after everything fetched was added to it. *)
LEMMA AddedRows ==
  ASSUME TypeOK, MarketFacts, NEW q, NEW spot, GoodRequest(q, spot), StorageStart \in Int
  PROVE  LET fetched == Served(FetchStart(View(history, q)), q.end, spot)
             rows == Merged(history, Persisted(fetched, q))
         IN /\ HistoryGood(rows) /\ DOMAIN history \subseteq DOMAIN rows
            /\ Filled(history, StorageStart) => Filled(rows, StorageStart)
            /\ fetched \in PriceRows /\ OfCloses(fetched)
            /\ \A d \in DOMAIN fetched : StorageStart <= d /\ d <= q.end
            /\ \A d \in DOMAIN fetched : d <= q.stored => d \in DOMAIN rows
            /\ published = 0 /\ q.end < today => DOMAIN fetched = {}
<1> DEFINE v == View(history, q)
           from == FetchStart(v)
           fetched == Served(from, q.end, spot)
           new == Persisted(fetched, q)
           rows == Merged(history, new)
<1>1. /\ q.stored \in Nat /\ q.stored <= today /\ q.end \in Nat /\ q.end <= today
      /\ evening \/ q.stored < today
      /\ today \in Nat
  BY TypesAre DEF GoodRequest, Days
<1>2. v \in PriceRows /\ DOMAIN v \subseteq DOMAIN history
  BY TypesAre, RestrictionIs DEF View
<1>3. \A d \in Days : d \in Nat
  BY DEF Days
<1>4. /\ from \in Int /\ StorageStart <= from
      /\ from = StorageStart \/ (\E e \in DOMAIN history : from <= e)
  <2>1. CASE from = StorageStart
    BY <2>1
  <2>2. CASE from # StorageStart
    <3>1. DOMAIN v # {} /\ from = Last(v) - Overlap /\ Last(v) - Overlap > StorageStart
      BY <2>2 DEF FetchStart
    <3>2. Last(v) \in DOMAIN history /\ Last(v) \in Nat
      BY <1>2, <1>3, <3>1, FirstAndLast, RowsAre
    <3> QED
      BY <3>1, <3>2
  <2> QED
    BY <2>1, <2>2
<1> HIDE DEF from
<1>5. /\ fetched \in PriceRows /\ OfCloses(fetched)
      /\ \A d \in DOMAIN fetched : from <= d /\ d <= q.end /\ (d <= q.stored => d <= published)
      /\ \A d \in DOMAIN closes : from <= d /\ d <= q.end /\ d <= published
                                   => d \in DOMAIN fetched
      /\ published = 0 /\ q.end < today => DOMAIN fetched = {}
  BY <1>4, ServedIs
<1>6. /\ DOMAIN fetched \subseteq Days /\ \A d \in DOMAIN fetched : d \in Nat /\ d >= 1
  BY <1>5, RowsAre DEF Days
<1> HIDE DEF fetched, v
<1>7. /\ new \in PriceRows /\ DOMAIN new = DOMAIN fetched \cap (1..q.stored)
      /\ \A d \in DOMAIN new : new[d] = fetched[d]
  BY <1>5, RestrictionIs DEF Persisted
<1>8. \A d \in DOMAIN new : d \in Nat /\ d <= q.stored /\ d \in DOMAIN fetched
  BY <1>1, <1>6, <1>7
<1> HIDE DEF new
<1>9. /\ rows \in PriceRows /\ DOMAIN rows = DOMAIN history \cup DOMAIN new
      /\ \A d \in DOMAIN rows : rows[d] = IF d \in DOMAIN new THEN new[d] ELSE history[d]
  <2>1. history \in PriceRows /\ new \in PriceRows
    BY <1>7, TypesAre
  <2>2. /\ rows \in PriceRows /\ DOMAIN rows = DOMAIN history \cup DOMAIN new
        /\ \A d \in DOMAIN history \cup DOMAIN new :
             rows[d] = IF d \in DOMAIN new THEN new[d] ELSE history[d]
    BY <2>1, MergedIs
  <2> QED
    BY <2>2
<1> HIDE DEF rows
<1>10. \A d \in DOMAIN new : d <= published /\ d \in DOMAIN closes /\ new[d] = closes[d]
  BY <1>1, <1>5, <1>7, <1>8, TypesAre DEF OfCloses
<1>11. HistoryGood(rows)
  BY <1>9, <1>10 DEF HistoryGood, MarketFacts, HistoryIsOfCloses
<1>12. ASSUME Filled(history, StorageStart) PROVE Filled(rows, StorageStart)
  <2> SUFFICES ASSUME NEW d \in DOMAIN closes, NEW e \in DOMAIN rows,
                      StorageStart <= d, d <= e
               PROVE  d \in DOMAIN rows
    BY DEF Filled
  <2>1. d \in Nat /\ d >= 1 /\ e \in Nat
    BY <1>9, TypesAre, RowsAre DEF Days
  <2>2. CASE e \in DOMAIN history
    BY <1>9, <1>12, <2>2 DEF Filled
  <2>3. CASE e \in DOMAIN new /\ from <= d
    <3>1. e <= q.stored /\ e <= q.end /\ e <= published
      BY <1>5, <1>8, <1>10, <2>3
    <3>2. d <= q.stored /\ d <= q.end /\ d <= published
      BY <1>1, <2>1, <3>1, TypesAre
    <3>3. d \in DOMAIN fetched
      BY <1>5, <2>3, <3>2
    <3> QED
      BY <1>1, <1>7, <1>9, <2>1, <3>2, <3>3
  <2>4. CASE ~ (from <= d)
    <3>1. PICK l \in DOMAIN history : from <= l
      BY <1>4, <2>4
    <3>2. l \in Nat
      BY <1>3, TypesAre, RowsAre
    <3>3. d <= l
      BY <1>4, <2>1, <2>4, <3>1, <3>2
    <3> QED
      BY <1>9, <1>12, <3>1, <3>3 DEF Filled
  <2> QED
    BY <1>9, <2>2, <2>3, <2>4
<1>13. \A d \in DOMAIN fetched : StorageStart <= d /\ d <= q.end
  BY <1>4, <1>5, <1>6
<1>14. \A d \in DOMAIN fetched : d <= q.stored => d \in DOMAIN rows
  BY <1>1, <1>6, <1>7, <1>9
<1> QED
  BY <1>5, <1>9, <1>11, <1>12, <1>13, <1>14 DEF rows, new, fetched, from, v

LEMMA MergedOfCloses ==
  ASSUME NEW f \in PriceRows, NEW g \in PriceRows, OfCloses(f), OfCloses(g)
  PROVE  Merged(f, g) \in PriceRows /\ OfCloses(Merged(f, g))
<1>1. /\ DOMAIN Merged(f, g) = DOMAIN f \cup DOMAIN g
      /\ \A d \in DOMAIN f \cup DOMAIN g :
           Merged(f, g)[d] = IF d \in DOMAIN g THEN g[d] ELSE f[d]
  BY MergedIs
<1>2. OfCloses(Merged(f, g))
  BY <1>1 DEF OfCloses
<1> QED
  BY <1>2, MergedIs

LEMMA GoodView ==
  ASSUME TypeOK, NEW rows, HistoryGood(rows), NEW q
  PROVE  /\ View(rows, q) \in PriceRows /\ OfCloses(View(rows, q))
         /\ DOMAIN View(rows, q) = DOMAIN rows \cap (StorageStart..q.stored)
<1>1. /\ View(rows, q) \in PriceRows
      /\ DOMAIN View(rows, q) = DOMAIN rows \cap (StorageStart..q.stored)
      /\ \A d \in DOMAIN View(rows, q) : View(rows, q)[d] = rows[d]
  <2>1. rows \in PriceRows
    BY DEF HistoryGood
  <2> DEFINE days == StorageStart..q.stored
  <2>2. View(rows, q) = Restriction(rows, days)
    BY DEF View
  <2> HIDE DEF days
  <2>3. /\ Restriction(rows, days) \in PriceRows
        /\ DOMAIN Restriction(rows, days) = DOMAIN rows \cap days
        /\ \A d \in DOMAIN rows \cap days : Restriction(rows, days)[d] = rows[d]
    BY <2>1, RestrictionIs
  <2> QED
    BY <2>2, <2>3 DEF days
<1>2. \A d \in DOMAIN rows : d \in DOMAIN closes /\ d <= today /\ rows[d] = closes[d]
  BY TypesAre DEF HistoryGood
<1>3. OfCloses(View(rows, q))
  BY <1>1, <1>2 DEF OfCloses
<1> QED
  BY <1>1, <1>3

(* What an evaluation decides on, if it decides at all. *)
DecidesOn(frame, q, row, expected) ==
  /\ frame \in PriceRows /\ DOMAIN frame # {} /\ OfCloses(frame)
  /\ Decide(frame, expected)
  /\ q.need # None =>
       /\ frame = Merged(View(history', q), row) /\ DOMAIN View(history', q) # {}
       /\ q.strict => Last(View(history', q)) >= q.need

LEMMA EvaluateDoes ==
  ASSUME TypeOK, MarketFacts, NEW q, NEW row, NEW spot, NEW expected,
         GoodRequest(q, spot), GoodRow(row), Evaluate(q, row, spot, expected)
  PROVE  /\ HistoryGood(history')
         /\ Filled(history, StorageStart) => Filled(history', StorageStart)
         /\ NoDecision \/ \E frame : DecidesOn(frame, q, row, expected)
         /\ published = 0 => q.end = today
         /\ StorageStart \in Int /\ Widest \in Nat
         /\ UNCHANGED <<today, evening, closes, published, rules, pruned>>
<1> DEFINE v == View(history, q)
           fetched == Served(FetchStart(v), q.end, spot)
           rows == Merged(history, Persisted(fetched, q))
           kept == View(rows, q)
<1>1. Enabled # {} /\ UNCHANGED <<today, evening, closes, published, rules, pruned>>
  BY DEF Evaluate
<1>2. StorageStart \in Int /\ Widest \in Nat
  <2>1. Widest \in Nat
    BY <1>1, WidestIs
  <2>2. today \in Nat
    BY TypesAre
  <2> QED
    BY <2>1, <2>2 DEF StorageStart, Start
<1>3. /\ HistoryGood(rows) /\ DOMAIN history \subseteq DOMAIN rows
      /\ Filled(history, StorageStart) => Filled(rows, StorageStart)
      /\ fetched \in PriceRows /\ OfCloses(fetched)
      /\ \A d \in DOMAIN fetched : StorageStart <= d /\ d <= q.end
      /\ \A d \in DOMAIN fetched : d <= q.stored => d \in DOMAIN rows
      /\ published = 0 /\ q.end < today => DOMAIN fetched = {}
  BY <1>2, AddedRows
<1>4. HistoryGood(history)
  BY TypesAre DEF HistoryGood, MarketFacts, HistoryIsOfCloses
<1>5. \/ /\ Covered(v, q)
         /\ Decide(Merged(v, row), expected)
         /\ UNCHANGED history
      \/ /\ ~Covered(v, q) /\ DOMAIN fetched # {}
         /\ history' = rows
         /\ IF Missing(kept, q) THEN NoDecision
            ELSE Decide(Merged(IF q.need = None THEN fetched ELSE kept, row), expected)
  BY DEF Evaluate
<1>6. row \in PriceRows /\ OfCloses(row)
  BY DEF GoodRow
<1>7. /\ v \in PriceRows /\ OfCloses(v)
      /\ DOMAIN v = DOMAIN history \cap (StorageStart..q.stored)
  BY <1>4, GoodView
<1>8. /\ kept \in PriceRows /\ OfCloses(kept)
      /\ DOMAIN kept = DOMAIN rows \cap (StorageStart..q.stored)
  BY <1>3, GoodView
<1>9. /\ q.end \in Nat /\ q.end <= today /\ q.stored \in Nat /\ today \in Nat
      /\ \A d \in Days : d \in Nat /\ d >= 1
  BY TypesAre DEF GoodRequest, Days
<1> HIDE DEF v, fetched, rows, kept
<1>10. CASE /\ Covered(v, q) /\ Decide(Merged(v, row), expected) /\ UNCHANGED history
  <2>1. DOMAIN v # {} /\ (q.need # None => Last(v) >= q.need)
    BY <1>10 DEF Covered
  <2>2. /\ Merged(v, row) \in PriceRows /\ OfCloses(Merged(v, row))
        /\ DOMAIN Merged(v, row) # {}
    BY <1>6, <1>7, <2>1, MergedOfCloses, MergedIs
  <2>3. v = View(history', q)
    BY <1>10 DEF v
  <2>4. DecidesOn(Merged(v, row), q, row, expected)
    BY <1>10, <2>1, <2>2, <2>3 DEF DecidesOn
  <2>5. published = 0 => q.end = today
    <3>1. PICK d \in DOMAIN v : TRUE
      BY <2>1
    <3>2. d \in DOMAIN history /\ d \in Days
      BY <1>7, <3>1, RowsAre
    <3> QED
      BY <1>4, <1>9, <3>2 DEF HistoryGood
  <2> QED
    BY <1>1, <1>2, <1>4, <1>10, <2>4, <2>5
<1>11. CASE /\ ~Covered(v, q) /\ DOMAIN fetched # {} /\ history' = rows
            /\ IF Missing(kept, q) THEN NoDecision
               ELSE Decide(Merged(IF q.need = None THEN fetched ELSE kept, row), expected)
  <2>1. published = 0 => q.end = today
    BY <1>3, <1>9, <1>11
  <2>2. kept = View(history', q)
    BY <1>11 DEF kept
  <2>3. CASE Missing(kept, q)
    BY <1>1, <1>2, <1>3, <1>11, <2>1, <2>3
  <2>4. CASE ~Missing(kept, q) /\ q.need = None
    <3>1. Merged(fetched, row) \in PriceRows /\ OfCloses(Merged(fetched, row))
          /\ DOMAIN Merged(fetched, row) # {}
      BY <1>3, <1>6, <1>11, MergedOfCloses, MergedIs
    <3>2. DecidesOn(Merged(fetched, row), q, row, expected)
      BY <1>11, <2>4, <3>1 DEF DecidesOn
    <3> QED
      BY <1>1, <1>2, <1>3, <1>11, <2>1, <3>2
  <2>5. CASE ~Missing(kept, q) /\ q.need # None
    <3>1. DOMAIN kept # {} /\ (q.strict => Last(kept) >= q.need)
      <4>1. CASE q.strict
        <5>1. DOMAIN kept # {} /\ ~ (Last(kept) < q.need)
          BY <2>5, <4>1 DEF Missing
        <5>2. Last(kept) \in Nat /\ q.need \in Nat
          BY <1>8, <1>9, <2>5, <5>1, FirstAndLast, RowsAre DEF GoodRequest
        <5> QED
          BY <5>1, <5>2
      <4>2. CASE ~q.strict
        <5>1. q.end = q.stored
          BY <2>5, <4>2 DEF GoodRequest
        <5>2. PICK d \in DOMAIN fetched : TRUE
          BY <1>11
        <5>3. d \in Nat
          BY <1>3, <1>9, <5>2, RowsAre
        <5>4. d \in DOMAIN kept
          BY <1>2, <1>3, <1>8, <1>9, <5>1, <5>2, <5>3
        <5> QED
          BY <4>2, <5>4
      <4> QED
        BY <4>1, <4>2 DEF GoodRequest
    <3>2. Merged(kept, row) \in PriceRows /\ OfCloses(Merged(kept, row))
          /\ DOMAIN Merged(kept, row) # {}
      BY <1>6, <1>8, <3>1, MergedOfCloses, MergedIs
    <3>3. DecidesOn(Merged(kept, row), q, row, expected)
      BY <1>11, <2>2, <2>5, <3>1, <3>2 DEF DecidesOn
    <3> QED
      BY <1>1, <1>2, <1>3, <1>11, <2>1, <3>3
  <2> QED
    BY <2>3, <2>4, <2>5
<1> QED
  BY <1>5, <1>10, <1>11

-----------------------------------------------------------------------------
(* The checks and what they ask for.                                       *)

CheckOf(q, row, spot, expected) ==
  \/ evening /\ q = AfterCloseRequest /\ row = Nothing /\ expected = today
  \/ /\ Confirmed # None /\ spot \in Prices /\ row \in LatestRows(spot)
     /\ q = LiveRequest(row # Nothing)

LEMMA ChecksAre ==
  ASSUME AfterCloseCheck \/ \E p \in Prices : BeforeCloseCheck(p) \/ CheckCommand(p)
  PROVE  \E q, row, spot, expected :
           CheckOf(q, row, spot, expected) /\ Evaluate(q, row, spot, expected)
<1>1. CASE AfterCloseCheck
  BY <1>1 DEF AfterCloseCheck, CheckOf
<1>2. CASE \E p \in Prices : BeforeCloseCheck(p) \/ CheckCommand(p)
  <2>1. PICK p \in Prices : \E row \in LatestRows(p) : \E expected : LiveCheck(row, p, expected)
    BY <1>2 DEF BeforeCloseCheck, CheckCommand
  <2>2. PICK row \in LatestRows(p) : \E expected : LiveCheck(row, p, expected)
    BY <2>1
  <2>3. PICK expected : LiveCheck(row, p, expected)
    BY <2>2
  <2> QED
    BY <2>3 DEF LiveCheck, CheckOf
<1> QED
  BY <1>1, <1>2

LEMMA LatestRowsAre ==
  ASSUME TypeOK, NEW spot \in Prices, NEW row \in LatestRows(spot)
  PROVE  /\ GoodRow(row)
         /\ DOMAIN row = {} => \/ DOMAIN closes = {} \/ published = 0
                               \/ published < today - LatestLookback
<1>1. CASE ~evening /\ row = [d \in {today} |-> spot]
  <2>1. DOMAIN row = {today} /\ row = [d \in DOMAIN row |-> row[d]] /\ row[today] = spot
    BY <1>1
  <2>2. row \in PriceRows
    BY <2>1, RowsAre, TypesAre
  <2>3. ~ (today < today)
    BY TypesAre
  <2> QED
    BY <1>1, <2>1, <2>2, <2>3, TypesAre DEF GoodRow, OfCloses
<1>2. ASSUME NEW S, row = Restriction(closes, S)
      PROVE  GoodRow(row) /\ DOMAIN row = DOMAIN closes \cap S
  <2>1. closes \in PriceRows
    BY TypesAre
  <2>2. /\ row \in PriceRows /\ DOMAIN row = DOMAIN closes \cap S
        /\ \A d \in DOMAIN closes \cap S : row[d] = closes[d]
    BY <1>2, <2>1, RestrictionIs
  <2> QED
    BY <2>2, TypesAre DEF GoodRow, OfCloses
<1>3. ASSUME NEW d \in DOMAIN closes, row = Restriction(closes, {d})
      PROVE  GoodRow(row) /\ DOMAIN row # {}
  BY <1>2, <1>3
<1>4. CASE row = Restriction(closes, {published} \cap (today - LatestLookback..today))
  <2>1. GoodRow(row)
        /\ DOMAIN row = DOMAIN closes \cap ({published} \cap (today - LatestLookback..today))
    BY <1>2, <1>4
  <2> QED
    BY <2>1, TypesAre
<1> QED
  BY <1>1, <1>3, <1>4 DEF LatestRows, InProgress

LEMMA ChecksAreGood ==
  ASSUME TypeOK, NEW q, NEW row, NEW spot, NEW expected, CheckOf(q, row, spot, expected)
  PROVE  GoodRequest(q, spot) /\ GoodRow(row)
<1>1. CASE evening /\ q = AfterCloseRequest /\ row = Nothing
  <2>1. /\ q.end = today /\ q.stored = today /\ q.need = today
        /\ q.strict \in BOOLEAN /\ ~q.strict
    BY <1>1 DEF AfterCloseRequest
  <2>2. GoodRequest(q, spot)
    BY <1>1, <2>1, TypesAre DEF GoodRequest, None
  <2> QED
    BY <1>1, <2>2, NothingIs DEF GoodRow, OfCloses
<1>2. CASE Confirmed # None /\ spot \in Prices /\ row \in LatestRows(spot)
           /\ q = LiveRequest(row # Nothing)
  <2>1. /\ q.end \in {today, Confirmed} /\ q.stored = Confirmed
        /\ q.need = None \/ q.need = Confirmed
        /\ q.strict \in BOOLEAN /\ (q.strict <=> q.need = Confirmed)
        /\ (~q.strict => q.need = None)
    <3>1. CASE row # Nothing
      BY <1>2, <3>1 DEF LiveRequest
    <3>2. CASE row = Nothing
      BY <1>2, <3>2 DEF LiveRequest
    <3> QED
      BY <3>1, <3>2
  <2>2. Confirmed \in Days /\ Confirmed < today
    BY <1>2, ConfirmedIs, TypesAre DEF None, Days
  <2>3. GoodRequest(q, spot)
    BY <1>2, <2>1, <2>2, TypesAre DEF GoodRequest, None, Days
  <2> QED
    BY <1>2, <2>3, LatestRowsAre
<1> QED
  BY <1>1, <1>2 DEF CheckOf

-----------------------------------------------------------------------------
(* Decisions: their types.                                                 *)

StatusRow == [lookback : Lookbacks, date : Days, price : Prices, peak : Days, high : Prices]
EventRow(n) == [key : Windows, rule : 1..n, at : Days]

LEMMA StatusIs ==
  ASSUME NEW frame \in PriceRows, DOMAIN frame # {}, NEW l \in Lookbacks
  PROVE  LET w == Window(frame, l)
             s == Status(frame, l)
         IN /\ w \in PriceRows /\ DOMAIN w # {}
            /\ DOMAIN w = DOMAIN frame \cap (Last(frame) - l + 1..Last(frame))
            /\ \A d \in DOMAIN w : w[d] = frame[d]
            /\ s.lookback = l /\ s.date = Last(frame) /\ s.price = frame[Last(frame)]
            /\ s.peak = Peak(w) /\ s.high = w[Peak(w)]
            /\ s \in StatusRow
<1> DEFINE w == Window(frame, l)
           s == Status(frame, l)
<1>1. Last(frame) \in DOMAIN frame /\ Last(frame) \in Days /\ frame[Last(frame)] \in Prices
  BY FirstAndLast, RowsAre
<1>2. w = Restriction(frame, Last(frame) - l + 1..Last(frame))
  BY DEF Window
<1>3. /\ w \in PriceRows
      /\ DOMAIN w = DOMAIN frame \cap (Last(frame) - l + 1..Last(frame))
      /\ \A d \in DOMAIN w : w[d] = frame[d]
  <2> DEFINE days == Last(frame) - l + 1..Last(frame)
  <2>1. w = Restriction(frame, days)
    BY <1>2
  <2> HIDE DEF w, days
  <2>2. /\ w \in PriceRows /\ DOMAIN w = DOMAIN frame \cap days
        /\ \A d \in DOMAIN frame \cap days : w[d] = frame[d]
    BY <2>1, RestrictionIs
  <2> QED
    BY <2>2 DEF days
<1>4. Last(frame) \in DOMAIN w
  BY <1>1, <1>3 DEF Days
<1>5. s = [lookback |-> l, date |-> Last(frame), price |-> frame[Last(frame)],
           peak |-> Peak(w), high |-> w[Peak(w)]]
  BY DEF Status
<1> HIDE DEF w, s
<1>6. Peak(w) \in Days /\ w[Peak(w)] \in Prices
  BY <1>3, <1>4, PeakIs, RowsAre
<1>7. s \in StatusRow
  BY <1>1, <1>5, <1>6 DEF StatusRow
<1> QED
  BY <1>3, <1>4, <1>5, <1>7 DEF w, s

LEMMA DecideTyped ==
  ASSUME TypeOK, NEW frame, NEW expected,
         frame \in PriceRows, DOMAIN frame # {}, Decide(frame, expected)
  PROVE  /\ statuses' \subseteq StatusRow
         /\ events' \subseteq EventRow(Len(rules)) /\ told' \subseteq Windows
<1> DEFINE ss == IF expected # None /\ Last(frame) # expected THEN {}
                 ELSE {Status(frame, rules[r].lookback) : r \in Enabled}
<1>1. statuses' = ss /\ events' = events \cup Alerts(ss) /\ told' = told \cup Keys(Alerts(ss))
  BY DEF Decide
<1>2. ss \subseteq StatusRow
  BY ZenonT(60), StatusIs, RulesAre
<1> HIDE DEF ss
<1>3. \A s \in ss : s.lookback \in Lookbacks /\ s.peak \in Days
  BY <1>2 DEF StatusRow
<1>4. {<<s.lookback, s.peak, t>> : s \in ss, t \in Thresholds} \subseteq Windows
  BY <1>3 DEF Windows
<1>5. \A a \in Alerts(ss) : a \in EventRow(Len(rules)) /\ a.key \in Windows
  <2> SUFFICES ASSUME NEW a \in Alerts(ss)
               PROVE  a \in EventRow(Len(rules)) /\ a.key \in Windows
    OBVIOUS
  <2>1. a \in [key : {<<s.lookback, s.peak, t>> : s \in ss, t \in Thresholds},
               rule : Enabled, at : {today}]
    BY DEF Alerts
  <2> QED
    BY <1>4, <2>1, RulesAre, TypesAre DEF EventRow
<1>6. events \subseteq EventRow(Len(rules)) /\ told \subseteq Windows
  BY DEF TypeOK, EventRow
<1> QED
  BY <1>1, <1>2, <1>5, <1>6 DEF Keys

-----------------------------------------------------------------------------
(* Types and the history, step by step.                                    *)

Base == TypeOK /\ MarketFacts

LEMMA TypeParts ==
  TypeOK <=>
    /\ today \in Days /\ evening \in BOOLEAN
    /\ closes \in PriceRows /\ DOMAIN closes \subseteq OpenDays \cap (1..today)
    /\ published \in {0} \cup DOMAIN closes
    /\ rules \in Seq(RuleRow) /\ history \in PriceRows
    /\ events \subseteq EventRow(Len(rules))
    /\ told \subseteq Windows /\ pruned \in {0, today - 1, today}
    /\ statuses \subseteq StatusRow
  BY DEF TypeOK, RuleRow, EventRow, StatusRow

LEMMA InitBase == Init => Base
<1> SUFFICES ASSUME Init PROVE Base
  OBVIOUS
<1>1. /\ DOMAIN closes = {} /\ DOMAIN history = {}
      /\ closes \in PriceRows /\ history \in PriceRows
  BY NothingIs DEF Init
<1>2. rules \in Seq(RuleRow) /\ today \in Days
  BY DEF Init, Days
<1>3. TypeOK
  BY <1>1, <1>2, TypeParts DEF Init
<1> QED
  BY <1>1, <1>3 DEF Base, MarketFacts, HistoryIsOfCloses

LEMMA CheckBase ==
  ASSUME Base, AfterCloseCheck \/ \E p \in Prices : BeforeCloseCheck(p) \/ CheckCommand(p)
  PROVE  Base'
<1>1. PICK q, row, spot, expected :
        CheckOf(q, row, spot, expected) /\ Evaluate(q, row, spot, expected)
  BY ChecksAre
<1>2. GoodRequest(q, spot) /\ GoodRow(row)
  BY <1>1, ChecksAreGood DEF Base
<1>3. /\ HistoryGood(history')
      /\ NoDecision \/ \E frame : DecidesOn(frame, q, row, expected)
      /\ UNCHANGED <<today, evening, closes, published, rules, pruned>>
  BY <1>1, <1>2, EvaluateDoes DEF Base
<1>4. /\ statuses' \subseteq StatusRow
      /\ events' \subseteq EventRow(Len(rules)) /\ told' \subseteq Windows
  <2>1. CASE NoDecision
    BY <2>1, TypeParts DEF NoDecision, Base
  <2>2. CASE \E frame : DecidesOn(frame, q, row, expected)
    BY <2>2, DecideTyped DEF DecidesOn, Base
  <2> QED
    BY <1>3, <2>1, <2>2
<1>5. TypeOK'
  <2>1. history' \in PriceRows
    BY <1>3 DEF HistoryGood
  <2> QED
    BY <1>3, <1>4, <2>1, TypeParts DEF TypeOK, Base, RuleRow, EventRow, StatusRow
<1>6. MarketFacts'
  BY <1>3 DEF MarketFacts, HistoryIsOfCloses, HistoryGood, Base
<1> QED
  BY <1>5, <1>6 DEF Base

LEMMA RuleBase ==
  ASSUME Base,
         (\E l \in Lookbacks : AddRule(l)) \/ (\E r \in 1..Len(rules) : DeleteRule(r))
  PROVE  Base'
<1>1. /\ UNCHANGED <<today, evening, closes, published, history, events, pruned, told>>
      /\ statuses' = {}
  BY DEF AddRule, DeleteRule
<1>2. rules \in Seq(RuleRow) /\ events \subseteq EventRow(Len(rules)) /\ Len(rules) \in Nat
  BY TypeParts DEF Base
<1>3. rules' \in Seq(RuleRow) /\ Len(rules') >= Len(rules) /\ Len(rules') \in Nat
  <2>1. ASSUME NEW l \in Lookbacks, AddRule(l)
        PROVE  rules' \in Seq(RuleRow) /\ Len(rules') = Len(rules) + 1
    <3>1. [lookback |-> l, enabled |-> TRUE] \in RuleRow
      BY DEF RuleRow
    <3> QED
      BY <1>2, <2>1, <3>1 DEF AddRule
  <2>2. ASSUME NEW r \in 1..Len(rules), DeleteRule(r)
        PROVE  rules' \in Seq(RuleRow) /\ Len(rules') = Len(rules)
    <3>1. [rules[r] EXCEPT !.enabled = FALSE] \in RuleRow
      <4>1. rules[r] \in RuleRow
        BY <1>2
      <4> QED
        BY <4>1 DEF RuleRow
    <3>2. rules' = [rules EXCEPT ![r] = [rules[r] EXCEPT !.enabled = FALSE]]
      BY <2>2 DEF DeleteRule
    <3> QED
      BY <1>2, <3>1, <3>2
  <2> QED
    BY <1>2, <2>1, <2>2
<1>4. events' \subseteq EventRow(Len(rules'))
  BY <1>1, <1>2, <1>3 DEF EventRow
<1>5. TypeOK'
  BY <1>1, <1>3, <1>4, TypeParts DEF TypeOK, Base, RuleRow, EventRow
<1> QED
  BY <1>1, <1>5 DEF Base, MarketFacts, HistoryIsOfCloses

LEMMA PruneBase ==
  ASSUME Base, Prune
  PROVE  Base'
<1>1. /\ UNCHANGED <<today, evening, closes, published, rules, told>>
      /\ statuses' = {} /\ pruned' = today /\ events' \subseteq events
  BY DEF Prune
<1>2. /\ history' \in PriceRows /\ DOMAIN history' \subseteq DOMAIN history
      /\ \A d \in DOMAIN history' : history'[d] = history[d]
  <2>1. CASE Enabled = {}
    BY <2>1, NothingIs DEF Prune
  <2>2. CASE Enabled # {}
    <3> DEFINE days == StorageStart..today
    <3>1. history' = Restriction(history, days)
      BY <2>2 DEF Prune
    <3>2. history \in PriceRows
      BY TypesAre DEF Base
    <3> HIDE DEF days
    <3>3. /\ Restriction(history, days) \in PriceRows
          /\ DOMAIN Restriction(history, days) = DOMAIN history \cap days
          /\ \A d \in DOMAIN history \cap days : Restriction(history, days)[d] = history[d]
      BY <3>2, RestrictionIs
    <3> QED
      BY <3>1, <3>3
  <2> QED
    BY <2>1, <2>2
<1>3. TypeOK'
  BY <1>1, <1>2, TypeParts DEF TypeOK, Base
<1> QED
  BY <1>1, <1>2, <1>3 DEF Base, MarketFacts, HistoryIsOfCloses

LEMMA CloseBase ==
  ASSUME Base, NEW p \in Prices, Close(p)
  PROVE  /\ Base' /\ DOMAIN closes \subseteq DOMAIN closes'
         /\ \A d \in DOMAIN closes' : d \in DOMAIN closes \/ d = today
<1> DEFINE new == [d \in {today} \cap OpenDays |-> p]
<1>1. /\ ~evening /\ evening' = TRUE /\ statuses' = {}
      /\ UNCHANGED <<today, published, rules, history, events, pruned, told>>
      /\ closes' = Merged(closes, new) \/ closes' = closes
  BY DEF Close
<1>2. /\ today \in Days /\ today \notin DOMAIN closes /\ closes \in PriceRows
      /\ DOMAIN closes \subseteq OpenDays \cap (1..today)
  BY <1>1, TypesAre DEF Base, MarketFacts, TypeOK
<1>3. new \in PriceRows /\ DOMAIN new = {today} \cap OpenDays
  <2>1. DOMAIN new = {today} \cap OpenDays /\ \A d \in DOMAIN new : new[d] \in Prices
    OBVIOUS
  <2>2. new = [d \in DOMAIN new |-> new[d]]
    OBVIOUS
  <2> HIDE DEF new
  <2> QED
    BY <1>2, <2>1, <2>2, RowsAre
<1> HIDE DEF new
<1>4. /\ closes' \in PriceRows /\ DOMAIN closes' \subseteq DOMAIN closes \cup DOMAIN new
      /\ DOMAIN closes \subseteq DOMAIN closes'
      /\ \A d \in DOMAIN closes : closes'[d] = closes[d]
  <2>1. CASE closes' = closes
    BY <1>2, <2>1
  <2>2. CASE closes' = Merged(closes, new)
    <3>1. /\ closes' \in PriceRows /\ DOMAIN closes' = DOMAIN closes \cup DOMAIN new
          /\ \A d \in DOMAIN closes \cup DOMAIN new :
               closes'[d] = IF d \in DOMAIN new THEN new[d] ELSE closes[d]
      BY <1>2, <1>3, <2>2, MergedIs
    <3> QED
      BY <1>2, <1>3, <3>1
  <2> QED
    BY <1>1, <2>1, <2>2
<1>5. DOMAIN closes' \subseteq OpenDays \cap (1..today)
  BY <1>2, <1>3, <1>4 DEF Days
<1>6. TypeOK'
  BY <1>1, <1>4, <1>5, TypeParts DEF TypeOK, Base
<1>7. MarketFacts'
  BY <1>1, <1>4 DEF Base, MarketFacts, HistoryIsOfCloses
<1> QED
  BY <1>3, <1>4, <1>6, <1>7 DEF Base

LEMMA PublishBase ==
  ASSUME Base, Publish
  PROVE  Base' /\ published' >= published
<1>1. /\ DOMAIN closes # {} /\ published' = Last(closes) /\ statuses' = {}
      /\ UNCHANGED <<today, evening, closes, rules, history, events, pruned, told>>
  BY DEF Publish
<1>2. /\ Last(closes) \in DOMAIN closes /\ \A d \in DOMAIN closes : d <= Last(closes)
      /\ \A d \in DOMAIN closes : d \in Nat
  BY <1>1, FirstAndLast, TypesAre, RowsAre DEF Base, Days
<1>3. published' \in Nat /\ published' >= published
  BY <1>1, <1>2, TypesAre DEF Base
<1>4. TypeOK'
  BY <1>1, <1>2, TypeParts DEF TypeOK, Base
<1>5. \A d \in DOMAIN history : d \in Nat
  BY TypesAre, RowsAre DEF Base, Days
<1>6. MarketFacts'
  BY <1>1, <1>3, <1>5, TypesAre DEF Base, MarketFacts, HistoryIsOfCloses
<1> QED
  BY <1>3, <1>4, <1>6 DEF Base

LEMMA NextDayBase ==
  ASSUME Base, NextDay
  PROVE  Base'
<1>1. /\ today' = today + 1 /\ today < MaxDay /\ evening' = FALSE /\ statuses' = {}
      /\ pruned' \in {0, today}
      /\ UNCHANGED <<closes, published, rules, history, events, told>>
  BY DEF NextDay
<1>2. /\ today \in Nat /\ today' \in Days /\ today' - 1 = today
      /\ DOMAIN closes \subseteq OpenDays \cap (1..today)
  BY <1>1, TypesAre DEF Base, Days, TypeOK
<1>3. DOMAIN closes' \subseteq OpenDays \cap (1..today') /\ today' \notin DOMAIN closes'
  BY <1>1, <1>2
<1>4. TypeOK'
  BY <1>1, <1>2, <1>3, TypeParts DEF TypeOK, Base
<1> QED
  BY <1>1, <1>3, <1>4 DEF Base, MarketFacts, HistoryIsOfCloses

LEMMA NextBase == Base /\ [Next]_vars => Base'
<1> SUFFICES ASSUME Base, [Next]_vars PROVE Base'
  OBVIOUS
<1>1. CASE UNCHANGED vars
  BY <1>1, TypeParts DEF vars, Base, TypeOK, MarketFacts, HistoryIsOfCloses
<1> QED
  BY <1>1, CheckBase, RuleBase, PruneBase, CloseBase, PublishBase, NextDayBase DEF Next

LEMMA BaseInvariant == Spec => []Base
  BY InitBase, NextBase, PTL DEF Spec

(* Every variable keeps its type, whatever prices are served and whichever *)
(* rules come and go.                                                      *)
THEOREM TypeCorrect == Spec => []TypeOK
<1>1. Base => TypeOK
  BY DEF Base
<1> QED
  BY <1>1, BaseInvariant, PTL

(* No price of a running session is ever kept as a close.                  *)
THEOREM OnlyClosesAreKept == Spec => []HistoryIsOfCloses
<1>1. Base => HistoryIsOfCloses
  BY DEF Base, MarketFacts
<1> QED
  BY <1>1, BaseInvariant, PTL

-----------------------------------------------------------------------------
(* The stored history has no gaps where a check looks.  For that all rules *)
(* have one window length, since a longer window that is added later finds *)
(* rows that do not reach back far enough; breaks of the market are no     *)
(* longer than the buffer; and the last published close is never so old    *)
(* that the latest row, when there is no quote, does not reach back to it. *)

OneWindow == \A l, m \in Lookbacks : l = m

ShortBreaks ==
  \A d \in Days, c \in OpenDays : c < d => \E b \in OpenDays : b < d /\ d - b <= Buffer + 1

Calendar == OneWindow /\ ShortBreaks

RecentPrice == published = 0 \/ today - LatestLookback <= published

Filling == \A l \in Lookbacks : Filled(history, today - l - Buffer)

LEMMA StorageStartIs ==
  ASSUME TypeOK, OneWindow, Enabled # {}, NEW l \in Lookbacks
  PROVE  StorageStart = today - l - Buffer
  BY WidestIs DEF OneWindow, StorageStart, Start

LEMMA FrameComplete ==
  ASSUME Base, Filling, Calendar, RecentPrice, NEW q, NEW row, NEW spot, NEW expected, NEW frame,
         CheckOf(q, row, spot, expected), Evaluate(q, row, spot, expected),
         DecidesOn(frame, q, row, expected),
         expected # None => Last(frame) = expected,
         NEW l \in Lookbacks
  PROVE  /\ \A d \in DOMAIN closes :
              Last(frame) - l + 1 <= d /\ d < Last(frame)
                => d \in DOMAIN frame /\ frame[d] = closes[d]
         /\ today - Buffer - 1 <= Last(frame)
<1> DEFINE v == View(history', q)
           first == today - l - Buffer
<1>1. GoodRequest(q, spot) /\ GoodRow(row)
  BY ChecksAreGood DEF Base
<1>2. Enabled # {} /\ l \in Nat /\ l >= 1
  BY DEF Evaluate
<1>3. StorageStart = first
  BY <1>2, StorageStartIs DEF Base, Calendar
<1>4. /\ HistoryGood(history') /\ Filled(history', first)
      /\ published = 0 => q.end = today
  BY <1>1, <1>3, EvaluateDoes DEF Base, Filling
<1>5. v \in PriceRows /\ DOMAIN v = DOMAIN history' \cap (first..q.stored)
  BY <1>3, <1>4, GoodView DEF Base
<1>6. /\ today \in Nat /\ today >= 1 /\ today <= MaxDay
      /\ \A d \in DOMAIN closes : d \in OpenDays /\ d \in Nat /\ d <= today
      /\ \A d \in Days : d \in Nat
  BY TypesAre, RowsAre DEF Base, Days
<1>7. /\ frame \in PriceRows /\ OfCloses(frame) /\ DOMAIN frame # {}
      /\ Last(frame) \in DOMAIN frame /\ \A d \in DOMAIN frame : d <= Last(frame)
      /\ Last(frame) \in Nat /\ Last(frame) <= today
  BY <1>6, FirstAndLast, RowsAre DEF DecidesOn, OfCloses
<1>8. q.need # None => frame = Merged(v, row) /\ DOMAIN v # {} /\ (q.strict => Last(v) >= q.need)
  BY DEF DecidesOn
<1> HIDE DEF v, first
<1>9. DOMAIN v \subseteq DOMAIN Merged(v, row)
  <2>1. v \in PriceRows /\ row \in PriceRows
    BY <1>1, <1>5 DEF GoodRow
  <2>2. DOMAIN Merged(v, row) = DOMAIN v \cup DOMAIN row
    BY <2>1, MergedIs
  <2> QED
    BY <2>2
<1>10. ASSUME NEW e \in DOMAIN v, frame = Merged(v, row), first <= Last(frame) - l + 1,
             \A d \in DOMAIN closes : d < Last(frame) => d <= e
      PROVE  \A d \in DOMAIN closes :
               Last(frame) - l + 1 <= d /\ d < Last(frame)
                 => d \in DOMAIN frame /\ frame[d] = closes[d]
  <2> SUFFICES ASSUME NEW d \in DOMAIN closes, Last(frame) - l + 1 <= d, d < Last(frame)
               PROVE  d \in DOMAIN frame /\ frame[d] = closes[d]
    OBVIOUS
  <2>1. first \in Int /\ first <= d /\ d <= e /\ d \in Nat
    BY <1>2, <1>6, <1>7, <1>10 DEF first
  <2>2. d \in DOMAIN history'
    BY <1>4, <1>5, <2>1 DEF Filled
  <2>3. q.stored \in Nat /\ e <= q.stored /\ e \in Nat
    BY <1>1, <1>5, <1>6, <2>1, RowsAre DEF GoodRequest
  <2>4. d \in DOMAIN v
    BY <1>5, <2>1, <2>2, <2>3
  <2>5. d \in DOMAIN frame
    BY <1>9, <1>10, <2>4
  <2> QED
    BY <1>6, <1>7, <2>1, <2>5 DEF OfCloses
<1>11. CASE evening /\ q = AfterCloseRequest /\ row = Nothing /\ expected = today
  <2>1. q.need # None /\ Last(frame) = today
    BY <1>6, <1>11 DEF AfterCloseRequest, None
  <2>2. today \in DOMAIN v
    <3>1. frame = Merged(v, Nothing)
      BY <1>8, <1>11, <2>1
    <3>2. DOMAIN frame = DOMAIN v \cup DOMAIN Nothing
      BY <1>5, <3>1, MergedIs, NothingIs
    <3> QED
      BY <1>7, <2>1, <3>2, NothingIs
  <2>3. first <= Last(frame) - l + 1
    BY <1>2, <1>6, <2>1 DEF first
  <2>4. \A d \in DOMAIN closes : d < Last(frame) => d <= today
    BY <1>6
  <2> QED
    BY <1>6, <1>8, <1>10, <2>1, <2>2, <2>3, <2>4
<1>12. CASE /\ Confirmed # None /\ spot \in Prices /\ row \in LatestRows(spot)
            /\ q = LiveRequest(row # Nothing)
  <2>1. /\ Confirmed \in Nat /\ Confirmed < today /\ today - Buffer - 1 <= Confirmed
        /\ \A d \in OpenDays : d < today => d <= Confirmed
    <3>1. /\ Confirmed \in OpenDays /\ Confirmed < today /\ Confirmed \in Nat
          /\ \A d \in OpenDays : d < today => d <= Confirmed
      BY <1>12, ConfirmedIs, TypesAre DEF Base
    <3>2. PICK b \in OpenDays : b < today /\ today - b <= Buffer + 1
      BY <3>1, TypesAre DEF Base, Calendar, ShortBreaks
    <3>3. b <= Confirmed /\ b \in Nat
      BY <3>1, <3>2
    <3> QED
      BY <1>6, <3>1, <3>2, <3>3
  <2>2. CASE row = Nothing
    <3>1. q.end = Confirmed
      BY <1>12, <2>2 DEF LiveRequest
    <3>2. published # 0
      BY <1>4, <1>6, <2>1, <3>1
    <3>3. /\ published \in Nat /\ published \in DOMAIN closes
      BY <3>2, TypesAre DEF Base
    <3>4. published < today - LatestLookback
      BY <1>12, <2>2, <3>2, <3>3, LatestRowsAre, NothingIs DEF Base
    <3> QED
      BY <1>6, <3>3, <3>4 DEF RecentPrice
  <2>3. CASE row # Nothing
    <3>1. q.need = Confirmed /\ q.need # None /\ q.strict
      BY <1>12, <2>3 DEF LiveRequest
    <3>2. frame = Merged(v, row) /\ DOMAIN v # {} /\ Last(v) >= Confirmed
      BY <1>8, <3>1
    <3>3. Last(v) \in DOMAIN v /\ Last(v) \in Nat
      BY <1>5, <1>6, <3>2, FirstAndLast, RowsAre
    <3>4. Last(v) <= Last(frame)
      <4>1. Last(v) \in DOMAIN frame
        BY <1>9, <3>2, <3>3
      <4> QED
        BY <1>7, <4>1
    <3>5. today - Buffer - 1 <= Last(frame)
      BY <1>6, <1>7, <2>1, <3>2, <3>3, <3>4
    <3>6. first <= Last(frame) - l + 1
      BY <1>2, <1>6, <1>7, <3>5 DEF first
    <3>7. \A d \in DOMAIN closes : d < Last(frame) => d <= Last(v)
      BY <1>6, <1>7, <2>1, <3>2, <3>3
    <3> QED
      BY <1>10, <3>2, <3>3, <3>5, <3>6, <3>7
  <2> QED
    BY <2>2, <2>3
<1> QED
  BY <1>11, <1>12 DEF CheckOf

-----------------------------------------------------------------------------
(* Decisions see the true high and leave no fall untold.                   *)

LEMMA RowsEqual ==
  ASSUME NEW f \in PriceRows, NEW g \in PriceRows, DOMAIN f = DOMAIN g,
         \A d \in DOMAIN f : f[d] = g[d]
  PROVE  f = g
<1>1. f = [d \in DOMAIN f |-> f[d]] /\ g = [d \in DOMAIN g |-> g[d]]
  BY RowsAre
<1>2. [d \in DOMAIN f |-> f[d]] = [d \in DOMAIN f |-> g[d]]
  OBVIOUS
<1> QED
  BY <1>1, <1>2

LEMMA DecisionIsTrue ==
  ASSUME Base, Filling, Calendar, RecentPrice, NEW q, NEW row, NEW spot, NEW expected, NEW frame,
         CheckOf(q, row, spot, expected), Evaluate(q, row, spot, expected),
         DecidesOn(frame, q, row, expected)
  PROVE  HighsAreTrue' /\ FallsAreTold'
<1> DEFINE ss == IF expected # None /\ Last(frame) # expected THEN {}
                 ELSE {Status(frame, rules[r].lookback) : r \in Enabled}
<1>1. statuses' = ss /\ events' = events \cup Alerts(ss)
  BY DEF DecidesOn, Decide
<1>2. CASE expected # None /\ Last(frame) # expected
  BY <1>1, <1>2 DEF HighsAreTrue, FallsAreTold
<1>3. CASE ~ (expected # None /\ Last(frame) # expected)
  <2>1. Enabled # {} /\ UNCHANGED <<today, evening, closes, rules>>
    BY DEF Evaluate
  <2>2. PICK r0 \in Enabled : \A r \in Enabled : r0 <= r
    <3>1. Enabled \subseteq Nat
      BY RulesAre DEF Base
    <3> QED
      BY <2>1, <3>1, LeastNatural
  <2> DEFINE l == rules[r0].lookback
             w == Window(frame, l)
             s == Status(frame, l)
  <2>3. l \in Lookbacks /\ \A r \in Enabled : rules[r].lookback = l
    BY RulesAre DEF Base, Calendar, OneWindow
  <2>4. ss = {s}
    BY <1>3, <2>1, <2>3
  <2>5. frame \in PriceRows /\ DOMAIN frame # {} /\ OfCloses(frame)
    BY DEF DecidesOn
  <2>6. /\ w \in PriceRows /\ DOMAIN w # {}
        /\ DOMAIN w = DOMAIN frame \cap (Last(frame) - l + 1..Last(frame))
        /\ \A d \in DOMAIN w : w[d] = frame[d]
        /\ s.lookback = l /\ s.date = Last(frame) /\ s.price = frame[Last(frame)]
        /\ s.peak = Peak(w) /\ s.high = w[Peak(w)]
    BY ZenonT(60), <2>3, <2>5, StatusIs
  <2>7. \A d \in DOMAIN closes : Last(frame) - l + 1 <= d /\ d < Last(frame)
           => d \in DOMAIN frame /\ frame[d] = closes[d]
    <3>1. (expected # None => Last(frame) = expected) /\ l \in Lookbacks
      BY <1>3, <2>3
    <3> HIDE DEF l
    <3> QED
      BY <3>1, FrameComplete
  <2>8. /\ Last(frame) \in DOMAIN frame /\ Last(frame) \in Nat /\ l \in Nat
        /\ \A d \in DOMAIN closes : d \in Nat
    BY <2>3, <2>5, FirstAndLast, TypesAre, RowsAre DEF Base, Days
  <2>9. \A d \in DOMAIN w : w[d] < w[Peak(w)] \/ (w[d] = w[Peak(w)] /\ Peak(w) <= d)
    BY <2>6, PeakIs
  <2> HIDE DEF ss, w, s, l
  <2>10. HighsAreTrue'
    <3> SUFFICES ASSUME NEW d \in DOMAIN closes, d \in s.date - s.lookback + 1..s.date - 1
                 PROVE  closes[d] < s.high \/ (closes[d] = s.high /\ s.peak <= d)
      BY <1>1, <2>1, <2>4 DEF HighsAreTrue
    <3>1. Last(frame) - l + 1 <= d /\ d < Last(frame) /\ d <= Last(frame)
      BY <2>6, <2>8
    <3>2. d \in DOMAIN w /\ w[d] = closes[d]
      BY <2>6, <2>7, <2>8, <3>1
    <3> QED
      BY <2>6, <2>9, <3>2
  <2>11. FallsAreTold'
    <3> DEFINE W == Restriction(closes, Last(frame) - l + 1..Last(frame))
    <3> SUFFICES ASSUME evening, Last(frame) \in DOMAIN closes, NEW t \in Thresholds,
                        Meets(closes[Last(frame)], W[Peak(W)], t)
                 PROVE  <<l, Peak(W), t>> \in Keys(events')
      BY <1>1, <2>1, <2>3, <2>4, <2>6 DEF FallsAreTold, Enabled
    <3>1. W = w
      <4> DEFINE days == Last(frame) - l + 1..Last(frame)
      <4>1. closes \in PriceRows /\ W = Restriction(closes, days)
        BY TypesAre DEF Base
      <4>2. \A d \in days : d \in DOMAIN closes <=> d \in DOMAIN frame
        BY <2>5, <2>7, <2>8 DEF OfCloses
      <4>3. \A d \in DOMAIN frame : frame[d] = closes[d]
        BY <2>5 DEF OfCloses
      <4> HIDE DEF W, days
      <4>4. /\ W \in PriceRows /\ DOMAIN W = DOMAIN closes \cap days
            /\ \A d \in DOMAIN closes \cap days : W[d] = closes[d]
        BY <4>1, RestrictionIs
      <4>5. DOMAIN w = DOMAIN frame \cap days
        BY <2>6 DEF days
      <4>6. DOMAIN W = DOMAIN w /\ \A d \in DOMAIN W : W[d] = w[d]
        BY <2>6, <4>2, <4>3, <4>4, <4>5
      <4> QED
        BY <2>6, <4>4, <4>6, RowsEqual
    <3> HIDE DEF W
    <3> DEFINE key == <<l, s.peak, t>>
               a == [key |-> key, rule |-> r0, at |-> today]
    <3>2. key = <<l, Peak(W), t>> /\ Meets(s.price, s.high, t)
      <4>1. s.price = closes[Last(frame)]
        BY <2>5, <2>6, <2>8 DEF OfCloses
      <4> QED
        BY <2>6, <3>1, <4>1
    <3>3. CASE key \in Keys(events)
      BY <1>1, <3>2, <3>3 DEF Keys
    <3>4. CASE key \notin Keys(events)
      <4>1. /\ a \in [key : {<<x.lookback, x.peak, u>> : x \in ss, u \in Thresholds},
                      rule : Enabled, at : {today}]
            /\ a.key = key /\ a.rule = r0
        BY <2>4, <2>6
      <4>2. a.key[1] = l /\ a.key[2] = s.peak /\ a.key[3] = t
        OBVIOUS
      <4>3. a \in Alerts(ss)
        <5>1. \A r \in Enabled : rules[r].lookback = a.key[1] => a.rule <= r
          BY <2>2, <4>1
        <5>2. \E x \in ss : /\ x.lookback = a.key[1] /\ x.peak = a.key[2]
                            /\ Meets(x.price, x.high, a.key[3])
          BY <2>4, <2>6, <3>2, <4>2
        <5>3. rules[a.rule].lookback = a.key[1] /\ a.key \notin Keys(events)
          BY <2>3, <3>4, <4>1, <4>2
        <5> HIDE DEF a
        <5> QED
          BY <4>1, <5>1, <5>2, <5>3 DEF Alerts
      <4> HIDE DEF a
      <4>4. key \in Keys(events')
        BY <1>1, <4>1, <4>3 DEF Keys
      <4> QED
        BY <3>2, <4>4
    <3> QED
      BY <3>3, <3>4
  <2> QED
    BY <2>10, <2>11
<1> QED
  BY <1>2, <1>3

HighInv == Base /\ Filling /\ HighsAreTrue /\ FallsAreTold

LEMMA InitHighs == Init => Filling /\ HighsAreTrue /\ FallsAreTold
<1> SUFFICES ASSUME Init PROVE Filling /\ HighsAreTrue /\ FallsAreTold
  OBVIOUS
<1>1. DOMAIN closes = {} /\ statuses = {}
  BY NothingIs DEF Init
<1> QED
  BY <1>1 DEF Filling, Filled, HighsAreTrue, FallsAreTold

LEMMA NoDecisionHighs ==
  ASSUME statuses' = {}
  PROVE  HighsAreTrue' /\ FallsAreTold'
  BY DEF HighsAreTrue, FallsAreTold

LEMMA CheckHighs ==
  ASSUME HighInv, Calendar, RecentPrice,
         AfterCloseCheck \/ \E p \in Prices : BeforeCloseCheck(p) \/ CheckCommand(p)
  PROVE  (Filling /\ HighsAreTrue /\ FallsAreTold)'
<1>1. PICK q, row, spot, expected :
        CheckOf(q, row, spot, expected) /\ Evaluate(q, row, spot, expected)
  BY ChecksAre
<1>2. GoodRequest(q, spot) /\ GoodRow(row)
  BY <1>1, ChecksAreGood DEF HighInv, Base
<1>3. /\ Filled(history, StorageStart) => Filled(history', StorageStart)
      /\ NoDecision \/ \E frame : DecidesOn(frame, q, row, expected)
      /\ UNCHANGED <<today, evening, closes, published, rules, pruned>>
  BY <1>1, <1>2, EvaluateDoes DEF HighInv, Base
<1>4. HighsAreTrue' /\ FallsAreTold'
  <2>1. CASE NoDecision
    BY <2>1, NoDecisionHighs DEF NoDecision
  <2>2. CASE \E frame : DecidesOn(frame, q, row, expected)
    BY <1>1, <2>2, DecisionIsTrue DEF HighInv
  <2> QED
    BY <1>3, <2>1, <2>2
<1>5. Filling'
  <2> SUFFICES ASSUME NEW l \in Lookbacks
               PROVE  Filled(history', today - l - Buffer)
    BY <1>3 DEF Filling, Filled
  <2>1. Enabled # {}
    BY <1>1 DEF Evaluate
  <2>2. StorageStart = today - l - Buffer
    BY <2>1, StorageStartIs DEF HighInv, Base, Calendar
  <2> QED
    BY <1>3, <2>2 DEF HighInv, Filling
<1> QED
  BY <1>4, <1>5

LEMMA PruneFilling ==
  ASSUME Base, Filling, Calendar, Prune
  PROVE  Filling'
<1> SUFFICES ASSUME NEW l \in Lookbacks, NEW d \in DOMAIN closes, NEW e \in DOMAIN history',
                    today - l - Buffer <= d, d <= e
             PROVE  d \in DOMAIN history'
  BY DEF Prune, Filling, Filled
<1>1. CASE Enabled = {}
  BY <1>1, NothingIs DEF Prune
<1>2. CASE Enabled # {}
  <2> DEFINE days == StorageStart..today
  <2>1. history' = Restriction(history, days) /\ history \in PriceRows
    BY <1>2, TypesAre DEF Prune, Base
  <2> HIDE DEF days
  <2>2. DOMAIN Restriction(history, days) = DOMAIN history \cap days
    BY <2>1, RestrictionIs
  <2>3. d \in DOMAIN history
    BY <2>1, <2>2 DEF Filling, Filled
  <2>4. StorageStart = today - l - Buffer
    BY <1>2, StorageStartIs DEF Base, Calendar
  <2>5. d \in Nat /\ d <= today /\ today \in Nat /\ l \in Nat
    BY TypesAre, RowsAre DEF Base, Days
  <2>6. d \in days
    BY <2>4, <2>5 DEF days
  <2> QED
    BY <2>1, <2>2, <2>3, <2>6
<1> QED
  BY <1>1, <1>2

LEMMA OtherFilling ==
  ASSUME Base, Filling,
         \/ \E p \in Prices : Close(p)
         \/ Publish \/ NextDay
         \/ \E l \in Lookbacks : AddRule(l)
         \/ \E r \in 1..Len(rules) : DeleteRule(r)
  PROVE  Filling'
<1>1. /\ today \in Nat /\ published \in Nat /\ published <= today
      /\ \A d \in DOMAIN history : d \in Nat /\ d <= published
  BY TypesAre, RowsAre DEF Base, MarketFacts, Days
<1>2. CASE \E p \in Prices : Close(p)
  <2> SUFFICES ASSUME NEW l \in Lookbacks, NEW d \in DOMAIN closes', NEW e \in DOMAIN history,
                      today - l - Buffer <= d, d <= e
               PROVE  d \in DOMAIN history
    BY <1>2 DEF Close, Filling, Filled
  <2>1. d \in DOMAIN closes \/ d = today
    BY <1>2, CloseBase
  <2>2. CASE d \in DOMAIN closes
    BY <2>2 DEF Filling, Filled
  <2>3. CASE d = today
    <3>1. e = today
      BY <1>1, <2>3
    <3> QED
      BY <1>2, <3>1 DEF Close, Base, MarketFacts, HistoryIsOfCloses
  <2> QED
    BY <2>1, <2>2, <2>3
<1>3. CASE NextDay
  <2>1. today' = today + 1 /\ closes' = closes /\ history' = history
    BY <1>3 DEF NextDay
  <2>2. ASSUME NEW l \in Lookbacks, NEW d \in DOMAIN closes, NEW e \in DOMAIN history,
               today + 1 - l - Buffer <= d, d <= e
        PROVE  d \in DOMAIN history
    <3>1. d \in Nat /\ l \in Nat
      BY TypesAre, RowsAre DEF Base, Days
    <3>2. today - l - Buffer <= d
      BY <1>1, <2>2, <3>1
    <3> QED
      BY <2>2, <3>2 DEF Filling, Filled
  <2> SUFFICES ASSUME NEW l \in Lookbacks, NEW d \in DOMAIN closes', NEW e \in DOMAIN history',
                      today' - l - Buffer <= d, d <= e
               PROVE  d \in DOMAIN history'
    BY DEF Filling, Filled
  <2>3. today + 1 - l - Buffer <= d
    <3>1. today' = today + 1 /\ today \in Nat /\ l \in Nat
      BY <1>1, <2>1
    <3> QED
      BY <3>1
  <2>4. d \in DOMAIN closes /\ e \in DOMAIN history
    BY <2>1
  <2>5. d \in DOMAIN history
    BY <2>2, <2>3, <2>4
  <2> QED
    BY <2>1, <2>5
<1>4. CASE Publish \/ (\E l \in Lookbacks : AddRule(l))
           \/ (\E r \in 1..Len(rules) : DeleteRule(r))
  BY <1>4 DEF Publish, AddRule, DeleteRule, Filling, Filled
<1> QED
  BY <1>2, <1>3, <1>4

LEMMA NextHighs == Calendar /\ RecentPrice /\ HighInv /\ [Next]_vars => HighInv'
<1> SUFFICES ASSUME Calendar, RecentPrice, HighInv, [Next]_vars PROVE HighInv'
  OBVIOUS
<1>1. Base'
  BY NextBase DEF HighInv
<1>2. CASE UNCHANGED vars
  BY <1>1, <1>2 DEF vars, HighInv, Filling, Filled, HighsAreTrue, FallsAreTold, Enabled
<1>3. CASE AfterCloseCheck \/ \E p \in Prices : BeforeCloseCheck(p) \/ CheckCommand(p)
  BY <1>1, <1>3, CheckHighs DEF HighInv
<1>4. CASE \/ \E p \in Prices : Close(p)
           \/ Publish \/ NextDay
           \/ \E l \in Lookbacks : AddRule(l)
           \/ \E r \in 1..Len(rules) : DeleteRule(r)
  <2>1. statuses' = {}
    BY <1>4 DEF Close, Publish, NextDay, AddRule, DeleteRule
  <2> QED
    BY <1>1, <1>4, <2>1, OtherFilling, NoDecisionHighs DEF HighInv
<1>5. CASE Prune
  <2>1. statuses' = {}
    BY <1>5 DEF Prune
  <2> QED
    BY <1>1, <1>5, <2>1, PruneFilling, NoDecisionHighs DEF HighInv
<1> QED
  BY <1>2, <1>3, <1>4, <1>5 DEF Next

LEMMA HighInvariant == Calendar => (Spec /\ []RecentPrice => []HighInv)
<1> SUFFICES ASSUME Calendar PROVE Spec /\ []RecentPrice => []HighInv
  OBVIOUS
<1>1. Init => HighInv
  BY InitBase, InitHighs DEF HighInv
<1>2. RecentPrice /\ HighInv /\ [Next]_vars => HighInv'
  BY NextHighs
<1> QED
  BY <1>1, <1>2, PTL DEF Spec

(* With one window length and breaks no longer than the buffer no close of *)
(* the window is missing from any decision, however the provider lags, the *)
(* service pauses and rows are pruned.                                     *)
THEOREM HighsTrue == Calendar => (Spec /\ []RecentPrice => []HighsAreTrue)
<1> SUFFICES ASSUME Calendar PROVE Spec /\ []RecentPrice => []HighsAreTrue
  OBVIOUS
<1>1. HighInv => HighsAreTrue
  BY DEF HighInv
<1> QED
  BY <1>1, HighInvariant, PTL

(* Under the same conditions a check on today's close leaves no rule and   *)
(* threshold untold that the true fall from the true high reaches.         *)
THEOREM FallsTold == Calendar => (Spec /\ []RecentPrice => []FallsAreTold)
<1> SUFFICES ASSUME Calendar PROVE Spec /\ []RecentPrice => []FallsAreTold
  OBVIOUS
<1>1. HighInv => FallsAreTold
  BY DEF HighInv
<1> QED
  BY <1>1, HighInvariant, PTL

-----------------------------------------------------------------------------
(* Reminders are kept long enough if retention covers window and buffer.   *)

LongRetention == \A l \in Lookbacks : l + Buffer <= Retention

KeyInv ==
  /\ \A e \in events : e.key[2] <= e.at
  /\ \A k \in told : k \in Keys(events) \/ k[1] + k[2] + Buffer < today

LEMMA KeysAre ==
  ASSUME TypeOK
  PROVE  /\ \A e \in events : /\ e.key \in Windows /\ e.key[1] \in Lookbacks /\ e.key[1] \in Nat
                              /\ e.key[2] \in Nat /\ e.at \in Nat
         /\ \A k \in told : k[1] \in Nat /\ k[2] \in Nat
<1>1. \A k \in Windows : k[1] \in Lookbacks /\ k[1] \in Nat /\ k[2] \in Nat
  <2>1. \A k \in Windows : k[1] \in Lookbacks /\ k[2] \in Days
    BY DEF Windows
  <2>2. \A d \in Days : d \in Nat
    BY DEF Days
  <2> QED
    BY <2>1, <2>2
<1>2. \A e \in EventRow(Len(rules)) : e.key \in Windows /\ e.at \in Nat
  BY DEF EventRow, Days
<1> QED
  BY <1>1, <1>2, TypeParts

(* A new reminder's high lies in the window that ends at a recent day.     *)
LEMMA DecisionKeys ==
  ASSUME Base, Filling, Calendar, RecentPrice, NEW q, NEW row, NEW spot, NEW expected, NEW frame,
         CheckOf(q, row, spot, expected), Evaluate(q, row, spot, expected),
         DecidesOn(frame, q, row, expected)
  PROVE  \E A : /\ events' = events \cup A /\ told' = told \cup Keys(A)
                /\ \A a \in A : a.key[2] <= a.at /\ today <= a.key[1] + a.key[2] + Buffer
<1> DEFINE ss == IF expected # None /\ Last(frame) # expected THEN {}
                 ELSE {Status(frame, rules[r].lookback) : r \in Enabled}
           A == Alerts(ss)
<1>1. events' = events \cup A /\ told' = told \cup Keys(A)
  BY DEF DecidesOn, Decide
<1>2. ASSUME NEW s \in ss PROVE s.peak <= today /\ today <= s.lookback + s.peak + Buffer
  <2>1. /\ expected # None => Last(frame) = expected
        /\ \E r \in Enabled : s = Status(frame, rules[r].lookback)
    BY <1>2
  <2>2. PICK r \in Enabled : s = Status(frame, rules[r].lookback)
    BY <2>1
  <2> DEFINE l == rules[r].lookback
             w == Window(frame, l)
  <2>3. l \in Lookbacks
    BY RulesAre DEF Base
  <2>4. frame \in PriceRows /\ DOMAIN frame # {} /\ OfCloses(frame)
    BY DEF DecidesOn
  <2>5. s = Status(frame, l)
    BY <2>2
  <2> HIDE DEF l
  <2>6. /\ w \in PriceRows /\ DOMAIN w # {}
        /\ DOMAIN w = DOMAIN frame \cap (Last(frame) - l + 1..Last(frame))
        /\ s.lookback = l /\ s.peak = Peak(w)
    BY ZenonT(60), <2>3, <2>4, <2>5, StatusIs
  <2>7. Peak(w) \in DOMAIN w
    BY <2>6, PeakIs
  <2>8. today - Buffer - 1 <= Last(frame)
    BY <2>1, <2>3, FrameComplete
  <2>9. /\ Last(frame) \in Nat /\ today \in Nat /\ Last(frame) <= today /\ l \in Nat
    BY <2>3, <2>4, FirstAndLast, TypesAre, RowsAre DEF Base, Days, OfCloses
  <2>10. s.peak \in Nat /\ s.peak <= Last(frame) /\ Last(frame) - l + 1 <= s.peak
    BY <2>4, <2>6, <2>7, <2>9, RowsAre DEF Days
  <2> QED
    BY <2>6, <2>8, <2>9, <2>10
<1> HIDE DEF ss
<1>3. ASSUME NEW a \in A PROVE a.key[2] <= a.at /\ today <= a.key[1] + a.key[2] + Buffer
  <2>1. /\ a.at = today
        /\ \E s \in ss : s.lookback = a.key[1] /\ s.peak = a.key[2]
    BY <1>3 DEF Alerts
  <2> QED
    BY <1>2, <2>1
<1> HIDE DEF A
<1> QED
  BY <1>1, <1>3

LEMMA NextKeys ==
  ASSUME Calendar, LongRetention, RecentPrice, HighInv, KeyInv, [Next]_vars
  PROVE  KeyInv' /\ Keys(events') \cap told \subseteq Keys(events)
<1>1. today \in Nat
  BY TypesAre DEF HighInv, Base
<1>2. CASE AfterCloseCheck \/ \E p \in Prices : BeforeCloseCheck(p) \/ CheckCommand(p)
  <2>1. PICK q, row, spot, expected :
          CheckOf(q, row, spot, expected) /\ Evaluate(q, row, spot, expected)
    BY <1>2, ChecksAre
  <2>2. GoodRequest(q, spot) /\ GoodRow(row)
    BY <2>1, ChecksAreGood DEF HighInv, Base
  <2>3. /\ NoDecision \/ \E frame : DecidesOn(frame, q, row, expected)
        /\ today' = today
    BY <2>1, <2>2, EvaluateDoes DEF HighInv, Base
  <2>4. CASE NoDecision
    BY <2>3, <2>4 DEF NoDecision, KeyInv, Keys
  <2>5. CASE \E frame : DecidesOn(frame, q, row, expected)
    <3>1. PICK A : /\ events' = events \cup A /\ told' = told \cup Keys(A)
                   /\ \A a \in A : a.key[2] <= a.at /\ today <= a.key[1] + a.key[2] + Buffer
      BY <2>1, <2>5, DecisionKeys DEF HighInv
    <3>2. Keys(events') = Keys(events) \cup Keys(A)
      BY <3>1 DEF Keys
    <3>3. KeyInv'
      BY <2>3, <3>1, <3>2 DEF KeyInv
    <3>4. ASSUME NEW k \in Keys(A), k \in told PROVE k \in Keys(events)
      <4>1. k[1] \in Nat /\ k[2] \in Nat
        BY <3>4, KeysAre DEF HighInv, Base
      <4>2. today <= k[1] + k[2] + Buffer
        BY <3>1 DEF Keys
      <4> QED
        BY <1>1, <3>4, <4>1, <4>2 DEF KeyInv
    <3> QED
      BY <3>2, <3>3, <3>4
  <2> QED
    BY <2>3, <2>4, <2>5
<1>3. CASE Prune
  <2>1. /\ today' = today /\ told' = told
        /\ events' = {e \in events : e.at >= today - Retention \/ KeyMayBeUsed(e)}
    BY <1>3 DEF Prune
  <2>2. ASSUME NEW k \in told PROVE k \in Keys(events') \/ k[1] + k[2] + Buffer < today
    <3>1. CASE k \notin Keys(events)
      BY <3>1 DEF KeyInv
    <3>2. CASE k \in Keys(events)
      <4>1. PICK e \in events : e.key = k
        BY <3>2 DEF Keys
      <4>2. CASE e \in events'
        BY <4>1, <4>2 DEF Keys
      <4>3. CASE e \notin events'
        <5>1. ~ (e.at >= today - Retention)
          BY <2>1, <4>3
        <5>2. /\ k[1] \in Nat /\ k[2] \in Nat /\ e.at \in Nat /\ k[1] + Buffer <= Retention
              /\ k[2] <= e.at
          BY <4>1, KeysAre DEF HighInv, Base, LongRetention, KeyInv
        <5> QED
          BY <1>1, <5>1, <5>2
      <4> QED
        BY <4>2, <4>3
    <3> QED
      BY <3>1, <3>2
  <2> QED
    BY <2>1, <2>2 DEF KeyInv, Keys
<1>4. CASE NextDay
  <2>1. today' = today + 1 /\ UNCHANGED <<events, told>>
    BY <1>4 DEF NextDay
  <2>2. \A k \in told : k[1] \in Nat /\ k[2] \in Nat
    BY KeysAre DEF HighInv, Base
  <2> QED
    BY <1>1, <2>1, <2>2 DEF KeyInv, Keys
<1>5. CASE \/ \E p \in Prices : Close(p)
           \/ Publish
           \/ \E l \in Lookbacks : AddRule(l)
           \/ \E r \in 1..Len(rules) : DeleteRule(r)
           \/ UNCHANGED vars
  <2>1. UNCHANGED <<today, events, told>>
    BY <1>5 DEF Close, Publish, AddRule, DeleteRule, vars
  <2> QED
    BY <2>1 DEF KeyInv, Keys
<1> QED
  BY <1>2, <1>3, <1>4, <1>5 DEF Next

(* With retention that covers window and buffer no fall is told twice: a   *)
(* reminder is only pruned when its high can no longer be in a window.     *)
THEOREM ToldOnce == Calendar /\ LongRetention => (Spec /\ []RecentPrice => OncePerHigh)
<1> SUFFICES ASSUME Calendar, LongRetention PROVE Spec /\ []RecentPrice => OncePerHigh
  OBVIOUS
<1>1. Init => KeyInv
  BY DEF Init, KeyInv
<1>2. RecentPrice /\ HighInv /\ KeyInv /\ [Next]_vars => KeyInv'
  BY NextKeys
<1>3. RecentPrice /\ HighInv /\ KeyInv /\ [Next]_vars => [Keys(events') \cap told \subseteq Keys(events)]_vars
  BY NextKeys
<1> QED
  BY <1>1, <1>2, <1>3, HighInvariant, PTL DEF Spec, OncePerHigh
=============================================================================
