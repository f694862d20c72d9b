----------------------- MODULE DeliveryRefinementProofs -----------------------
(***************************************************************************)
(* What the tables of the delivery say is true, and the delivery code      *)
(* implements DeliveryPromise, for every value of the constants.           *)
(***************************************************************************)
EXTENDS NotificationDeliveryProofs

USE DeliveryAssumption

-----------------------------------------------------------------------------
(* What calls and rows record of a send is what the target has received.   *)

(* A delivery under way. *)
SlotTrue(d, t) ==
  /\ slot[d][t] = "recording" <=> outcome[d][t] # "none"
  /\ slot[d][t] \in {"idle", "queued"} => sentChunks[d][t] = 0 /\ body[d][t] = {}
  /\ held[d][t] \subseteq body[d][t]
  /\ \A e \in body[d][t] : rowStatus[e][t] # "none"
  /\ \A k \in 1..sentChunks[d][t] : <<Message(d, t), k>> \in heard[t]
  /\ outcome[d][t] = "sent" => sentChunks[d][t] = Chunks(Message(d, t))

(* A row. *)
RowTrue(e, t) ==
  /\ \A k \in 1..progress[e][t].chunks : <<progress[e][t].message, k>> \in heard[t]
  /\ rowStatus[e][t] = "sent" => Received(e, t)

RecordsAreTrue ==
  /\ \A d \in Dispatchers, t \in Targets : SlotTrue(d, t)
  /\ \A e \in Events, t \in Targets : RowTrue(e, t)

(* A whole message is received when each of its chunks is heard. *)
LEMMA HeardIsReceived ==
  ASSUME NEW m, Chunks(m) \in Nat \ {0}, NEW e \in m[1], NEW t,
         \A k \in 1..Chunks(m) : <<m, k>> \in heard[t]
  PROVE  Received(e, t)
<1>1. <<m, 1>> \in heard[t]
  OBVIOUS
<1>2. m \in {h[1] : h \in heard[t]}
  BY <1>1
<1> QED
  BY <1>2 DEF Received

LEMMA ReceivedLasts ==
  ASSUME NEW e, NEW t, Received(e, t), heard[t] \subseteq heard'[t]
  PROVE  Received(e, t)'
  BY DEF Received

(* What is not touched stays true. *)
LEMMA SlotKept ==
  ASSUME NEW d, NEW t, SlotTrue(d, t),
         slot'[d][t] = slot[d][t], held'[d][t] = held[d][t], body'[d][t] = body[d][t],
         sentChunks'[d][t] = sentChunks[d][t], outcome'[d][t] = outcome[d][t],
         version'[d] = version[d] \/ slot[d][t] \in {"idle", "queued"},
         heard[t] \subseteq heard'[t],
         \A e \in body[d][t] : rowStatus[e][t] # "none" => rowStatus'[e][t] # "none"
  PROVE  SlotTrue(d, t)'
<1>1. CASE version'[d] = version[d]
  BY <1>1 DEF SlotTrue, Message, Chunks
<1>2. CASE slot[d][t] \in {"idle", "queued"}
  BY <1>2 DEF SlotTrue
<1> QED
  BY <1>1, <1>2

LEMMA RowKept ==
  ASSUME NEW e, NEW t, RowTrue(e, t), progress'[e][t] = progress[e][t],
         rowStatus'[e][t] = "sent" => rowStatus[e][t] = "sent",
         heard[t] \subseteq heard'[t]
  PROVE  RowTrue(e, t)'
  BY ReceivedLasts DEF RowTrue

LEMMA FrameRecords ==
  ASSUME RecordsAreTrue, UNCHANGED <<rowStatus, progress, version, slotVars, heard>>
  PROVE  RecordsAreTrue'
  BY SlotKept, RowKept DEF RecordsAreTrue, slotVars

(* A send resumes after chunks the target has of the same message. *)
LEMMA ResumeHeard ==
  ASSUME TypeOK, RecordsAreTrue, NEW C \in SUBSET Events, C # {}, NEW t \in Targets, NEW m
  PROVE  \A k \in 1..ResumeAt(C, t, m) : <<m, k>> \in heard[t]
<1> DEFINE e == CHOOSE e \in C : TRUE
<1>1. e \in Events
  OBVIOUS
<1>2. RowTrue(e, t) /\ progress[e][t] \in [chunks : Nat, message : Messages]
  BY <1>1 DEF RecordsAreTrue, TypeOK
<1> HIDE DEF e
<1>3. \/ ResumeAt(C, t, m) = 0
      \/ progress[e][t].message = m /\ ResumeAt(C, t, m) = progress[e][t].chunks
  BY DEF ResumeAt, e
<1> QED
  BY <1>2, <1>3 DEF RowTrue

LEMMA NextBatchRecords ==
  ASSUME TypeOK, ClaimsInStep, RecordsAreTrue, NEW d \in Dispatchers,
         NEW B \in SUBSET Events, NEW v \in Versions, NextBatch(d, B, v)
  PROVE  RecordsAreTrue'
<1>1. UNCHANGED <<progress, held, body, sentChunks, outcome, heard>>
  BY DEF NextBatch
<1>2. \A e \in Events, t \in Targets :
        \/ rowStatus'[e][t] = rowStatus[e][t]
        \/ rowStatus'[e][t] = "pending"
  BY DEF NextBatch
<1>3. ASSUME NEW c \in Dispatchers, NEW t \in Targets PROVE SlotTrue(c, t)'
  <2>1. body[c][t] \subseteq Events
    BY DEF TypeOK
  <2>2. CASE c = d
    <3>1. slot[d][t] = "idle" /\ slot'[d][t] \in {"idle", "queued"}
      BY DEF NextBatch, ClaimsInStep, TypeOK
    <3> QED
      BY <1>1, <2>2, <3>1 DEF RecordsAreTrue, SlotTrue
  <2>3. CASE c # d
    <3>1. slot'[c] = slot[c] /\ version'[c] = version[c]
      BY <2>3 DEF NextBatch, TypeOK
    <3> QED
      BY <1>1, <1>2, <2>1, <3>1, SlotKept DEF RecordsAreTrue
  <2> QED
    BY <2>2, <2>3
<1>4. ASSUME NEW e \in Events, NEW t \in Targets PROVE RowTrue(e, t)'
  BY <1>1, <1>2, RowKept DEF RecordsAreTrue
<1> QED
  BY <1>3, <1>4 DEF RecordsAreTrue

(* A claim takes unfinished rows only. *)
LEMMA ClaimRows ==
  ASSUME TypeOK, NEW d \in Dispatchers, NEW t \in Targets, Claim(d, t),
         NEW e \in Events, NEW u \in Targets
  PROVE  \/ rowStatus'[e][u] = rowStatus[e][u]
         \/ rowStatus'[e][u] = "sending" /\ rowStatus[e][u] \in Unfinished
<1> DEFINE C == Claimable(batch[d], t)
<1>1. \A f \in C : rowStatus[f][t] \in Unfinished
  BY DEF Claimable, Unfinished
<1> HIDE DEF C
<1>2. \/ rowStatus' = rowStatus
      \/ rowStatus' = [f \in Events |-> IF f \in C
           THEN [rowStatus[f] EXCEPT ![t] = "sending"] ELSE rowStatus[f]]
  BY DEF Claim, dbVars, C
<1>3. rowStatus[e] \in [Targets -> RowStatus]
  BY DEF TypeOK
<1>4. \/ rowStatus'[e] = rowStatus[e]
      \/ e \in C /\ rowStatus'[e] = [rowStatus[e] EXCEPT ![t] = "sending"]
  BY <1>2
<1> QED
  BY <1>1, <1>3, <1>4

LEMMA ClaimRecords ==
  ASSUME TypeOK, ClaimsInStep, RecordsAreTrue, NEW d \in Dispatchers, NEW t \in Targets,
         Claim(d, t)
  PROVE  RecordsAreTrue'
<1> DEFINE C == Claimable(batch[d], t)
<1>1. C \subseteq Events
  BY DEF Claimable, TypeOK
<1>2. UNCHANGED <<version, outcome, heard>> /\ slot[d][t] = "queued"
  BY DEF Claim, callVars
<1>3. CASE C = {}
  <2>1. /\ slot' = [slot EXCEPT ![d][t] = "idle"]
        /\ UNCHANGED <<rowStatus, progress, held, body, sentChunks>>
    BY <1>3 DEF Claim, dbVars
  <2>2. ASSUME NEW c \in Dispatchers, NEW u \in Targets PROVE SlotTrue(c, u)'
    <3>1. CASE c = d /\ u = t
      <4>1. slot'[c][u] = "idle"
        BY <2>1, <3>1 DEF TypeOK
      <4> QED
        BY <1>2, <2>1, <3>1, <4>1 DEF RecordsAreTrue, SlotTrue
    <3>2. CASE ~ (c = d /\ u = t)
      <4>1. slot'[c][u] = slot[c][u]
        BY <2>1, <3>2 DEF TypeOK
      <4> QED
        BY <1>2, <2>1, <4>1, SlotKept DEF RecordsAreTrue
    <3> QED
      BY <3>1, <3>2
  <2>3. ASSUME NEW e \in Events, NEW u \in Targets PROVE RowTrue(e, u)'
    BY <1>2, <2>1, RowKept DEF RecordsAreTrue
  <2> QED
    BY <2>2, <2>3 DEF RecordsAreTrue
<1>4. CASE C # {}
  <2> DEFINE n == ResumeAt(C, t, <<C, version[d]>>)
  <2>1. \A k \in 1..n : <<<<C, version[d]>>, k>> \in heard[t]
    BY <1>1, <1>4, ResumeHeard
  <2> HIDE DEF C, n
  <2>2. /\ slot' = [slot EXCEPT ![d][t] = "sending"]
        /\ held' = [held EXCEPT ![d][t] = C]
        /\ body' = [body EXCEPT ![d][t] = C]
        /\ sentChunks' = [sentChunks EXCEPT ![d][t] = n]
        /\ rowStatus' = [e \in Events |-> IF e \in C
             THEN [rowStatus[e] EXCEPT ![t] = "sending"] ELSE rowStatus[e]]
        /\ progress' = progress
    BY <1>4 DEF Claim, C, n
  <2>3. \A e \in Events, u \in Targets :
          \/ rowStatus'[e][u] = rowStatus[e][u] /\ ~ (u = t /\ e \in C)
          \/ rowStatus'[e][u] = "sending" /\ u = t /\ e \in C
    BY <2>2 DEF TypeOK
  <2>4. ASSUME NEW c \in Dispatchers, NEW u \in Targets PROVE SlotTrue(c, u)'
    <3>1. CASE c = d /\ u = t
      <4>1. /\ slot'[c][u] = "sending" /\ held'[c][u] = C /\ body'[c][u] = C
            /\ sentChunks'[c][u] = n /\ outcome'[c][u] = outcome[c][u]
        BY <1>2, <2>2, <3>1 DEF TypeOK
      <4>2. outcome[c][u] = "none"
        BY <1>2, <3>1 DEF RecordsAreTrue, SlotTrue
      <4>3. Message(c, u)' = <<C, version[d]>>
        BY <1>2, <3>1, <4>1 DEF Message
      <4> QED
        BY <1>1, <1>2, <2>1, <2>3, <3>1, <4>1, <4>2, <4>3 DEF SlotTrue
    <3>2. CASE ~ (c = d /\ u = t)
      <4>1. /\ slot'[c][u] = slot[c][u] /\ held'[c][u] = held[c][u]
            /\ body'[c][u] = body[c][u] /\ sentChunks'[c][u] = sentChunks[c][u]
        BY <2>2, <3>2 DEF TypeOK
      <4>2. body[c][u] \subseteq Events
        BY DEF TypeOK
      <4>3. \A e \in body[c][u] : rowStatus[e][u] # "none" => rowStatus'[e][u] # "none"
        BY <2>3, <4>2
      <4>4. version'[c] = version[c] /\ outcome'[c][u] = outcome[c][u] /\ heard' = heard
        BY <1>2
      <4> QED
        BY <4>1, <4>3, <4>4, SlotKept DEF RecordsAreTrue
    <3> QED
      BY <3>1, <3>2
  <2>5. ASSUME NEW e \in Events, NEW u \in Targets PROVE RowTrue(e, u)'
    <3>1. RowTrue(e, u)
      BY DEF RecordsAreTrue
    <3>2. progress'[e][u] = progress[e][u] /\ heard[u] \subseteq heard'[u]
      BY <1>2, <2>2
    <3>3. rowStatus'[e][u] = "sent" => rowStatus[e][u] = "sent"
      BY <2>3
    <3> QED
      BY <3>1, <3>2, <3>3, RowKept
  <2> QED
    BY <2>4, <2>5 DEF RecordsAreTrue
<1> QED
  BY <1>3, <1>4

LEMMA SendChunkRecords ==
  ASSUME TypeOK, RecordsAreTrue, NEW d \in Dispatchers, NEW t \in Targets, SendChunk(d, t)
  PROVE  RecordsAreTrue'
<1> DEFINE k == sentChunks[d][t] + 1
           m == Message(d, t)
<1>1. /\ slot[d][t] = "sending" /\ k <= Chunks(m)
      /\ heard' = [heard EXCEPT ![t] = @ \cup {<<m, k>>}]
      /\ sentChunks' = [sentChunks EXCEPT ![d][t] = k]
      /\ UNCHANGED <<rowStatus, progress, version, held, body>>
  BY DEF SendChunk, dbVars, callVars
<1>2. \/ k # Chunks(m) /\ UNCHANGED <<slot, outcome>>
      \/ /\ k = Chunks(m)
         /\ slot' = [slot EXCEPT ![d][t] = "recording"]
         /\ outcome' = [outcome EXCEPT ![d][t] = "sent"]
  BY DEF SendChunk
<1>3. \A u \in Targets : heard[u] \subseteq heard'[u]
  BY <1>1 DEF TypeOK
<1>4. ASSUME NEW c \in Dispatchers, NEW u \in Targets PROVE SlotTrue(c, u)'
  <2>1. SlotTrue(c, u)
    BY DEF RecordsAreTrue
  <2>2. CASE c = d /\ u = t
    <3>1. sentChunks'[d][t] = k /\ sentChunks[d][t] \in Nat /\ <<m, k>> \in heard'[t]
      BY <1>1 DEF TypeOK
    <3>2. Message(d, t)' = m
      BY <1>1 DEF Message
    <3>3. \A i \in 1..k : <<m, i>> \in heard'[t]
      <4>1. \A i \in 1..k : i = k \/ i \in 1..sentChunks[d][t]
        BY <3>1
      <4> QED
        BY <1>3, <2>1, <2>2, <3>1, <4>1 DEF SlotTrue
    <3>4. \/ k # Chunks(m) /\ slot'[d][t] = slot[d][t] /\ outcome'[d][t] = outcome[d][t]
          \/ k = Chunks(m) /\ slot'[d][t] = "recording" /\ outcome'[d][t] = "sent"
      BY <1>2 DEF TypeOK
    <3>5. outcome[d][t] = "none"
      BY <1>1, <2>1, <2>2 DEF SlotTrue
    <3>6. held'[d][t] \subseteq body'[d][t] /\ \A e \in body'[d][t] : rowStatus'[e][t] # "none"
      BY <1>1, <2>1, <2>2 DEF SlotTrue
    <3>7. Chunks(m)' = Chunks(m)
      BY <1>1 DEF Chunks, Message
    <3>8. outcome'[d][t] = "sent" => sentChunks'[d][t] = Chunks(Message(d, t))'
      BY <1>1, <3>1, <3>4, <3>5 DEF Chunks, Message
    <3> HIDE DEF k, m
    <3> QED
      BY <1>1, <2>2, <3>1, <3>2, <3>3, <3>4, <3>5, <3>6, <3>8 DEF SlotTrue
  <2>3. CASE ~ (c = d /\ u = t)
    <3>1. /\ slot'[c][u] = slot[c][u] /\ outcome'[c][u] = outcome[c][u]
          /\ sentChunks'[c][u] = sentChunks[c][u]
      BY <1>1, <1>2, <2>3 DEF TypeOK
    <3> QED
      BY <1>1, <1>3, <2>1, <3>1, SlotKept
  <2> QED
    BY <2>2, <2>3
<1>5. ASSUME NEW e \in Events, NEW u \in Targets PROVE RowTrue(e, u)'
  BY <1>1, <1>3, RowKept DEF RecordsAreTrue
<1> QED
  BY <1>4, <1>5 DEF RecordsAreTrue

LEMMA SendFailsRecords ==
  ASSUME TypeOK, RecordsAreTrue, NEW d \in Dispatchers, NEW t \in Targets,
         NEW arrived \in BOOLEAN, SendFails(d, t, arrived)
  PROVE  RecordsAreTrue'
<1>1. /\ slot[d][t] = "sending"
      /\ slot' = [slot EXCEPT ![d][t] = "recording"]
      /\ outcome' = [outcome EXCEPT ![d][t] = "failed"]
      /\ UNCHANGED <<rowStatus, progress, version, held, body, sentChunks>>
  BY DEF SendFails, dbVars, callVars
<1>2. \A u \in Targets : heard[u] \subseteq heard'[u]
  BY DEF SendFails, TypeOK
<1>3. ASSUME NEW c \in Dispatchers, NEW u \in Targets PROVE SlotTrue(c, u)'
  <2>1. SlotTrue(c, u)
    BY DEF RecordsAreTrue
  <2>2. CASE c = d /\ u = t
    <3>1. slot'[c][u] = "recording" /\ outcome'[c][u] = "failed"
      BY <1>1, <2>2 DEF TypeOK
    <3> QED
      BY <1>1, <1>2, <2>1, <2>2, <3>1 DEF SlotTrue, Message
  <2>3. CASE ~ (c = d /\ u = t)
    <3>1. slot'[c][u] = slot[c][u] /\ outcome'[c][u] = outcome[c][u]
      BY <1>1, <2>3 DEF TypeOK
    <3> QED
      BY <1>1, <1>2, <2>1, <3>1, SlotKept
  <2> QED
    BY <2>2, <2>3
<1>4. ASSUME NEW e \in Events, NEW u \in Targets PROVE RowTrue(e, u)'
  BY <1>1, <1>2, RowKept DEF RecordsAreTrue
<1> QED
  BY <1>3, <1>4 DEF RecordsAreTrue

LEMMA RecordRecords ==
  ASSUME TypeOK, RecordsAreTrue, NEW d \in Dispatchers, NEW t \in Targets,
         NEW f \in Events, Record(d, t, f)
  PROVE  RecordsAreTrue'
<1>1. UNCHANGED <<version, heard>> /\ SlotTrue(d, t)
  BY DEF Record, callVars, RecordsAreTrue
<1>2. outcome[d][t] \in {"sent", "failed"} /\ f \in body[d][t]
  BY <1>1 DEF Record, SlotTrue, TypeOK
<1>3. \A e \in Events, u \in Targets :
        \/ rowStatus'[e][u] = rowStatus[e][u] /\ progress'[e][u] = progress[e][u]
        \/ /\ e = f /\ u = t
           /\ rowStatus'[e][u] = outcome[d][t] /\ progress'[e][u] = Checkpoint(d, t)
  <2>1. CASE Accepts(d, t, f)
    <3>1. /\ rowStatus' = [rowStatus EXCEPT ![f][t] = outcome[d][t]]
          /\ progress' = [progress EXCEPT ![f][t] = Checkpoint(d, t)]
      BY <2>1 DEF Record
    <3> QED
      BY <3>1 DEF TypeOK
  <2>2. CASE ~ Accepts(d, t, f)
    BY <2>2 DEF Record, dbVars
  <2> QED
    BY <2>1, <2>2
<1>4. ASSUME NEW c \in Dispatchers, NEW u \in Targets PROVE SlotTrue(c, u)'
  <2>1. SlotTrue(c, u) /\ body[c][u] \subseteq Events
    BY DEF RecordsAreTrue, TypeOK
  <2>2. \A e \in body[c][u] : rowStatus[e][u] # "none" => rowStatus'[e][u] # "none"
    BY <1>2, <1>3, <2>1
  <2>3. held' = [held EXCEPT ![d][t] = @ \ {f}]
    BY DEF Record
  <2>4. CASE c = d /\ u = t /\ held[d][t] = {f}
    <3>1. /\ slot' = [slot EXCEPT ![d][t] = "idle"]
          /\ body' = [body EXCEPT ![d][t] = {}]
          /\ sentChunks' = [sentChunks EXCEPT ![d][t] = 0]
          /\ outcome' = [outcome EXCEPT ![d][t] = "none"]
      BY <2>4 DEF Record
    <3>2. /\ slot'[c][u] = "idle" /\ body'[c][u] = {} /\ sentChunks'[c][u] = 0
          /\ outcome'[c][u] = "none" /\ held'[c][u] = {}
      BY <2>3, <2>4, <3>1 DEF TypeOK
    <3> QED
      BY <3>2 DEF SlotTrue
  <2>5. CASE c = d /\ u = t /\ held[d][t] # {f}
    <3>1. UNCHANGED <<slot, body, sentChunks, outcome>>
      BY <2>5 DEF Record
    <3>2. held'[c][u] \subseteq held[c][u]
      BY <2>3, <2>5 DEF TypeOK
    <3>3. Message(c, u)' = Message(c, u) /\ Chunks(Message(c, u))' = Chunks(Message(c, u))
      BY <1>1, <3>1 DEF Message, Chunks
    <3> QED
      BY <1>1, <2>1, <2>2, <3>1, <3>2, <3>3 DEF SlotTrue
  <2>6. CASE ~ (c = d /\ u = t)
    <3>1. /\ slot'[c][u] = slot[c][u] /\ body'[c][u] = body[c][u]
          /\ sentChunks'[c][u] = sentChunks[c][u] /\ outcome'[c][u] = outcome[c][u]
      BY <2>6 DEF Record, TypeOK
    <3>2. held'[c][u] = held[c][u]
      BY <2>3, <2>6 DEF TypeOK
    <3> QED
      BY <1>1, <2>1, <2>2, <3>1, <3>2, SlotKept
  <2> QED
    BY <2>4, <2>5, <2>6
<1>5. ASSUME NEW e \in Events, NEW u \in Targets PROVE RowTrue(e, u)'
  <2>1. RowTrue(e, u)
    BY DEF RecordsAreTrue
  <2>2. CASE rowStatus'[e][u] = rowStatus[e][u] /\ progress'[e][u] = progress[e][u]
    BY <1>1, <2>1, <2>2, RowKept
  <2>3. CASE /\ e = f /\ u = t
             /\ rowStatus'[e][u] = outcome[d][t] /\ progress'[e][u] = Checkpoint(d, t)
    <3>1. \A k \in 1..Checkpoint(d, t).chunks :
            <<Checkpoint(d, t).message, k>> \in heard[t]
      BY <1>1 DEF Checkpoint, NoProgress, SlotTrue
    <3>2. outcome[d][t] = "sent" => Received(f, t)
      <4>1. f \in Message(d, t)[1]
        BY <1>2 DEF Message
      <4> QED
        BY <1>1, <4>1, MessageType, HeardIsReceived DEF SlotTrue
    <3>3. Received(e, u)' <=> Received(e, u)
      BY <1>1 DEF Received, Chunks
    <3> QED
      BY <1>1, <2>3, <3>1, <3>2, <3>3 DEF RowTrue
  <2> QED
    BY <1>3, <2>2, <2>3
<1> QED
  BY <1>4, <1>5 DEF RecordsAreTrue

LEMMA FinishBatchRecords ==
  ASSUME TypeOK, RecordsAreTrue, NEW d \in Dispatchers, FinishBatch(d)
  PROVE  RecordsAreTrue'
<1>1. UNCHANGED <<rowStatus, progress, slotVars, heard>>
  BY DEF FinishBatch
<1>2. \A c \in Dispatchers, t \in Targets :
        version'[c] = version[c] \/ slot[c][t] \in {"idle", "queued"}
  BY DEF FinishBatch, TypeOK
<1> QED
  BY <1>1, <1>2, SlotKept, RowKept DEF RecordsAreTrue, slotVars

LEMMA CrashRecords ==
  ASSUME TypeOK, RecordsAreTrue, Crash
  PROVE  RecordsAreTrue'
<1>1. UNCHANGED <<rowStatus, progress, heard>>
  BY DEF Crash, dbVars
<1>2. \A d \in Dispatchers, t \in Targets :
        /\ slot'[d][t] = "idle" /\ held'[d][t] = {} /\ body'[d][t] = {}
        /\ sentChunks'[d][t] = 0 /\ outcome'[d][t] = "none"
  BY DEF Crash, PerSlot
<1>3. \A d \in Dispatchers, t \in Targets : SlotTrue(d, t)'
  BY <1>2 DEF SlotTrue
<1>4. ASSUME NEW e \in Events, NEW t \in Targets PROVE RowTrue(e, t)'
  BY <1>1, RowKept DEF RecordsAreTrue
<1> QED
  BY <1>3, <1>4 DEF RecordsAreTrue

LEMMA StartupRecords ==
  ASSUME TypeOK, RecordsAreTrue, NEW A \in SUBSET Targets, Startup(A)
  PROVE  RecordsAreTrue'
<1>1. UNCHANGED <<progress, version, slotVars, heard>>
  BY DEF Startup, callVars
<1>2. \A e \in Events, t \in Targets :
        rowStatus'[e][t] = rowStatus[e][t] \/ rowStatus'[e][t] = "cancelled"
  BY DEF Startup
<1>3. \A d \in Dispatchers, t \in Targets : body[d][t] \subseteq Events
  BY DEF TypeOK
<1>4. ASSUME NEW d \in Dispatchers, NEW t \in Targets PROVE SlotTrue(d, t)'
  BY <1>1, <1>2, <1>3, SlotKept DEF RecordsAreTrue, slotVars
<1>5. ASSUME NEW e \in Events, NEW t \in Targets PROVE RowTrue(e, t)'
  BY <1>1, <1>2, RowKept DEF RecordsAreTrue
<1> QED
  BY <1>4, <1>5 DEF RecordsAreTrue

LEMMA NextRecords ==
  ASSUME TypeOK, ClaimsInStep, RecordsAreTrue, [Next]_vars
  PROVE  RecordsAreTrue'
<1>1. CASE UNCHANGED vars
  BY <1>1, FrameRecords DEF vars, dbVars, callVars, slotVars
<1>2. ASSUME NEW d \in Dispatchers,
             \/ \E e \in Events : Reserve(d, e)
             \/ \E L \in RetryLists : CollectRetries(d, L)
      PROVE  RecordsAreTrue'
  BY <1>2, FrameRecords DEF Reserve, CollectRetries, dbVars
<1>3. CASE Tick
  BY <1>3, FrameRecords DEF Tick, callVars
<1> QED
  BY <1>1, <1>2, <1>3, NextBatchRecords, ClaimRecords, SendChunkRecords,
     SendFailsRecords, RecordRecords, FinishBatchRecords, CrashRecords,
     StartupRecords DEF Next

LEMMA InitRecords == Init => RecordsAreTrue
<1> SUFFICES ASSUME Init PROVE RecordsAreTrue
  OBVIOUS
<1>1. \A d \in Dispatchers, t \in Targets : SlotTrue(d, t)
  BY DEF Init, SlotTrue, PerSlot
<1>2. \A e \in Events, t \in Targets : RowTrue(e, t)
  BY DEF Init, RowTrue, NoProgress
<1> QED
  BY <1>1, <1>2 DEF RecordsAreTrue

LEMMA ClaimsStayInStep == Spec => []ClaimsInStep
  BY InitClaimsInStep, NextClaimsInStep, TypeCorrect, PTL DEF Spec

LEMMA RecordsStayTrue == Spec => []RecordsAreTrue
<1>1. TypeOK /\ ClaimsInStep /\ RecordsAreTrue /\ [Next]_vars => RecordsAreTrue'
  BY NextRecords
<1> QED
  BY <1>1, InitRecords, TypeCorrect, ClaimsStayInStep, PTL DEF Spec

(***************************************************************************)
(* A row is sent only after its target has received a whole message about  *)
(* the event: chunks of two wordings, of a merged and a single message, or *)
(* of a discarded attempt are never counted as one.                        *)
(***************************************************************************)
THEOREM WholeMessages == Spec => []WholeMessageDelivered
<1>1. RecordsAreTrue => WholeMessageDelivered
  BY DEF RecordsAreTrue, RowTrue, WholeMessageDelivered
<1> QED
  BY <1>1, RecordsStayTrue, PTL

-----------------------------------------------------------------------------
(* The status of an event and the statuses of its rows. *)

(* What the aggregate of an event with rows says of them. *)
LEMMA AggregateExact ==
  ASSUME NEW old, NEW rs \in [Targets -> RowStatus], \E t \in Targets : rs[t] # "none"
  PROVE  LET settled == \A t \in Targets : rs[t] \notin Unfinished
             lapsed == \E t \in Targets : rs[t] = "cancelled"
         IN /\ Aggregate(old, rs) = "sent" <=> settled /\ ~lapsed
            /\ Aggregate(old, rs) = "cancelled" <=> settled /\ lapsed
<1> DEFINE statuses == {rs[t] : t \in Targets} \ {"none"}
<1>1. statuses # {}
  OBVIOUS
<1>2. statuses \subseteq {"pending", "sending", "sent", "failed", "cancelled"}
  BY DEF RowStatus
<1>3. \A s : s \in statuses <=> s # "none" /\ \E t \in Targets : rs[t] = s
  OBVIOUS
<1>4. Aggregate(old, rs) =
        CASE statuses = {"sent"} -> "sent"
          [] statuses \cap {"pending", "sending"} # {} -> "pending"
          [] statuses # {} /\ statuses # {"sent"}
               /\ statuses \subseteq {"sent", "cancelled"} -> "cancelled"
          [] OTHER -> "failed"
  BY <1>1 DEF Aggregate
<1>5. (\A t \in Targets : rs[t] \notin Unfinished) <=> statuses \subseteq {"sent", "cancelled"}
  BY <1>2, <1>3 DEF Unfinished, RowStatus
<1>6. (\E t \in Targets : rs[t] = "cancelled") <=> "cancelled" \in statuses
  BY <1>3
<1> HIDE DEF statuses
<1>7. CASE statuses = {"sent"}
  BY <1>4, <1>5, <1>6, <1>7
<1>8. CASE statuses # {"sent"} /\ statuses \subseteq {"sent", "cancelled"}
  BY <1>1, <1>4, <1>5, <1>6, <1>8
<1>9. CASE ~ (statuses \subseteq {"sent", "cancelled"})
  BY <1>1, <1>2, <1>4, <1>5, <1>6, <1>9
<1> QED
  BY <1>7, <1>8, <1>9

(* StatusMatchesRows of one event, given its status and its rows. *)
Matches(status, rs) ==
  LET settled == /\ \E t \in Targets : rs[t] # "none"
                 /\ \A t \in Targets : rs[t] \notin Unfinished
      lapsed == \E t \in Targets : rs[t] = "cancelled"
  IN /\ status = "sent" <=> settled /\ ~lapsed
     /\ status = "cancelled" <=> settled /\ lapsed

LEMMA StatusIsMatching ==
  StatusMatchesRows <=> \A e \in Events : Matches(eventStatus[e], rowStatus[e])
  BY DEF StatusMatchesRows, Matches, Settled, HasRows

LEMMA AggregateMatches ==
  ASSUME NEW old, NEW rs \in [Targets -> RowStatus], \E t \in Targets : rs[t] # "none"
  PROVE  Matches(Aggregate(old, rs), rs)
  BY AggregateExact DEF Matches

(* A closed event is not touched by an aggregate of its own rows, nor is   *)
(* one without rows closed by it. *)
LEMMA AggregateKeeps ==
  ASSUME NEW old, NEW rs \in [Targets -> RowStatus], Matches(old, rs)
  PROVE  /\ Matches(Aggregate(old, rs), rs)
         /\ old \in {"sent", "cancelled"} => Aggregate(old, rs) = old
<1>1. CASE \E t \in Targets : rs[t] # "none"
  BY <1>1, AggregateExact DEF Matches
<1>2. CASE \A t \in Targets : rs[t] = "none"
  <2>1. {rs[t] : t \in Targets} \ {"none"} = {}
    BY <1>2
  <2>2. Aggregate(old, rs) = IF old = "sent" THEN "sent" ELSE "failed"
    BY <2>1 DEF Aggregate
  <2> QED
    BY <1>2, <2>2 DEF Matches
<1> QED
  BY <1>1, <1>2

(* An event with an unfinished row is open, and one that is not absent to  *)
(* begin with has no row. *)
LEMMA OpenWhileUnfinished ==
  ASSUME NEW status, NEW rs, NEW t \in Targets, rs[t] \in Unfinished
  PROVE  Matches(status, rs) <=> status \notin {"sent", "cancelled"}
  BY DEF Matches

(* What a step may do to the status and the rows of an event, as far as    *)
(* StatusMatchesRows and ClosedEventsStayClosed are concerned. *)
Coherent(e) ==
  /\ Matches(eventStatus'[e], rowStatus'[e])
  /\ eventStatus[e] \in {"sent", "cancelled"} => eventStatus'[e] = eventStatus[e]

LEMMA ReserveCoherent ==
  ASSUME TypeOK, StatusMatchesRows, NEW d \in Dispatchers, NEW f \in Events, Reserve(d, f)
  PROVE  \A e \in Events : Coherent(e)
  BY StatusIsMatching DEF Reserve, Reservable, Coherent, Matches, TypeOK

LEMMA NextBatchCoherent ==
  ASSUME TypeOK, StatusMatchesRows, NEW d \in Dispatchers, NEW B \in SUBSET Events,
         NEW v \in Versions, NextBatch(d, B, v)
  PROVE  \A e \in Events : Coherent(e)
<1> SUFFICES ASSUME NEW e \in Events PROVE Coherent(e)
  OBVIOUS
<1>1. Matches(eventStatus[e], rowStatus[e]) /\ eventStatus' = eventStatus
  BY StatusIsMatching DEF NextBatch
<1>2. CASE e \in Freezes(B)
  <2>1. PICK t \in active : rowStatus'[e][t] = "pending"
    BY <1>2 DEF NextBatch, Up, TypeOK
  <2>2. t \in Targets /\ rowStatus'[e][t] \in Unfinished
    BY <2>1 DEF TypeOK, Unfinished
  <2>3. eventStatus[e] \notin {"sent", "cancelled"}
    BY <1>2 DEF Freezes
  <2> QED
    BY <1>1, <2>2, <2>3, OpenWhileUnfinished DEF Coherent
<1>3. CASE e \notin Freezes(B)
  <2>1. rowStatus'[e] = rowStatus[e]
    BY <1>3 DEF NextBatch, TypeOK
  <2> QED
    BY <1>1, <2>1 DEF Coherent
<1> QED
  BY <1>2, <1>3

LEMMA ClaimCoherent ==
  ASSUME TypeOK, StatusMatchesRows, NEW d \in Dispatchers, NEW t \in Targets, Claim(d, t)
  PROVE  \A e \in Events : Coherent(e)
<1> SUFFICES ASSUME NEW e \in Events PROVE Coherent(e)
  OBVIOUS
<1> DEFINE C == Claimable(batch[d], t)
<1>1. Matches(eventStatus[e], rowStatus[e]) /\ eventStatus' = eventStatus
  BY StatusIsMatching DEF Claim, dbVars
<1>2. CASE e \in C
  <2>1. rowStatus[e][t] \in Unfinished
    BY <1>2 DEF Claimable, Unfinished
  <2>2. rowStatus'[e] = [rowStatus[e] EXCEPT ![t] = "sending"]
    BY <1>2 DEF Claim
  <2>3. rowStatus'[e][t] \in Unfinished
    BY <2>2 DEF TypeOK, Unfinished
  <2> QED
    BY <1>1, <2>1, <2>3, OpenWhileUnfinished DEF Coherent
<1>3. CASE e \notin C
  <2>1. rowStatus'[e] = rowStatus[e]
    BY <1>3 DEF Claim, dbVars
  <2> QED
    BY <1>1, <2>1 DEF Coherent
<1> QED
  BY <1>2, <1>3

LEMMA RecordCoherent ==
  ASSUME TypeOK, RecordsAreTrue, StatusMatchesRows, NEW d \in Dispatchers,
         NEW t \in Targets, NEW f \in Events, Record(d, t, f)
  PROVE  \A e \in Events : Coherent(e)
<1> SUFFICES ASSUME NEW e \in Events PROVE Coherent(e)
  OBVIOUS
<1>1. Matches(eventStatus[e], rowStatus[e])
  BY StatusIsMatching
<1>2. CASE Accepts(d, t, f) /\ e = f
  <2>1. rowStatus[e][t] \in Unfinished
    BY <1>2 DEF Accepts, Unfinished
  <2>2. eventStatus[e] \notin {"sent", "cancelled"}
    BY <1>1, <2>1, OpenWhileUnfinished
  <2> DEFINE rs == [rowStatus[e] EXCEPT ![t] = outcome[d][t]]
  <2>3. rowStatus'[e] = rs /\ eventStatus'[e] = Aggregate(eventStatus[e], rs)
    BY <1>2 DEF Record, TypeOK
  <2>4. rs \in [Targets -> RowStatus] /\ rs[t] = outcome[d][t]
    BY DEF TypeOK, RowStatus
  <2>5. outcome[d][t] # "none"
    BY DEF Record, RecordsAreTrue, SlotTrue
  <2> QED
    BY <2>2, <2>3, <2>4, <2>5, AggregateMatches DEF Coherent
<1>3. CASE ~ (Accepts(d, t, f) /\ e = f)
  <2>1. rowStatus'[e] = rowStatus[e] /\ eventStatus'[e] = eventStatus[e]
    BY <1>3 DEF Record, TypeOK, dbVars
  <2> QED
    BY <1>1, <2>1 DEF Coherent
<1> QED
  BY <1>2, <1>3

LEMMA FinishBatchCoherent ==
  ASSUME TypeOK, StatusMatchesRows, NEW d \in Dispatchers, FinishBatch(d)
  PROVE  \A e \in Events : Coherent(e)
<1> SUFFICES ASSUME NEW e \in Events PROVE Coherent(e)
  OBVIOUS
<1>1. Matches(eventStatus[e], rowStatus[e]) /\ rowStatus' = rowStatus
  BY StatusIsMatching DEF FinishBatch
<1>2. \/ eventStatus'[e] = eventStatus[e]
      \/ eventStatus'[e] = Aggregate(eventStatus[e], rowStatus[e])
  BY DEF FinishBatch
<1>3. rowStatus[e] \in [Targets -> RowStatus]
  BY DEF TypeOK
<1> QED
  BY <1>1, <1>2, <1>3, AggregateKeeps DEF Coherent

LEMMA StartupCoherent ==
  ASSUME TypeOK, StatusMatchesRows, NEW A \in SUBSET Targets, Startup(A)
  PROVE  \A e \in Events : Coherent(e)
<1> SUFFICES ASSUME NEW e \in Events PROVE Coherent(e)
  OBVIOUS
<1>1. Matches(eventStatus[e], rowStatus[e])
  BY StatusIsMatching
<1>2. CASE \E t \in Targets : Removed(A, e, t)
  <2>1. PICK t \in Targets : Removed(A, e, t)
    BY <1>2
  <2>2. eventStatus[e] \notin {"sent", "cancelled"}
    BY <1>1, <2>1, OpenWhileUnfinished DEF Removed
  <2>3. eventStatus'[e] = Aggregate(eventStatus[e], rowStatus'[e])
    BY <1>2 DEF Startup
  <2>4. rowStatus'[e] \in [Targets -> RowStatus] /\ rowStatus'[e][t] = "cancelled"
    BY <2>1 DEF Startup, TypeOK, RowStatus
  <2> QED
    BY <2>2, <2>3, <2>4, AggregateMatches DEF Coherent
<1>3. CASE ~ \E t \in Targets : Removed(A, e, t)
  <2>1. rowStatus'[e] = rowStatus[e] /\ eventStatus'[e] = eventStatus[e]
    BY <1>3 DEF Startup, TypeOK
  <2> QED
    BY <1>1, <2>1 DEF Coherent
<1> QED
  BY <1>2, <1>3

(* Every other step leaves events and rows alone. *)
LEMMA NextCoherent ==
  ASSUME TypeOK, RecordsAreTrue, StatusMatchesRows, [Next]_vars
  PROVE  \A e \in Events : Coherent(e)
<1>1. CASE UNCHANGED <<eventStatus, rowStatus>>
  BY <1>1, StatusIsMatching DEF Coherent
<1>2. CASE UNCHANGED vars
  BY <1>1, <1>2 DEF vars, dbVars
<1>3. ASSUME NEW d \in Dispatchers,
             \/ \E L \in RetryLists : CollectRetries(d, L)
             \/ \E t \in Targets : SendChunk(d, t)
             \/ \E t \in Targets, arrived \in BOOLEAN : SendFails(d, t, arrived)
      PROVE  UNCHANGED <<eventStatus, rowStatus>>
  BY <1>3 DEF CollectRetries, SendChunk, SendFails, dbVars
<1>4. CASE Tick \/ Crash
  BY <1>1, <1>4 DEF Tick, Crash, dbVars
<1> QED
  BY <1>1, <1>2, <1>3, <1>4, ReserveCoherent, NextBatchCoherent, ClaimCoherent,
     RecordCoherent, FinishBatchCoherent, StartupCoherent DEF Next

(***************************************************************************)
(* An event is closed exactly when each of its rows is, also between the   *)
(* separate transactions that record a merged message claim by claim.      *)
(***************************************************************************)
THEOREM StatusesMatch == Spec => []StatusMatchesRows
<1>1. Init => StatusMatchesRows
  BY DEF Init, StatusMatchesRows, Settled, HasRows
<1>2. TypeOK /\ RecordsAreTrue /\ StatusMatchesRows /\ [Next]_vars => StatusMatchesRows'
  <2> SUFFICES ASSUME TypeOK, RecordsAreTrue, StatusMatchesRows, [Next]_vars
               PROVE  StatusMatchesRows'
    OBVIOUS
  <2>1. \A e \in Events : Matches(eventStatus'[e], rowStatus'[e])
    BY NextCoherent DEF Coherent
  <2> QED
    BY <2>1 DEF StatusMatchesRows, Matches, Settled, HasRows
<1> QED
  BY <1>1, <1>2, TypeCorrect, RecordsStayTrue, PTL DEF Spec

(***************************************************************************)
(* Nothing reopens a closed event: no late result, no second evaluation,   *)
(* no refresh and no restart.                                              *)
(***************************************************************************)
THEOREM ClosedStayClosed == Spec => ClosedEventsStayClosed
<1> DEFINE Stay == \A e \in Events : eventStatus[e] \in {"sent", "cancelled"} =>
                     eventStatus'[e] = eventStatus[e]
<1>1. TypeOK /\ RecordsAreTrue /\ StatusMatchesRows /\ [Next]_vars => Stay
  BY NextCoherent DEF Coherent
<1> HIDE DEF Stay
<1>2. TypeOK /\ RecordsAreTrue /\ StatusMatchesRows /\ [Next]_vars => [Stay]_vars
  BY <1>1
<1>3. Spec => [][Stay]_vars
  BY <1>2, TypeCorrect, RecordsStayTrue, StatusesMatch, PTL DEF Spec
<1> QED
  BY <1>3 DEF ClosedEventsStayClosed, Stay

-----------------------------------------------------------------------------
(* Removed targets. *)

(***************************************************************************)
(* While the process runs no unfinished row belongs to a target that is    *)
(* not configured: no delivery would ever claim it, and its event would    *)
(* stay open.                                                              *)
(***************************************************************************)
THEOREM UnfinishedAreConfigured == Spec => []UnfinishedRowsAreConfigured
<1>1. Init => UnfinishedRowsAreConfigured
  BY DEF Init, UnfinishedRowsAreConfigured, Unfinished
<1>2. TypeOK /\ ClaimsInStep /\ UnfinishedRowsAreConfigured /\ [Next]_vars
        => UnfinishedRowsAreConfigured'
  <2> SUFFICES ASSUME TypeOK, ClaimsInStep, UnfinishedRowsAreConfigured, [Next]_vars,
                      Up', NEW e \in Events, NEW t \in Targets,
                      rowStatus'[e][t] \in Unfinished
               PROVE  t \in active'
    BY DEF UnfinishedRowsAreConfigured
  <2>1. CASE \E d \in Dispatchers, B \in SUBSET Events, v \in Versions : NextBatch(d, B, v)
    BY <2>1 DEF NextBatch, UnfinishedRowsAreConfigured
  <2>2. CASE \E d \in Dispatchers, u \in Targets : Claim(d, u)
    <3>1. PICK d \in Dispatchers, u \in Targets : Claim(d, u)
      BY <2>2
    <3>2. rowStatus[e][t] \in Unfinished
      BY <3>1, ClaimRows DEF Unfinished
    <3> QED
      BY <3>1, <3>2 DEF Claim, UnfinishedRowsAreConfigured, Up
  <2>3. CASE \E d \in Dispatchers, u \in Targets, f \in Events : Record(d, u, f)
    <3>1. PICK d \in Dispatchers, u \in Targets, f \in Events : Record(d, u, f)
      BY <2>3
    <3>2. rowStatus[e][t] \in Unfinished
      <4>1. CASE Accepts(d, u, f)
        <5>1. rowStatus' = [rowStatus EXCEPT ![f][u] = outcome[d][u]]
          BY <3>1, <4>1 DEF Record
        <5>2. rowStatus[f][u] \in Unfinished
          BY <4>1 DEF Accepts, Unfinished
        <5> QED
          BY <5>1, <5>2 DEF TypeOK
      <4>2. CASE ~ Accepts(d, u, f)
        BY <3>1, <4>2 DEF Record, dbVars
      <4> QED
        BY <4>1, <4>2
    <3> QED
      BY <3>1, <3>2 DEF Record, UnfinishedRowsAreConfigured, Up
  <2>4. CASE \E A \in SUBSET Targets : Startup(A)
    BY <2>4 DEF Startup, Removed, Unfinished
  <2>5. CASE \/ UNCHANGED <<rowStatus, active>>
             \/ Crash
    BY <2>5 DEF UnfinishedRowsAreConfigured, Crash, Up
  <2>6. ASSUME NEW d \in Dispatchers,
               \/ \E f \in Events : Reserve(d, f)
               \/ \E L \in RetryLists : CollectRetries(d, L)
               \/ \E u \in Targets : SendChunk(d, u)
               \/ \E u \in Targets, arrived \in BOOLEAN : SendFails(d, u, arrived)
               \/ FinishBatch(d)
        PROVE  UNCHANGED <<rowStatus, active>>
    BY <2>6 DEF Reserve, CollectRetries, SendChunk, SendFails, FinishBatch, dbVars
  <2>7. (Tick \/ UNCHANGED vars) => UNCHANGED <<rowStatus, active>>
    BY DEF Tick, vars, dbVars
  <2> QED
    BY <2>1, <2>2, <2>3, <2>4, <2>5, <2>6, <2>7 DEF Next
<1> QED
  BY <1>1, <1>2, TypeCorrect, ClaimsStayInStep, PTL DEF Spec

-----------------------------------------------------------------------------
(* The delivery code implements DeliveryPromise. *)

LEMMA DueOfIs ==
  ASSUME NEW status
  PROVE  /\ DueOf(status) = "owed" <=> status \in Unfinished
         /\ DueOf(status) = "told" <=> status = "sent"
         /\ DueOf(status) = "released" <=> status = "cancelled"
         /\ DueOf(status) = "none" <=> status \notin Unfinished \cup {"sent", "cancelled"}
  BY DEF DueOf, Unfinished

(* A step of the rows that is none of the promise, as to what is due. *)
LEMMA SameDue ==
  ASSUME \A e \in Events, t \in Targets : DueOf(rowStatus'[e][t]) = DueOf(rowStatus[e][t])
  PROVE  DueRows' = DueRows
  BY DEF DueRows

LEMMA SameReached ==
  ASSUME heard' = heard
  PROVE  ReachedRows' = ReachedRows
  BY DEF ReachedRows, Received, Chunks

LEMMA ReceivedBoolean ==
  ASSUME NEW e, NEW t
  PROVE  Received(e, t) \in BOOLEAN /\ Received(e, t)' \in BOOLEAN
  BY DEF Received

LEMMA PromiseInit == Init => Promise!Init
<1> SUFFICES ASSUME Init PROVE Promise!Init
  OBVIOUS
<1>1. DueRows = [e \in Events |-> [t \in Targets |-> "none"]]
  BY DueOfIs DEF Init, DueRows, DueOf, Unfinished
<1>2. ReachedRows = [e \in Events |-> [t \in Targets |-> FALSE]]
  BY DEF Init, ReachedRows, Received
<1> QED
  BY <1>1, <1>2 DEF Promise!Init

LEMMA NextBatchPromise ==
  ASSUME TypeOK, NEW d \in Dispatchers, NEW B \in SUBSET Events, NEW v \in Versions,
         NextBatch(d, B, v)
  PROVE  Promise!Next
<1> DEFINE E == Freezes(B)
<1>1. E \in SUBSET Events /\ active \in SUBSET Targets /\ active # {}
  BY DEF Freezes, NextBatch, Up, TypeOK
<1>2. \A e \in E : Promise!Unaddressed(e)
  BY <1>1, DueOfIs DEF Freezes, HasRows, Promise!Unaddressed, DueRows, Unfinished
<1>3. \A e \in Events, t \in Targets :
        rowStatus'[e][t] = IF e \in E /\ t \in active THEN "pending" ELSE rowStatus[e][t]
  BY DEF NextBatch
<1>4. DueRows' = [e \in Events |-> [t \in Targets |->
                    IF e \in E /\ t \in active THEN "owed" ELSE DueRows[e][t]]]
  <2>1. \A e \in Events, t \in Targets :
          DueOf(rowStatus'[e][t]) = IF e \in E /\ t \in active THEN "owed"
                                    ELSE DueOf(rowStatus[e][t])
    BY <1>3, DueOfIs DEF Unfinished
  <2> HIDE DEF E
  <2> QED
    BY <2>1 DEF DueRows
<1>5. ReachedRows' = ReachedRows
  BY SameReached DEF NextBatch
<1> HIDE DEF E
<1>6. Promise!Address(E, active)
  BY <1>1, <1>2, <1>4, <1>5 DEF Promise!Address
<1> QED
  BY <1>1, <1>6 DEF Promise!Next

(* A chunk arrives: the message it completes, if any, is received. *)
LEMMA HearingPromise ==
  ASSUME TypeOK, RecordsAreTrue, NEW d \in Dispatchers, NEW t \in Targets, NEW k,
         rowStatus' = rowStatus, slot[d][t] = "sending",
         heard' = [heard EXCEPT ![t] = @ \cup {<<Message(d, t), k>>}]
  PROVE  Promise!Next \/ UNCHANGED <<DueRows, ReachedRows>>
<1> DEFINE m == Message(d, t)
           E == body[d][t]
           whole == \A i \in 1..Chunks(m) : <<m, i>> \in heard'[t]
<1>1. DueRows' = DueRows
  BY SameDue
<1>2. E \in SUBSET Events /\ m[1] = E /\ Chunks(m) \in Nat \ {0}
  BY MessageType DEF TypeOK, Message
<1>3. heard'[t] = heard[t] \cup {<<m, k>>} /\ \A u \in Targets : u # t => heard'[u] = heard[u]
  BY DEF TypeOK
<1> HIDE DEF m
<1>4. \A e \in Events, u \in Targets :
        Received(e, u)' <=> Received(e, u) \/ (whole /\ e \in E /\ u = t)
  <2> SUFFICES ASSUME NEW e \in Events, NEW u \in Targets
               PROVE  Received(e, u)' <=> Received(e, u) \/ (whole /\ e \in E /\ u = t)
    OBVIOUS
  <2>1. CASE u # t
    <3>1. heard'[u] = heard[u]
      BY <1>3, <2>1
    <3> QED
      BY <2>1, <3>1 DEF Received
  <2>2. CASE u = t
    <3>1. Received(e, t) => Received(e, t)'
      BY <1>3, ReceivedLasts
    <3>2. whole /\ e \in E => Received(e, t)'
      <4> SUFFICES ASSUME whole, e \in E PROVE Received(e, t)'
        OBVIOUS
      <4>1. <<m, 1>> \in heard'[t]
        BY <1>2
      <4>2. m \in {h[1] : h \in heard'[t]}
        BY <4>1
      <4> QED
        BY <1>2, <4>2 DEF Received
    <3>3. ASSUME Received(e, t)', ~ Received(e, t) PROVE whole /\ e \in E
      <4>1. PICK n \in {h[1] : h \in heard'[t]} :
              e \in n[1] /\ \A i \in 1..Chunks(n) : <<n, i>> \in heard'[t]
        BY <3>3 DEF Received
      <4>2. n = m
        <5> SUFFICES ASSUME n # m PROVE FALSE
          OBVIOUS
        <5>1. \A i : <<n, i>> \in heard'[t] => <<n, i>> \in heard[t]
          BY <1>3
        <5>2. n \in {h[1] : h \in heard[t]}
          BY <1>3, <4>1
        <5> QED
          BY <3>3, <4>1, <5>1, <5>2 DEF Received
      <4> QED
        BY <1>2, <4>1, <4>2
    <3> QED
      BY <2>2, <3>1, <3>2, <3>3
  <2> QED
    BY <2>1, <2>2
<1>5. \A e \in E : DueRows[e][t] # "none"
  <2>1. \A e \in E : rowStatus[e][t] \in RowStatus \ {"none"}
    BY <1>2 DEF RecordsAreTrue, SlotTrue, TypeOK
  <2>2. \A e \in E : DueRows[e][t] = DueOf(rowStatus[e][t])
    BY <1>2 DEF DueRows
  <2> QED
    BY <2>1, <2>2, DueOfIs DEF RowStatus, Unfinished
<1> HIDE DEF E, whole
<1>6. CASE whole
  <2>1. ReachedRows' = [e \in Events |-> [u \in Targets |->
                          ReachedRows[e][u] \/ (e \in E /\ u = t)]]
    <3>1. \A e \in Events, u \in Targets :
            Received(e, u)' = (ReachedRows[e][u] \/ (e \in E /\ u = t))
      BY <1>4, <1>6, ReceivedBoolean DEF ReachedRows
    <3> QED
      BY <3>1 DEF ReachedRows
  <2>2. Promise!Reach(E, t)
    BY <1>1, <1>5, <2>1 DEF Promise!Reach
  <2> QED
    BY <1>2, <2>2 DEF Promise!Next
<1>7. CASE ~ whole
  <2>1. ReachedRows' = ReachedRows
    <3>1. \A e \in Events, u \in Targets : Received(e, u)' = Received(e, u)
      BY <1>4, <1>7, ReceivedBoolean
    <3> QED
      BY <3>1 DEF ReachedRows
  <2> QED
    BY <1>1, <2>1
<1> QED
  BY <1>6, <1>7

LEMMA SendPromise ==
  ASSUME TypeOK, RecordsAreTrue, NEW d \in Dispatchers, NEW t \in Targets,
         SendChunk(d, t) \/ \E arrived \in BOOLEAN : SendFails(d, t, arrived)
  PROVE  Promise!Next \/ UNCHANGED <<DueRows, ReachedRows>>
<1>1. rowStatus' = rowStatus /\ slot[d][t] = "sending"
  BY DEF SendChunk, SendFails, dbVars
<1>2. \/ heard' = heard
      \/ \E k : heard' = [heard EXCEPT ![t] = @ \cup {<<Message(d, t), k>>}]
  BY DEF SendChunk, SendFails
<1>3. CASE heard' = heard
  BY <1>1, <1>3, SameDue, SameReached
<1> QED
  BY <1>1, <1>2, <1>3, HearingPromise

(* A result that counts as sent tells what was owed; another one leaves it *)
(* owed. *)
LEMMA RecordPromise ==
  ASSUME TypeOK, RecordsAreTrue, RecordsAreTrue', NEW d \in Dispatchers, NEW t \in Targets,
         NEW f \in Events, Record(d, t, f)
  PROVE  Promise!Next \/ UNCHANGED <<DueRows, ReachedRows>>
<1>1. ReachedRows' = ReachedRows /\ heard' = heard
  BY SameReached DEF Record
<1>2. outcome[d][t] \in {"sent", "failed"}
  BY DEF Record, RecordsAreTrue, SlotTrue, TypeOK
<1>3. CASE ~ Accepts(d, t, f)
  BY <1>1, <1>3, SameDue DEF Record, dbVars
<1>4. CASE Accepts(d, t, f)
  <2>1. /\ rowStatus' = [rowStatus EXCEPT ![f][t] = outcome[d][t]]
        /\ rowStatus[f][t] = "sending"
    BY <1>4 DEF Record, Accepts
  <2>2. \A e \in Events, u \in Targets :
          rowStatus'[e][u] = IF e = f /\ u = t THEN outcome[d][t] ELSE rowStatus[e][u]
    BY <2>1 DEF TypeOK
  <2>3. CASE outcome[d][t] = "failed"
    BY <1>1, <2>1, <2>2, <2>3, SameDue, DueOfIs DEF Unfinished
  <2>4. CASE outcome[d][t] = "sent"
    <3>1. DueRows[f][t] = "owed"
      BY <2>1, DueOfIs DEF DueRows, Unfinished
    <3>2. ReachedRows[f][t]
      <4>1. RowTrue(f, t)' /\ rowStatus'[f][t] = "sent"
        BY <2>2, <2>4 DEF RecordsAreTrue
      <4>2. Received(f, t)'
        BY <4>1 DEF RowTrue
      <4>3. ReachedRows'[f][t]
        BY <4>2 DEF ReachedRows
      <4> QED
        BY <1>1, <4>3
    <3>3. DueRows' = [DueRows EXCEPT ![f][t] = "told"]
      <4>1. \A e \in Events, u \in Targets :
              DueOf(rowStatus'[e][u]) = IF e = f /\ u = t THEN "told" ELSE DueOf(rowStatus[e][u])
        BY <2>2, <2>4, DueOfIs
      <4> QED
        BY <4>1 DEF DueRows
    <3>4. Promise!Tell(f, t)
      BY <1>1, <3>1, <3>2, <3>3 DEF Promise!Tell
    <3> QED
      BY <3>4 DEF Promise!Next
  <2> QED
    BY <1>2, <2>3, <2>4
<1> QED
  BY <1>3, <1>4

LEMMA StartupPromise ==
  ASSUME TypeOK, NEW A \in SUBSET Targets, Startup(A)
  PROVE  Promise!Next
<1> DEFINE R == Targets \ A
<1>1. ReachedRows' = ReachedRows
  BY SameReached DEF Startup
<1>2. \A e \in Events, t \in Targets :
        DueOf(rowStatus'[e][t]) = IF t \in R /\ DueOf(rowStatus[e][t]) = "owed"
                                  THEN "released" ELSE DueOf(rowStatus[e][t])
  <2>1. \A e \in Events, t \in Targets :
          rowStatus'[e][t] = IF t \in R /\ rowStatus[e][t] \in Unfinished
                             THEN "cancelled" ELSE rowStatus[e][t]
    BY DEF Startup, Removed
  <2> QED
    BY <2>1, DueOfIs
<1>3. Promise!Release(R)
  <2>1. DueRows' = [e \in Events |-> [t \in Targets |->
          IF t \in R /\ DueRows[e][t] = "owed" THEN "released" ELSE DueRows[e][t]]]
    BY <1>2 DEF DueRows
  <2> QED
    BY <1>1, <2>1 DEF Promise!Release
<1> QED
  BY <1>3 DEF Promise!Next

(* Claims, retries, time, a crash and the end of a batch are no step. *)
LEMMA NextPromise ==
  ASSUME TypeOK, RecordsAreTrue, RecordsAreTrue', [Next]_vars
  PROVE  Promise!Next \/ UNCHANGED <<DueRows, ReachedRows>>
<1>1. CASE UNCHANGED <<rowStatus, heard>>
  BY <1>1, SameDue, SameReached
<1>2. ASSUME NEW d \in Dispatchers,
             \/ \E e \in Events : Reserve(d, e)
             \/ \E L \in RetryLists : CollectRetries(d, L)
             \/ FinishBatch(d)
      PROVE  UNCHANGED <<rowStatus, heard>>
  BY <1>2 DEF Reserve, CollectRetries, FinishBatch, dbVars
<1>3. Tick \/ Crash \/ UNCHANGED vars => UNCHANGED <<rowStatus, heard>>
  BY DEF Tick, Crash, vars, dbVars
<1>4. ASSUME NEW d \in Dispatchers, NEW t \in Targets, Claim(d, t)
      PROVE  UNCHANGED <<DueRows, ReachedRows>>
  <2>1. heard' = heard
    BY <1>4 DEF Claim
  <2>2. \A e \in Events, u \in Targets :
          \/ rowStatus'[e][u] = rowStatus[e][u]
          \/ rowStatus'[e][u] = "sending" /\ rowStatus[e][u] \in Unfinished
    BY <1>4, ClaimRows
  <2>3. \A e \in Events, u \in Targets :
          DueOf(rowStatus'[e][u]) = DueOf(rowStatus[e][u])
    BY <2>2, DueOfIs DEF Unfinished
  <2> QED
    BY <2>1, <2>3, SameDue, SameReached
<1> QED
  BY <1>1, <1>2, <1>3, <1>4, NextBatchPromise, SendPromise, RecordPromise,
     StartupPromise DEF Next

(***************************************************************************)
(* Delivery keeps its promise, for any events, targets, wordings, leases   *)
(* and calls: the audience of an event is fixed once, a row counts as told *)
(* only after a whole message, and what is owed lapses only with a target  *)
(* that is removed.                                                        *)
(***************************************************************************)
THEOREM DeliveryKeepsPromise == Spec => KeepsPromise
<1>1. TypeOK /\ RecordsAreTrue /\ RecordsAreTrue' /\ [Next]_vars
        => [Promise!Next]_(Promise!vars)
  BY NextPromise DEF Promise!vars
<1> QED
  BY <1>1, PromiseInit, TypeCorrect, RecordsStayTrue, PTL
  DEF Spec, KeepsPromise, Promise!Spec
=============================================================================
