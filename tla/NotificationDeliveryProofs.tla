---------------------- MODULE NotificationDeliveryProofs ----------------------
(***************************************************************************)
(* Theorems about NotificationDelivery, for every value of its constants.  *)
(***************************************************************************)
EXTENDS NotificationDelivery, FiniteSetTheorems, TLAPS

USE DeliveryAssumption

-----------------------------------------------------------------------------
(* Lemmas about the operators. *)

LEMMA AnyWordingType == AnyWording \in Versions
  BY DEF AnyWording

LEMMA NoProgressType == NoProgress \in [chunks : Nat, message : Messages]
  BY AnyWordingType DEF NoProgress, Messages

(* Whatever its rows, an event gets one of the five aggregate statuses. *)
LEMMA AggregateType ==
  ASSUME NEW old, NEW rs
  PROVE  Aggregate(old, rs) \in EventStatus
  BY DEF Aggregate, EventStatus

LEMMA CountDownType ==
  ASSUME NEW n \in 0..LeaseTicks
  PROVE  CountDown(n) \in 0..LeaseTicks
  BY DEF CountDown

LEMMA MessageType ==
  ASSUME TypeOK, NEW d \in Dispatchers, NEW t \in Targets
  PROVE  /\ Message(d, t) \in Messages
         /\ Chunks(Message(d, t)) \in Nat \ {0}
  BY DEF TypeOK, Message, Messages, Chunks

(* The chunk to resume at is a number of chunks some claim has recorded. *)
LEMMA ResumeAtType ==
  ASSUME TypeOK, NEW C \in SUBSET Events, C # {}, NEW t \in Targets, NEW m
  PROVE  ResumeAt(C, t, m) \in Nat
<1> DEFINE p == progress[CHOOSE e \in C : TRUE][t]
<1>1. (CHOOSE e \in C : TRUE) \in Events
  OBVIOUS
<1>2. p \in [chunks : Nat, message : Messages]
  BY <1>1 DEF TypeOK
<1>3. QED
  BY <1>2 DEF ResumeAt

-----------------------------------------------------------------------------
(* Type correctness. *)

LEMMA InitTypeOK == Init => TypeOK
  BY AnyWordingType, NoProgressType
  DEF Init, TypeOK, PerCall, PerSlot, EventStatus, RowStatus

LEMMA ReserveTypeOK ==
  ASSUME TypeOK, NEW d \in Dispatchers, NEW e \in Events, Reserve(d, e)
  PROVE  TypeOK'
  BY DEF TypeOK, Reserve, EventStatus, slotVars

LEMMA CollectRetriesTypeOK ==
  ASSUME TypeOK, NEW d \in Dispatchers, NEW L \in RetryLists, CollectRetries(d, L)
  PROVE  TypeOK'
  BY DEF TypeOK, CollectRetries, dbVars, slotVars

LEMMA NextBatchTypeOK ==
  ASSUME TypeOK, NEW d \in Dispatchers, NEW B \in SUBSET Events,
         NEW v \in Versions, NextBatch(d, B, v)
  PROVE  TypeOK'
  BY DEF TypeOK, NextBatch, RowStatus

LEMMA ClaimTypeOK ==
  ASSUME TypeOK, NEW d \in Dispatchers, NEW t \in Targets, Claim(d, t)
  PROVE  TypeOK'
<1> DEFINE C == Claimable(batch[d], t)
<1>1. C \in SUBSET Events
  BY DEF Claimable, TypeOK
<1>2. CASE C = {}
  <2>1. /\ slot' = [slot EXCEPT ![d][t] = "idle"]
        /\ UNCHANGED <<eventStatus, rowStatus, claimToken, claimLease, progress,
                       active, crashes, phase, todo, batch, version, held, body,
                       sentChunks, outcome, leaseLeft, heard>>
    BY <1>2 DEF Claim, dbVars, callVars
  <2>2. QED
    BY <2>1 DEF TypeOK
<1>3. CASE C # {}
  <2>1. ResumeAt(C, t, <<C, version[d]>>) \in Nat
    BY <1>1, <1>3, ResumeAtType
  <2> HIDE DEF C
  <2>2. /\ slot' = [slot EXCEPT ![d][t] = "sending"]
        /\ held' = [held EXCEPT ![d][t] = C]
        /\ body' = [body EXCEPT ![d][t] = C]
        /\ sentChunks' = [sentChunks EXCEPT ![d][t] =
                            ResumeAt(C, t, <<C, version[d]>>)]
        /\ leaseLeft' = [leaseLeft EXCEPT ![d][t] = LeaseTicks]
        /\ rowStatus' = [e \in Events |-> IF e \in C
             THEN [rowStatus[e] EXCEPT ![t] = "sending"] ELSE rowStatus[e]]
        /\ claimToken' = [e \in Events |-> IF e \in C
             THEN [claimToken[e] EXCEPT ![t] = d] ELSE claimToken[e]]
        /\ claimLease' = [e \in Events |-> IF e \in C
             THEN [claimLease[e] EXCEPT ![t] = LeaseTicks] ELSE claimLease[e]]
        /\ UNCHANGED <<eventStatus, progress, active, crashes, phase, todo,
                       batch, version, outcome, heard>>
    BY <1>3 DEF Claim, C, callVars
  <2>3. rowStatus' \in [Events -> [Targets -> RowStatus]]
    BY <2>2 DEF TypeOK, RowStatus
  <2>4. /\ claimToken' \in [Events -> [Targets -> Dispatchers \cup {NoClaim}]]
        /\ claimLease' \in [Events -> [Targets -> 0..LeaseTicks]]
    BY <2>2 DEF TypeOK
  <2>5. /\ slot' \in [Dispatchers ->
                       [Targets -> {"idle", "queued", "sending", "recording"}]]
        /\ held' \in [Dispatchers -> [Targets -> SUBSET Events]]
        /\ body' \in [Dispatchers -> [Targets -> SUBSET Events]]
        /\ sentChunks' \in [Dispatchers -> [Targets -> Nat]]
        /\ leaseLeft' \in [Dispatchers -> [Targets -> 0..LeaseTicks]]
    BY <1>1, <2>1, <2>2 DEF TypeOK
  <2>6. QED
    BY <2>2, <2>3, <2>4, <2>5 DEF TypeOK
<1>4. QED
  BY <1>2, <1>3

LEMMA SendChunkTypeOK ==
  ASSUME TypeOK, NEW d \in Dispatchers, NEW t \in Targets, SendChunk(d, t)
  PROVE  TypeOK'
<1>1. heard' \in [Targets -> SUBSET (Messages \X Nat)]
  <2>1. <<Message(d, t), sentChunks[d][t] + 1>> \in Messages \X Nat
    BY DEF TypeOK, Message, Messages
  <2>2. QED
    BY <2>1 DEF TypeOK, SendChunk
<1>2. sentChunks' \in [Dispatchers -> [Targets -> Nat]]
  BY DEF TypeOK, SendChunk
<1>3. /\ slot' \in [Dispatchers ->
                     [Targets -> {"idle", "queued", "sending", "recording"}]]
      /\ outcome' \in [Dispatchers -> [Targets -> {"none", "sent", "failed"}]]
  <2>1. \/ slot' = slot /\ outcome' = outcome
        \/ /\ slot' = [slot EXCEPT ![d][t] = "recording"]
           /\ outcome' = [outcome EXCEPT ![d][t] = "sent"]
    BY DEF SendChunk
  <2>2. CASE slot' = slot /\ outcome' = outcome
    BY <2>2 DEF TypeOK
  <2>3. CASE /\ slot' = [slot EXCEPT ![d][t] = "recording"]
             /\ outcome' = [outcome EXCEPT ![d][t] = "sent"]
    BY <2>3 DEF TypeOK
  <2>4. QED
    BY <2>1, <2>2, <2>3
<1>4. UNCHANGED <<eventStatus, rowStatus, claimToken, claimLease, progress,
                  active, crashes, phase, todo, batch, version, held, body,
                  leaseLeft>>
  BY DEF SendChunk, dbVars, callVars
<1>5. QED
  BY <1>1, <1>2, <1>3, <1>4 DEF TypeOK

LEMMA SendFailsTypeOK ==
  ASSUME TypeOK, NEW d \in Dispatchers, NEW t \in Targets, NEW arrived \in BOOLEAN,
         SendFails(d, t, arrived)
  PROVE  TypeOK'
<1>1. heard' \in [Targets -> SUBSET (Messages \X Nat)]
  <2>1. <<Message(d, t), sentChunks[d][t] + 1>> \in Messages \X Nat
    BY DEF TypeOK, Message, Messages
  <2>2. QED
    BY <2>1 DEF TypeOK, SendFails
<1>2. QED
  BY <1>1 DEF TypeOK, SendFails, dbVars, callVars

LEMMA RecordTypeOK ==
  ASSUME TypeOK, NEW d \in Dispatchers, NEW t \in Targets, NEW e \in Events,
         Record(d, t, e)
  PROVE  TypeOK'
<1>1. Checkpoint(d, t) \in [chunks : Nat, message : Messages]
  BY NoProgressType DEF Checkpoint, Message, Messages, TypeOK
<1>2. /\ eventStatus' \in [Events -> EventStatus]
      /\ rowStatus' \in [Events -> [Targets -> RowStatus]]
      /\ claimToken' \in [Events -> [Targets -> Dispatchers \cup {NoClaim}]]
      /\ claimLease' \in [Events -> [Targets -> 0..LeaseTicks]]
      /\ progress' \in [Events -> [Targets -> [chunks : Nat, message : Messages]]]
  <2>1. CASE Accepts(d, t, e)
    <3>1. outcome[d][t] \in RowStatus
      BY DEF TypeOK, RowStatus
    <3>2. Aggregate(eventStatus[e], [rowStatus[e] EXCEPT ![t] = outcome[d][t]])
            \in EventStatus
      BY AggregateType
    <3>3. /\ rowStatus' = [rowStatus EXCEPT ![e][t] = outcome[d][t]]
          /\ claimToken' = [claimToken EXCEPT ![e][t] = NoClaim]
          /\ claimLease' = [claimLease EXCEPT ![e][t] = 0]
          /\ progress' = [progress EXCEPT ![e][t] = Checkpoint(d, t)]
          /\ eventStatus' = [eventStatus EXCEPT ![e] =
               Aggregate(@, [rowStatus[e] EXCEPT ![t] = outcome[d][t]])]
      BY <2>1 DEF Record
    <3>4. /\ eventStatus' \in [Events -> EventStatus]
          /\ rowStatus' \in [Events -> [Targets -> RowStatus]]
      BY <3>1, <3>2, <3>3 DEF TypeOK
    <3>5. /\ claimToken' \in [Events -> [Targets -> Dispatchers \cup {NoClaim}]]
          /\ claimLease' \in [Events -> [Targets -> 0..LeaseTicks]]
          /\ progress' \in [Events -> [Targets -> [chunks : Nat, message : Messages]]]
      BY <1>1, <3>3 DEF TypeOK
    <3>6. QED
      BY <3>4, <3>5
  <2>2. CASE ~Accepts(d, t, e)
    BY <2>2 DEF TypeOK, Record, dbVars
  <2>3. QED
    BY <2>1, <2>2
<1>3. /\ slot' \in [Dispatchers ->
                     [Targets -> {"idle", "queued", "sending", "recording"}]]
      /\ held' \in [Dispatchers -> [Targets -> SUBSET Events]]
      /\ body' \in [Dispatchers -> [Targets -> SUBSET Events]]
      /\ sentChunks' \in [Dispatchers -> [Targets -> Nat]]
      /\ outcome' \in [Dispatchers -> [Targets -> {"none", "sent", "failed"}]]
      /\ leaseLeft' \in [Dispatchers -> [Targets -> 0..LeaseTicks]]
  <2>1. CASE held[d][t] = {e}
    <3>1. /\ slot' = [slot EXCEPT ![d][t] = "idle"]
          /\ held' = [held EXCEPT ![d][t] = @ \ {e}]
          /\ body' = [body EXCEPT ![d][t] = {}]
          /\ sentChunks' = [sentChunks EXCEPT ![d][t] = 0]
          /\ outcome' = [outcome EXCEPT ![d][t] = "none"]
          /\ leaseLeft' = [leaseLeft EXCEPT ![d][t] = 0]
      BY <2>1 DEF Record
    <3>2. QED
      BY <3>1 DEF TypeOK
  <2>2. CASE held[d][t] # {e}
    BY <2>2 DEF TypeOK, Record
  <2>3. QED
    BY <2>1, <2>2
<1>4. QED
  BY <1>2, <1>3 DEF TypeOK, Record, callVars

LEMMA FinishBatchTypeOK ==
  ASSUME TypeOK, NEW d \in Dispatchers, FinishBatch(d)
  PROVE  TypeOK'
<1>1. eventStatus' \in [Events -> EventStatus]
  BY AggregateType DEF TypeOK, FinishBatch
<1>2. /\ phase' \in [Dispatchers -> {"idle", "evaluating", "dispatching"}]
      /\ version' \in [Dispatchers -> Versions]
      /\ batch' \in [Dispatchers -> SUBSET Events]
  <2>1. \/ phase' = phase /\ version' = version
        \/ /\ phase' = [phase EXCEPT ![d] = "idle"]
           /\ version' = [version EXCEPT ![d] = AnyWording]
    BY DEF FinishBatch
  <2>2. batch' = [batch EXCEPT ![d] = {}]
    BY DEF FinishBatch
  <2>3. CASE phase' = phase /\ version' = version
    BY <2>2, <2>3 DEF TypeOK
  <2>4. CASE /\ phase' = [phase EXCEPT ![d] = "idle"]
             /\ version' = [version EXCEPT ![d] = AnyWording]
    BY <2>2, <2>4, AnyWordingType DEF TypeOK
  <2>5. QED
    BY <2>1, <2>3, <2>4
<1>3. QED
  BY <1>1, <1>2 DEF TypeOK, FinishBatch, slotVars

LEMMA TickTypeOK ==
  ASSUME TypeOK, Tick
  PROVE  TypeOK'
  BY CountDownType DEF TypeOK, Tick, callVars, slotVars

LEMMA CrashTypeOK ==
  ASSUME TypeOK, Crash
  PROVE  TypeOK'
  BY AnyWordingType DEF TypeOK, Crash, PerCall, PerSlot, dbVars

LEMMA StartupTypeOK ==
  ASSUME TypeOK, NEW A \in SUBSET Targets, Startup(A)
  PROVE  TypeOK'
  BY AggregateType DEF TypeOK, Startup, RowStatus, callVars, slotVars

LEMMA NextTypeOK == TypeOK /\ [Next]_vars => TypeOK'
<1>1. CASE UNCHANGED vars
  BY <1>1 DEF TypeOK, vars, dbVars, callVars, slotVars
<1>2. CASE Next
  BY <1>2, ReserveTypeOK, CollectRetriesTypeOK, NextBatchTypeOK, ClaimTypeOK,
     SendChunkTypeOK, SendFailsTypeOK, RecordTypeOK, FinishBatchTypeOK,
     TickTypeOK, CrashTypeOK, StartupTypeOK
  DEF Next
<1>3. QED
  BY <1>1, <1>2

(* Every variable keeps its type. *)
THEOREM TypeCorrect == Spec => []TypeOK
  BY InitTypeOK, NextTypeOK, PTL DEF Spec

-----------------------------------------------------------------------------
(* No result is discarded within its lease.                                *)

LEMMA InitClaimsInStep == Init => ClaimsInStep
  BY DEF Init, ClaimsInStep, PerCall, PerSlot

(* An action that leaves claims, leases and deliveries alone. *)
LEMMA FrameClaimsInStep ==
  ASSUME ClaimsInStep,
         UNCHANGED <<rowStatus, claimToken, claimLease, batch, slot, held,
                     leaseLeft, active>>
  PROVE  ClaimsInStep'
  BY DEF ClaimsInStep, Accepts, Up

LEMMA NextBatchClaimsInStep ==
  ASSUME TypeOK, ClaimsInStep, NEW d \in Dispatchers, NEW B \in SUBSET Events,
         NEW v \in Versions, NextBatch(d, B, v)
  PROVE  ClaimsInStep'
<1>1. \A c \in Dispatchers, t \in Targets, e \in Events :
        Accepts(c, t, e) => Accepts(c, t, e)'
  <2> SUFFICES ASSUME NEW c \in Dispatchers, NEW t \in Targets, NEW e \in Events,
                      Accepts(c, t, e)
               PROVE  Accepts(c, t, e)'
    OBVIOUS
  <2>1. e \notin Freezes(B)
    BY DEF Freezes, HasRows, Accepts
  <2>2. rowStatus'[e][t] = rowStatus[e][t]
    BY <2>1 DEF NextBatch
  <2>3. QED
    BY <2>2 DEF Accepts, NextBatch
<1>2. B # {}
  <2>1. Cardinality({}) # 1
    BY FS_EmptySet
  <2>2. B \in Batches(todo[d])
    BY DEF NextBatch
  <2>3. QED
    BY <2>1, <2>2 DEF Batches
<1>3. \A c \in Dispatchers, t \in Targets :
        /\ slot'[c][t] \in {"idle", "queued"} => held[c][t] = {} /\ leaseLeft[c][t] = 0
        /\ c # d => slot'[c] = slot[c]
  BY ZenonT(60) DEF NextBatch, ClaimsInStep, TypeOK
<1>4. \A c \in Dispatchers : batch'[c] = {} => batch[c] = {} /\ c # d
  BY <1>2 DEF NextBatch, TypeOK
<1>5. UNCHANGED <<held, leaseLeft, claimLease, active>> /\ Up
  BY DEF NextBatch
<1>6. \A c \in Dispatchers, t \in Targets : held[c][t] \subseteq Events
  BY DEF TypeOK
<1>7. QED
  BY <1>1, <1>3, <1>4, <1>5, <1>6 DEF ClaimsInStep, Up

LEMMA ClaimClaimsInStep ==
  ASSUME TypeOK, ClaimsInStep, NEW d \in Dispatchers, NEW t \in Targets, Claim(d, t)
  PROVE  ClaimsInStep'
<1> DEFINE C == Claimable(batch[d], t)
<1>1. Up /\ active' = active /\ batch' = batch /\ batch[d] # {}
  BY DEF Claim, ClaimsInStep, callVars
<1>2. CASE C = {}
  <2>1. /\ slot' = [slot EXCEPT ![d][t] = "idle"]
        /\ UNCHANGED <<rowStatus, claimToken, claimLease, held, leaseLeft>>
    BY <1>2 DEF Claim, dbVars
  <2>2. held[d][t] = {} /\ leaseLeft[d][t] = 0
    BY DEF Claim, ClaimsInStep
  <2>3. \A c \in Dispatchers, u \in Targets :
          slot'[c][u] = IF c = d /\ u = t THEN "idle" ELSE slot[c][u]
    BY <2>1 DEF TypeOK
  <2>4. QED
    BY <1>1, <2>1, <2>2, <2>3 DEF ClaimsInStep, Accepts, Up
<1>3. CASE C # {}
  <2> HIDE DEF C
  <2>1. /\ slot' = [slot EXCEPT ![d][t] = "sending"]
        /\ held' = [held EXCEPT ![d][t] = C]
        /\ leaseLeft' = [leaseLeft EXCEPT ![d][t] = LeaseTicks]
        /\ rowStatus' = [e \in Events |-> IF e \in C
             THEN [rowStatus[e] EXCEPT ![t] = "sending"] ELSE rowStatus[e]]
        /\ claimToken' = [e \in Events |-> IF e \in C
             THEN [claimToken[e] EXCEPT ![t] = d] ELSE claimToken[e]]
        /\ claimLease' = [e \in Events |-> IF e \in C
             THEN [claimLease[e] EXCEPT ![t] = LeaseTicks] ELSE claimLease[e]]
    BY <1>3 DEF Claim, C
  (* A row that is claimed was in no running lease. *)
  <2>2. \A c \in Dispatchers, e \in C :
          leaseLeft[c][t] > 0 => e \notin held[c][t]
    BY DEF C, Claimable, ClaimsInStep, Accepts
  <2>3. ASSUME NEW c \in Dispatchers, NEW u \in Targets
        PROVE  /\ slot'[c][u] \in {"idle", "queued"} =>
                     held'[c][u] = {} /\ leaseLeft'[c][u] = 0
               /\ leaseLeft'[c][u] > 0 => \A e \in held'[c][u] :
                     Accepts(c, u, e)' /\ claimLease'[e][u] = leaseLeft'[c][u]
    <3>1. CASE c = d /\ u = t
      <4>1. C \subseteq Events
        BY DEF C, Claimable, TypeOK
      <4>2. slot'[d][t] = "sending" /\ held'[d][t] = C /\ leaseLeft'[d][t] = LeaseTicks
        BY <2>1 DEF TypeOK
      <4>3. \A e \in C : /\ rowStatus'[e][t] = "sending"
                         /\ claimToken'[e][t] = d
                         /\ claimLease'[e][t] = LeaseTicks
        BY <2>1, <4>1 DEF TypeOK
      <4>4. QED
        BY <3>1, <4>2, <4>3 DEF Accepts
    <3>2. CASE ~(c = d /\ u = t)
      <4>1. /\ slot'[c][u] = slot[c][u]
            /\ held'[c][u] = held[c][u]
            /\ leaseLeft'[c][u] = leaseLeft[c][u]
        BY <2>1, <3>2 DEF TypeOK
      <4>2. ASSUME leaseLeft[c][u] > 0, NEW e \in held[c][u]
            PROVE  /\ rowStatus'[e][u] = rowStatus[e][u]
                   /\ claimToken'[e][u] = claimToken[e][u]
                   /\ claimLease'[e][u] = claimLease[e][u]
        <5>1. e \in Events /\ (u = t => e \notin C)
          BY <2>2, <4>2 DEF TypeOK
        <5>2. QED
          BY <2>1, <5>1 DEF TypeOK
      <4>3. QED
        BY <4>1, <4>2 DEF ClaimsInStep, Accepts
    <3>3. QED
      BY <3>1, <3>2
  <2>4. \A c \in Dispatchers, u \in Targets : batch[c] = {} => slot'[c][u] = slot[c][u]
    BY <1>1, <2>1 DEF TypeOK
  <2>5. QED
    BY <1>1, <2>3, <2>4 DEF ClaimsInStep, Up
<1>4. QED
  BY <1>2, <1>3

LEMMA SendClaimsInStep ==
  ASSUME TypeOK, ClaimsInStep, NEW d \in Dispatchers, NEW t \in Targets,
         SendChunk(d, t) \/ \E arrived \in BOOLEAN : SendFails(d, t, arrived)
  PROVE  ClaimsInStep'
<1>1. slot[d][t] = "sending"
  BY DEF SendChunk, SendFails
<1>2. UNCHANGED <<rowStatus, claimToken, claimLease, batch, held, leaseLeft, active>>
  BY DEF SendChunk, SendFails, dbVars, callVars
<1>3. slot' = slot \/ slot' = [slot EXCEPT ![d][t] = "recording"]
  BY DEF SendChunk, SendFails
<1>4. \A c \in Dispatchers, u \in Targets :
        \/ slot'[c][u] = slot[c][u]
        \/ c = d /\ u = t /\ slot'[c][u] = "recording"
  BY <1>3 DEF TypeOK
<1>5. batch[d] # {} /\ Up
  BY <1>1 DEF ClaimsInStep
<1>6. QED
  BY <1>1, <1>2, <1>4, <1>5 DEF ClaimsInStep, Accepts, Up

LEMMA RecordClaimsInStep ==
  ASSUME TypeOK, ClaimsInStep, NEW d \in Dispatchers, NEW t \in Targets,
         NEW e \in Events, Record(d, t, e)
  PROVE  ClaimsInStep'
<1>1. Up /\ active' = active /\ batch' = batch /\ batch[d] # {}
  BY DEF Record, ClaimsInStep, callVars
(* Another call's running claim is not on the row that is completed. *)
<1>2. ASSUME NEW c \in Dispatchers, NEW u \in Targets, NEW f \in Events,
             Accepts(c, u, f), ~(c = d /\ u = t /\ f = e)
      PROVE  /\ rowStatus'[f][u] = rowStatus[f][u]
             /\ claimToken'[f][u] = claimToken[f][u]
             /\ claimLease'[f][u] = claimLease[f][u]
  <2>1. CASE Accepts(d, t, e)
    <3>1. ~(f = e /\ u = t)
      BY <1>2, <2>1 DEF Accepts
    <3>2. /\ rowStatus' = [rowStatus EXCEPT ![e][t] = outcome[d][t]]
          /\ claimToken' = [claimToken EXCEPT ![e][t] = NoClaim]
          /\ claimLease' = [claimLease EXCEPT ![e][t] = 0]
      BY <2>1 DEF Record
    <3>3. QED
      BY <3>1, <3>2 DEF TypeOK
  <2>2. CASE ~Accepts(d, t, e)
    BY <2>2 DEF Record, dbVars
  <2>3. QED
    BY <2>1, <2>2
<1>3. ASSUME NEW c \in Dispatchers, NEW u \in Targets
      PROVE  /\ slot'[c][u] \in {"idle", "queued"} =>
                   held'[c][u] = {} /\ leaseLeft'[c][u] = 0
             /\ leaseLeft'[c][u] > 0 => \A f \in held'[c][u] :
                   Accepts(c, u, f)' /\ claimLease'[f][u] = leaseLeft'[c][u]
             /\ slot[c][u] = "idle" => slot'[c][u] = "idle"
  <2>1. held' = [held EXCEPT ![d][t] = @ \ {e}]
    BY DEF Record
  <2>2. held[c][u] \subseteq Events
    BY DEF TypeOK
  <2>3. CASE c = d /\ u = t
    <3>1. CASE held[d][t] = {e}
      <4>1. /\ slot' = [slot EXCEPT ![d][t] = "idle"]
            /\ leaseLeft' = [leaseLeft EXCEPT ![d][t] = 0]
        BY <3>1 DEF Record
      <4>2. slot'[d][t] = "idle" /\ leaseLeft'[d][t] = 0 /\ held'[d][t] = {}
        BY <2>1, <3>1, <4>1 DEF TypeOK
      <4>3. QED
        BY <2>3, <4>2
    <3>2. CASE held[d][t] # {e}
      <4>1. slot' = slot /\ leaseLeft' = leaseLeft
        BY <3>2 DEF Record
      <4>2. held'[d][t] = held[d][t] \ {e}
        BY <2>1 DEF TypeOK
      <4>3. slot[d][t] = "recording"
        BY DEF Record
      <4>4. QED
        BY <1>2, <2>2, <2>3, <4>1, <4>2, <4>3 DEF ClaimsInStep, Accepts
    <3>3. QED
      BY <3>1, <3>2
  <2>4. CASE ~(c = d /\ u = t)
    <3>1. \/ slot' = slot /\ leaseLeft' = leaseLeft
          \/ /\ slot' = [slot EXCEPT ![d][t] = "idle"]
             /\ leaseLeft' = [leaseLeft EXCEPT ![d][t] = 0]
      BY DEF Record
    <3>2. slot'[c][u] = slot[c][u] /\ leaseLeft'[c][u] = leaseLeft[c][u]
      BY <2>4, <3>1 DEF TypeOK
    <3>3. held'[c][u] = held[c][u]
      BY <2>1, <2>4 DEF TypeOK
    <3>4. QED
      BY <1>2, <2>2, <2>4, <3>2, <3>3 DEF ClaimsInStep, Accepts
  <2>5. QED
    BY <2>3, <2>4
<1>4. QED
  BY <1>1, <1>3 DEF ClaimsInStep, Up

LEMMA FinishBatchClaimsInStep ==
  ASSUME TypeOK, ClaimsInStep, NEW d \in Dispatchers, FinishBatch(d)
  PROVE  ClaimsInStep'
<1>1. batch' = [batch EXCEPT ![d] = {}]
  BY DEF FinishBatch
<1>2. \A t \in Targets : slot[d][t] = "idle"
  BY DEF FinishBatch
<1>3. \A c \in Dispatchers : c # d => batch'[c] = batch[c]
  BY <1>1 DEF TypeOK
<1>4. UNCHANGED <<rowStatus, claimToken, claimLease, slot, held, leaseLeft, active>>
  BY DEF FinishBatch, slotVars
<1>5. QED
  BY <1>2, <1>3, <1>4 DEF ClaimsInStep, Accepts, Up

LEMMA TickClaimsInStep ==
  ASSUME TypeOK, ClaimsInStep, Tick
  PROVE  ClaimsInStep'
<1>1. UNCHANGED <<rowStatus, claimToken, batch, slot, held, active>>
  BY DEF Tick, callVars, slotVars
<1>2. ASSUME NEW d \in Dispatchers, NEW t \in Targets
      PROVE  /\ leaseLeft[d][t] \in 0..LeaseTicks
             /\ leaseLeft'[d][t] = CountDown(leaseLeft[d][t])
  BY DEF Tick, TypeOK
<1>3. ASSUME NEW e \in Events, NEW t \in Targets
      PROVE  /\ claimLease[e][t] \in 0..LeaseTicks
             /\ claimLease'[e][t] = CountDown(claimLease[e][t])
  BY DEF Tick, TypeOK
<1>4. \A d \in Dispatchers, t \in Targets : held[d][t] \subseteq Events
  BY DEF TypeOK
<1>5. QED
  BY <1>1, <1>2, <1>3, <1>4 DEF ClaimsInStep, Accepts, Up, CountDown

LEMMA CrashClaimsInStep ==
  ASSUME TypeOK, ClaimsInStep, Crash
  PROVE  ClaimsInStep'
  BY DEF Crash, ClaimsInStep, PerCall, PerSlot

LEMMA StartupClaimsInStep ==
  ASSUME TypeOK, ClaimsInStep, NEW A \in SUBSET Targets, Startup(A)
  PROVE  ClaimsInStep'
<1>1. \A d \in Dispatchers, t \in Targets :
        slot[d][t] = "idle" /\ held[d][t] = {} /\ leaseLeft[d][t] = 0
  BY DEF Startup, ClaimsInStep
<1>2. UNCHANGED <<slot, held, leaseLeft>>
  BY DEF Startup, slotVars
<1>3. QED
  BY <1>1, <1>2 DEF ClaimsInStep

LEMMA NextClaimsInStep ==
  TypeOK /\ ClaimsInStep /\ [Next]_vars => ClaimsInStep'
<1> SUFFICES ASSUME TypeOK, ClaimsInStep, [Next]_vars
             PROVE  ClaimsInStep'
  OBVIOUS
<1>1. CASE UNCHANGED vars
  BY <1>1, FrameClaimsInStep DEF vars, dbVars, callVars, slotVars
<1>2. ASSUME NEW d \in Dispatchers,
             \/ \E e \in Events : Reserve(d, e)
             \/ \E L \in RetryLists : CollectRetries(d, L)
      PROVE  ClaimsInStep'
  BY <1>2, FrameClaimsInStep DEF Reserve, CollectRetries, dbVars, slotVars
<1>3. CASE Next
  BY <1>2, <1>3, NextBatchClaimsInStep, ClaimClaimsInStep, SendClaimsInStep,
     RecordClaimsInStep, FinishBatchClaimsInStep, TickClaimsInStep,
     CrashClaimsInStep, StartupClaimsInStep
  DEF Next
<1>4. QED
  BY <1>1, <1>3

(***************************************************************************)
(* A result that comes back within its lease is accepted: the claim of     *)
(* another call never takes a row from a sender whose lease is running.    *)
(***************************************************************************)
THEOREM LiveClaims == Spec => []LiveClaimAccepted
<1>1. TypeOK /\ ClaimsInStep => LiveClaimAccepted
  BY DEF ClaimsInStep, LiveClaimAccepted
<1>2. Spec => []ClaimsInStep
  BY InitClaimsInStep, NextClaimsInStep, TypeCorrect, PTL DEF Spec
<1>3. QED
  BY <1>1, <1>2, TypeCorrect, PTL
-----------------------------------------------------------------------------
(* Nothing is sent twice.                                                  *)

UnderWay(d, t) == slot[d][t] \in {"sending", "recording"}

(* Is the success of a send that covers e about to be recorded? *)
Recording(e, t) ==
  \E d \in Dispatchers :
    slot[d][t] = "recording" /\ outcome[d][t] = "sent" /\ e \in held[d][t]

(* Has the last chunk of a message about e arrived? *)
Arrived(e, t) == \E m \in Messages : e \in m[1] /\ <<m, Chunks(m)>> \in heard[t]

(* Undisturbed, a delivery under way has its lease, and succeeds with the  *)
(* last chunk;                                                             *)
SlotSecure(d, t) ==
  UnderWay(d, t) =>
    /\ leaseLeft[d][t] > 0
    /\ held[d][t] \subseteq body[d][t]
    /\ slot[d][t] = "sending" =>
         /\ held[d][t] = body[d][t] /\ body[d][t] # {}
         /\ sentChunks[d][t] < Chunks(Message(d, t))
    /\ slot[d][t] = "recording" =>
         \/ outcome[d][t] = "sent"
         \/ outcome[d][t] = "failed" /\ sentChunks[d][t] < Chunks(Message(d, t))

(* a row is "sending" only while a delivery has it;                        *)
RowSecure(e, t) ==
  rowStatus[e][t] = "sending" => \E d \in Dispatchers : e \in held[d][t]

(* and of what has arrived whole the success is recorded, or about to be.  *)
ArrivedIsSent(e, t) == Arrived(e, t) => rowStatus[e][t] = "sent" \/ Recording(e, t)

Secure ==
  /\ Up
  /\ \A d \in Dispatchers, t \in Targets : SlotSecure(d, t)
  /\ \A e \in Events, t \in Targets : RowSecure(e, t) /\ ArrivedIsSent(e, t)

(* A row that is held has one holder, whose lease is running. *)
LEMMA Holder ==
  ASSUME TypeOK, ClaimsInStep, Secure, NEW d \in Dispatchers, NEW t \in Targets,
         NEW e \in held[d][t]
  PROVE  /\ e \in Events /\ UnderWay(d, t) /\ Accepts(d, t, e)
         /\ rowStatus[e][t] = "sending" /\ claimToken[e][t] = d /\ claimLease[e][t] > 0
<1>1. UnderWay(d, t) /\ e \in Events
  <2>1. slot[d][t] \in {"idle", "queued", "sending", "recording"} /\ held[d][t] \subseteq Events
    BY DEF TypeOK
  <2>2. slot[d][t] \notin {"idle", "queued"}
    BY DEF ClaimsInStep
  <2> QED
    BY <2>1, <2>2 DEF UnderWay
<1>2. leaseLeft[d][t] > 0
  BY <1>1 DEF Secure, SlotSecure
<1> QED
  BY <1>1, <1>2 DEF ClaimsInStep, Accepts

(* So a row that may be claimed has not arrived. *)
LEMMA ClaimableIsMissing ==
  ASSUME TypeOK, ClaimsInStep, Secure, NEW d \in Dispatchers, NEW t \in Targets,
         NEW e \in Claimable(batch[d], t)
  PROVE  /\ rowStatus[e][t] \in {"pending", "failed"}
         /\ \A c \in Dispatchers : e \notin held[c][t]
         /\ ~Arrived(e, t)
<1>1. e \in Events
  BY DEF Claimable, TypeOK
<1>2. rowStatus[e][t] # "sending"
  BY <1>1, Holder DEF Claimable, Secure, RowSecure
<1>3. rowStatus[e][t] \in {"pending", "failed"}
  BY <1>2 DEF Claimable
<1>4. \A c \in Dispatchers : e \notin held[c][t]
  BY <1>2, Holder
<1> QED
  BY <1>1, <1>3, <1>4 DEF Secure, ArrivedIsSent, Recording

LEMMA SlotSecureKept ==
  ASSUME NEW d, NEW t, SlotSecure(d, t),
         slot'[d][t] = slot[d][t], held'[d][t] = held[d][t], body'[d][t] = body[d][t],
         sentChunks'[d][t] = sentChunks[d][t], outcome'[d][t] = outcome[d][t],
         leaseLeft'[d][t] = leaseLeft[d][t],
         version'[d] = version[d] \/ ~UnderWay(d, t)
  PROVE  SlotSecure(d, t)'
  BY DEF SlotSecure, UnderWay, Message, Chunks

LEMMA FrameSecure ==
  ASSUME Secure, UNCHANGED <<rowStatus, slotVars, heard, active>>,
         \A d \in Dispatchers, t \in Targets :
           \/ ~UnderWay(d, t)
           \/ leaseLeft'[d][t] = leaseLeft[d][t] /\ version'[d] = version[d]
  PROVE  Secure'
<1>1. \A d \in Dispatchers, t \in Targets : SlotSecure(d, t)'
  BY SlotSecureKept DEF Secure, SlotSecure, UnderWay, slotVars
<1>2. \A e \in Events, t \in Targets : RowSecure(e, t)' /\ ArrivedIsSent(e, t)'
  BY DEF Secure, RowSecure, ArrivedIsSent, Recording, Arrived, Chunks, slotVars
<1> QED
  BY <1>1, <1>2 DEF Secure, Up

LEMMA InitSecure == Init => Secure
<1> SUFFICES ASSUME Init PROVE Secure
  OBVIOUS
<1>1. \A d \in Dispatchers, t \in Targets : SlotSecure(d, t)
  BY DEF Init, SlotSecure, UnderWay, PerSlot
<1>2. \A e \in Events, t \in Targets : RowSecure(e, t) /\ ArrivedIsSent(e, t)
  BY DEF Init, RowSecure, ArrivedIsSent, Arrived
<1> QED
  BY <1>1, <1>2 DEF Secure, Init, Up

(* A call that takes a batch changes no row that is held or sent. *)
LEMMA NextBatchSecure ==
  ASSUME TypeOK, ClaimsInStep, Secure, NEW d \in Dispatchers, NEW B \in SUBSET Events,
         NEW v \in Versions, NextBatch(d, B, v)
  PROVE  Secure'
<1>1. /\ UNCHANGED <<active, held, body, sentChunks, outcome, leaseLeft, heard>>
      /\ \A t \in Targets : slot[d][t] = "idle" /\ slot'[d][t] \in {"idle", "queued"}
      /\ \A c \in Dispatchers : c # d => slot'[c] = slot[c] /\ version'[c] = version[c]
  BY DEF NextBatch, ClaimsInStep, TypeOK
<1>2. \A e \in Events, t \in Targets :
        \/ rowStatus'[e][t] = rowStatus[e][t]
        \/ rowStatus[e][t] = "none" /\ rowStatus'[e][t] = "pending"
  BY DEF NextBatch, Freezes, HasRows
<1>3. \A c \in Dispatchers, t \in Targets : SlotSecure(c, t)'
  <2> TAKE c \in Dispatchers, t \in Targets
  <2>1. CASE c = d
    BY <1>1, <2>1 DEF SlotSecure, UnderWay
  <2>2. CASE c # d
    BY <1>1, <2>2, SlotSecureKept DEF Secure
  <2> QED
    BY <2>1, <2>2
<1>4. ASSUME NEW e \in Events, NEW t \in Targets
      PROVE  RowSecure(e, t)' /\ ArrivedIsSent(e, t)'
  <2>1. Recording(e, t) => Recording(e, t)'
    BY <1>1 DEF Recording
  <2>2. Arrived(e, t)' => Arrived(e, t)
    BY <1>1 DEF Arrived, Chunks
  <2>3. RowSecure(e, t) /\ ArrivedIsSent(e, t)
    BY DEF Secure
  <2> QED
    BY <1>1, <1>2, <2>1, <2>2, <2>3 DEF RowSecure, ArrivedIsSent
<1> QED
  BY <1>1, <1>3, <1>4 DEF Secure, Up

(* The chunk to resume at is one of the message. *)
LEMMA ResumeAtBelow ==
  ASSUME TypeOK, NEW C \in SUBSET Events, C # {}, NEW t \in Targets, NEW m,
         Chunks(m) \in Nat \ {0}
  PROVE  ResumeAt(C, t, m) < Chunks(m)
<1> DEFINE p == progress[CHOOSE e \in C : TRUE][t]
<1>1. (CHOOSE e \in C : TRUE) \in Events
  OBVIOUS
<1>2. p.chunks \in Nat
  BY <1>1 DEF TypeOK
<1> QED
  BY <1>2 DEF ResumeAt

(* What a claim does to the slots and rows of its target. *)
LEMMA ClaimEffect ==
  ASSUME TypeOK, NEW d \in Dispatchers, NEW t \in Targets, Claim(d, t)
  PROVE  LET C == Claimable(batch[d], t)
         IN  /\ UNCHANGED <<active, version, batch, outcome, progress, heard>>
             /\ slot[d][t] = "queued" /\ C \in SUBSET Events
             /\ C = {} => /\ slot'[d][t] = "idle"
                          /\ UNCHANGED <<rowStatus, held, body, sentChunks, leaseLeft>>
             /\ C # {} => /\ slot'[d][t] = "sending"
                          /\ held'[d][t] = C /\ body'[d][t] = C
                          /\ sentChunks'[d][t] = ResumeAt(C, t, <<C, version[d]>>)
                          /\ leaseLeft'[d][t] = LeaseTicks
             /\ \A c \in Dispatchers, u \in Targets : ~ (c = d /\ u = t) =>
                  /\ slot'[c][u] = slot[c][u] /\ held'[c][u] = held[c][u]
                  /\ body'[c][u] = body[c][u] /\ sentChunks'[c][u] = sentChunks[c][u]
                  /\ leaseLeft'[c][u] = leaseLeft[c][u]
             /\ \A e \in Events, u \in Targets :
                  rowStatus'[e][u] = IF u = t /\ e \in C THEN "sending" ELSE rowStatus[e][u]
<1> DEFINE C == Claimable(batch[d], t)
<1>1. C \in SUBSET Events
  BY DEF Claimable, TypeOK
<1>2. UNCHANGED <<active, version, batch, outcome, progress, heard>> /\ slot[d][t] = "queued"
  BY DEF Claim, callVars, dbVars
<1>3. CASE C = {}
  <2>1. /\ slot' = [slot EXCEPT ![d][t] = "idle"]
        /\ UNCHANGED <<rowStatus, held, body, sentChunks, leaseLeft>>
    BY <1>3 DEF Claim, dbVars
  <2>2. /\ slot'[d][t] = "idle"
        /\ \A c \in Dispatchers, u \in Targets : ~ (c = d /\ u = t) => slot'[c][u] = slot[c][u]
    BY <2>1 DEF TypeOK
  <2> HIDE DEF C
  <2> QED
    BY <1>1, <1>2, <1>3, <2>1, <2>2 DEF C
<1>4. CASE C # {}
  <2> DEFINE n == ResumeAt(C, t, <<C, version[d]>>)
  <2> HIDE DEF C, n
  <2>1. /\ slot' = [slot EXCEPT ![d][t] = "sending"]
        /\ held' = [held EXCEPT ![d][t] = C]
        /\ body' = [body EXCEPT ![d][t] = C]
        /\ sentChunks' = [sentChunks EXCEPT ![d][t] = n]
        /\ leaseLeft' = [leaseLeft EXCEPT ![d][t] = LeaseTicks]
        /\ rowStatus' = [e \in Events |-> IF e \in C
             THEN [rowStatus[e] EXCEPT ![t] = "sending"] ELSE rowStatus[e]]
    BY <1>4 DEF Claim, C, n
  <2>2. /\ slot'[d][t] = "sending" /\ held'[d][t] = C /\ body'[d][t] = C
        /\ sentChunks'[d][t] = n /\ leaseLeft'[d][t] = LeaseTicks
    BY <2>1 DEF TypeOK
  <2>3. \A c \in Dispatchers, u \in Targets : ~ (c = d /\ u = t) =>
          /\ slot'[c][u] = slot[c][u] /\ held'[c][u] = held[c][u]
          /\ body'[c][u] = body[c][u] /\ sentChunks'[c][u] = sentChunks[c][u]
          /\ leaseLeft'[c][u] = leaseLeft[c][u]
    BY <2>1 DEF TypeOK
  <2>4. \A e \in Events, u \in Targets :
          rowStatus'[e][u] = IF u = t /\ e \in C THEN "sending" ELSE rowStatus[e][u]
    BY <2>1 DEF TypeOK
  <2> QED
    BY <1>1, <1>2, <1>4, <2>2, <2>3, <2>4 DEF C, n
<1> QED
  BY <1>3, <1>4

LEMMA ClaimSecure ==
  ASSUME TypeOK, ClaimsInStep, Secure, NEW d \in Dispatchers, NEW t \in Targets, Claim(d, t)
  PROVE  Secure'
<1> DEFINE C == Claimable(batch[d], t)
<1>1. /\ UNCHANGED <<active, version, outcome, heard>>
      /\ slot[d][t] = "queued" /\ C \in SUBSET Events
      /\ C = {} => slot'[d][t] = "idle" /\ UNCHANGED <<rowStatus, held>>
      /\ C # {} => /\ slot'[d][t] = "sending"
                   /\ held'[d][t] = C /\ body'[d][t] = C
                   /\ sentChunks'[d][t] = ResumeAt(C, t, <<C, version[d]>>)
                   /\ leaseLeft'[d][t] = LeaseTicks
      /\ \A c \in Dispatchers, u \in Targets : ~ (c = d /\ u = t) =>
           /\ slot'[c][u] = slot[c][u] /\ held'[c][u] = held[c][u]
           /\ body'[c][u] = body[c][u] /\ sentChunks'[c][u] = sentChunks[c][u]
           /\ leaseLeft'[c][u] = leaseLeft[c][u]
      /\ \A e \in Events, u \in Targets :
           rowStatus'[e][u] = IF u = t /\ e \in C THEN "sending" ELSE rowStatus[e][u]
  BY SMTT(30), ClaimEffect
<1>2. \A e \in C : ~Arrived(e, t)
  BY ClaimableIsMissing
<1> HIDE DEF C
<1>3. ASSUME NEW c \in Dispatchers, NEW u \in Targets PROVE SlotSecure(c, u)'
  <2>1. CASE c = d /\ u = t /\ C = {}
    BY <1>1, <2>1 DEF SlotSecure, UnderWay
  <2>2. CASE c = d /\ u = t /\ C # {}
    <3>1. Message(d, t)' = <<C, version[d]>> /\ version[d] \in Versions
      BY <1>1, <2>2 DEF Message, TypeOK
    <3>2. Chunks(<<C, version[d]>>) \in Nat \ {0}
      BY <3>1 DEF Chunks
    <3>3. sentChunks'[d][t] < Chunks(<<C, version[d]>>)
      BY <1>1, <2>2, <3>2, ResumeAtBelow
    <3>4. Chunks(Message(d, t))' = Chunks(<<C, version[d]>>)
      BY <3>1 DEF Chunks
    <3> QED
      BY <1>1, <2>2, <3>3, <3>4 DEF SlotSecure
  <2>3. CASE ~ (c = d /\ u = t)
    <3>1. SlotSecure(c, u)
      BY DEF Secure
    <3> QED
      BY <1>1, <2>3, <3>1, SlotSecureKept
  <2> QED
    BY <2>1, <2>2, <2>3
<1>4. ASSUME NEW e \in Events, NEW u \in Targets
      PROVE  RowSecure(e, u)' /\ ArrivedIsSent(e, u)'
  <2>1. RowSecure(e, u) /\ ArrivedIsSent(e, u)
    BY DEF Secure
  <2>2. Arrived(e, u)' => Arrived(e, u)
    BY <1>1 DEF Arrived, Chunks
  <2>3. Recording(e, u) => Recording(e, u)'
    <3> SUFFICES ASSUME NEW c \in Dispatchers, slot[c][u] = "recording",
                        outcome[c][u] = "sent", e \in held[c][u]
                 PROVE  Recording(e, u)'
      BY DEF Recording
    <3>1. ~ (c = d /\ u = t)
      BY <1>1
    <3> QED
      BY <1>1, <3>1 DEF Recording
  <2>4. CASE u = t /\ e \in C
    <3>1. RowSecure(e, u)'
      BY <1>1, <2>4 DEF RowSecure
    <3> QED
      BY <1>2, <2>2, <2>4, <3>1 DEF ArrivedIsSent
  <2>5. CASE ~ (u = t /\ e \in C)
    <3>1. rowStatus'[e][u] = rowStatus[e][u]
      BY <1>1, <2>5
    <3>2. RowSecure(e, u)'
      <4> SUFFICES ASSUME NEW c \in Dispatchers, e \in held[c][u]
                   PROVE  \E b \in Dispatchers : e \in held'[b][u]
        BY <2>1, <3>1 DEF RowSecure
      <4>1. ~ (c = d /\ u = t)
        BY <1>1, Holder DEF UnderWay
      <4> QED
        BY <1>1, <4>1
    <3> QED
      BY <2>1, <2>2, <2>3, <3>1, <3>2 DEF ArrivedIsSent
  <2> QED
    BY <2>4, <2>5
<1> QED
  BY <1>1, <1>3, <1>4 DEF Secure, Up

(* Slots other than that of a step. *)
Elsewhere(d, t) ==
  \A c \in Dispatchers, u \in Targets : ~ (c = d /\ u = t) =>
    /\ slot'[c][u] = slot[c][u] /\ held'[c][u] = held[c][u] /\ body'[c][u] = body[c][u]
    /\ sentChunks'[c][u] = sentChunks[c][u] /\ outcome'[c][u] = outcome[c][u]
    /\ leaseLeft'[c][u] = leaseLeft[c][u] /\ version'[c] = version[c]

(* With the last chunk, the rows of the message are about to be "sent". *)
LEMMA SendChunkEffect ==
  ASSUME TypeOK, NEW d \in Dispatchers, NEW t \in Targets, SendChunk(d, t)
  PROVE  LET m == Message(d, t)
             k == sentChunks[d][t] + 1
         IN  /\ UNCHANGED <<rowStatus, progress, active, batch, version, held, body, leaseLeft>>
             /\ slot[d][t] = "sending" /\ k \in Nat /\ k <= Chunks(m)
             /\ m \in Messages /\ Message(d, t)' = m /\ Chunks(m) \in Nat
             /\ sentChunks'[d][t] = k /\ Elsewhere(d, t)
             /\ heard'[t] = heard[t] \cup {<<m, k>>}
             /\ \A u \in Targets : u # t => heard'[u] = heard[u]
             /\ k # Chunks(m) => UNCHANGED <<slot, outcome>>
             /\ k = Chunks(m) => slot'[d][t] = "recording" /\ outcome'[d][t] = "sent"
<1> DEFINE m == Message(d, t)
           k == sentChunks[d][t] + 1
<1>1. /\ UNCHANGED <<rowStatus, progress, active, batch, version, held, body, leaseLeft>>
      /\ slot[d][t] = "sending" /\ k <= Chunks(m)
      /\ heard' = [heard EXCEPT ![t] = @ \cup {<<m, k>>}]
      /\ sentChunks' = [sentChunks EXCEPT ![d][t] = k]
      /\ \/ k # Chunks(m) /\ UNCHANGED <<slot, outcome>>
         \/ /\ k = Chunks(m)
            /\ slot' = [slot EXCEPT ![d][t] = "recording"]
            /\ outcome' = [outcome EXCEPT ![d][t] = "sent"]
  BY DEF SendChunk, dbVars, callVars
<1>2. m \in Messages /\ Chunks(m) \in Nat /\ Message(d, t)' = m
  BY <1>1, MessageType DEF Message
<1>3. k \in Nat
  BY DEF TypeOK
<1> HIDE DEF m, k
<1>4. sentChunks'[d][t] = k /\ heard'[t] = heard[t] \cup {<<m, k>>}
  BY <1>1 DEF TypeOK
<1>5. \A u \in Targets : u # t => heard'[u] = heard[u]
  BY <1>1 DEF TypeOK
<1>6. Elsewhere(d, t)
  BY <1>1 DEF TypeOK, Elsewhere
<1>7. k = Chunks(m) => slot'[d][t] = "recording" /\ outcome'[d][t] = "sent"
  BY <1>1 DEF TypeOK
<1> QED
  BY <1>1, <1>2, <1>3, <1>4, <1>5, <1>6, <1>7 DEF m, k

LEMMA SendChunkSecure ==
  ASSUME TypeOK, ClaimsInStep, Secure, NEW d \in Dispatchers, NEW t \in Targets,
         SendChunk(d, t)
  PROVE  Secure'
<1> DEFINE m == Message(d, t)
           k == sentChunks[d][t] + 1
<1>1. /\ UNCHANGED <<rowStatus, active, version, held, body, leaseLeft>>
      /\ slot[d][t] = "sending" /\ k \in Nat /\ k <= Chunks(m)
      /\ m \in Messages /\ Message(d, t)' = m /\ Chunks(m) \in Nat
      /\ sentChunks'[d][t] = k /\ Elsewhere(d, t)
      /\ heard'[t] = heard[t] \cup {<<m, k>>}
      /\ \A u \in Targets : u # t => heard'[u] = heard[u]
      /\ k # Chunks(m) => UNCHANGED <<slot, outcome>>
      /\ k = Chunks(m) => slot'[d][t] = "recording" /\ outcome'[d][t] = "sent"
  BY SendChunkEffect
<1>2. SlotSecure(d, t) /\ held[d][t] = body[d][t]
  BY <1>1 DEF Secure, SlotSecure, UnderWay
<1>3. m[1] = held[d][t]
  BY <1>2 DEF Message
<1> HIDE DEF m, k
<1>4. ASSUME NEW c \in Dispatchers, NEW u \in Targets PROVE SlotSecure(c, u)'
  <2>1. CASE c = d /\ u = t
    <3>1. Chunks(Message(d, t))' = Chunks(m)
      BY <1>1 DEF Chunks
    <3>2. /\ leaseLeft'[d][t] > 0 /\ held'[d][t] \subseteq body'[d][t]
          /\ held'[d][t] = body'[d][t] /\ body'[d][t] # {}
      BY <1>1, <1>2 DEF SlotSecure, UnderWay
    <3> QED
      BY <1>1, <2>1, <3>1, <3>2 DEF SlotSecure
  <2>2. CASE ~ (c = d /\ u = t)
    BY <1>1, <2>2, SlotSecureKept DEF Secure, Elsewhere
  <2> QED
    BY <2>1, <2>2
<1>5. ASSUME NEW e \in Events, NEW u \in Targets
      PROVE  RowSecure(e, u)' /\ ArrivedIsSent(e, u)'
  <2>1. RowSecure(e, u) /\ ArrivedIsSent(e, u)
    BY DEF Secure
  <2>2. Arrived(e, u)' => Arrived(e, u) \/ (u = t /\ k = Chunks(m) /\ e \in m[1])
    <3> SUFFICES ASSUME NEW n \in Messages, e \in n[1], <<n, Chunks(n)>> \in heard'[u],
                        <<n, Chunks(n)>> \notin heard[u]
                 PROVE  u = t /\ k = Chunks(m) /\ e \in m[1]
      BY DEF Arrived, Chunks
    <3>1. u = t /\ <<n, Chunks(n)>> = <<m, k>>
      BY <1>1
    <3>2. n = m /\ Chunks(n) = k
      BY <3>1
    <3> QED
      BY <3>1, <3>2
  <2>3. Recording(e, u) => Recording(e, u)'
    BY <1>1 DEF Recording, Elsewhere
  <2>4. u = t /\ k = Chunks(m) /\ e \in m[1] => Recording(e, u)'
    BY <1>1, <1>3 DEF Recording
  <2>5. RowSecure(e, u)'
    BY <1>1, <2>1 DEF RowSecure
  <2> QED
    BY <1>1, <2>1, <2>2, <2>3, <2>4, <2>5 DEF ArrivedIsSent
<1> QED
  BY <1>1, <1>4, <1>5 DEF Secure, Up

(* A chunk whose request failed has not arrived. *)
LEMMA SendFailsEffect ==
  ASSUME TypeOK, Undisturbed, NEW d \in Dispatchers, NEW t \in Targets,
         NEW arrived \in BOOLEAN, SendFails(d, t, arrived)
  PROVE  /\ UNCHANGED <<rowStatus, progress, active, batch, version, held, body, sentChunks,
                        leaseLeft, heard>>
         /\ slot[d][t] = "sending"
         /\ slot'[d][t] = "recording" /\ outcome'[d][t] = "failed"
         /\ Elsewhere(d, t)
<1>1. /\ UNCHANGED <<rowStatus, progress, active, batch, version, held, body, sentChunks,
                     leaseLeft, heard>>
      /\ slot[d][t] = "sending"
      /\ slot' = [slot EXCEPT ![d][t] = "recording"]
      /\ outcome' = [outcome EXCEPT ![d][t] = "failed"]
  BY DEF SendFails, dbVars, callVars, Undisturbed
<1> QED
  BY <1>1 DEF TypeOK, Elsewhere

LEMMA SendFailsSecure ==
  ASSUME TypeOK, Undisturbed, ClaimsInStep, Secure, NEW d \in Dispatchers, NEW t \in Targets,
         NEW arrived \in BOOLEAN, SendFails(d, t, arrived)
  PROVE  Secure'
<1>1. /\ UNCHANGED <<rowStatus, active, version, held, body, sentChunks, leaseLeft, heard>>
      /\ slot[d][t] = "sending"
      /\ slot'[d][t] = "recording" /\ outcome'[d][t] = "failed"
      /\ Elsewhere(d, t)
  BY SendFailsEffect
<1>2. ASSUME NEW c \in Dispatchers, NEW u \in Targets PROVE SlotSecure(c, u)'
  <2>1. CASE c = d /\ u = t
    BY <1>1, <2>1 DEF Secure, SlotSecure, UnderWay, Message, Chunks
  <2>2. CASE ~ (c = d /\ u = t)
    BY <1>1, <2>2, SlotSecureKept DEF Secure, Elsewhere
  <2> QED
    BY <2>1, <2>2
<1>3. ASSUME NEW e \in Events, NEW u \in Targets
      PROVE  RowSecure(e, u)' /\ ArrivedIsSent(e, u)'
  <2>1. RowSecure(e, u) /\ ArrivedIsSent(e, u)
    BY DEF Secure
  <2>2. Recording(e, u) => Recording(e, u)'
    BY <1>1 DEF Recording, Elsewhere
  <2>3. Arrived(e, u)' => Arrived(e, u)
    BY <1>1 DEF Arrived, Chunks
  <2> QED
    BY <1>1, <2>1, <2>2, <2>3 DEF RowSecure, ArrivedIsSent
<1> QED
  BY <1>1, <1>2, <1>3 DEF Secure, Up

(* A result is accepted. *)
LEMMA RecordEffect ==
  ASSUME TypeOK, ClaimsInStep, Secure, NEW d \in Dispatchers, NEW t \in Targets,
         NEW f \in Events, Record(d, t, f)
  PROVE  /\ UNCHANGED <<active, batch, version, heard>>
         /\ slot[d][t] = "recording" /\ f \in held[d][t]
         /\ rowStatus[f][t] = "sending" /\ claimToken[f][t] = d
         /\ outcome[d][t] \in {"sent", "failed"}
         /\ rowStatus'[f][t] = outcome[d][t] /\ progress'[f][t] = Checkpoint(d, t)
         /\ \A e \in Events, u \in Targets : ~ (e = f /\ u = t) =>
              rowStatus'[e][u] = rowStatus[e][u] /\ progress'[e][u] = progress[e][u]
         /\ held'[d][t] = held[d][t] \ {f} /\ Elsewhere(d, t)
         /\ \/ held[d][t] = {f} /\ slot'[d][t] = "idle" /\ body'[d][t] = {}
            \/ held[d][t] # {f} /\ UNCHANGED <<slot, body, sentChunks, outcome, leaseLeft>>
<1>1. /\ UNCHANGED <<active, batch, version, heard>>
      /\ slot[d][t] = "recording" /\ f \in held[d][t]
      /\ held' = [held EXCEPT ![d][t] = @ \ {f}]
  BY DEF Record, callVars
<1>2. Accepts(d, t, f) /\ rowStatus[f][t] = "sending" /\ claimToken[f][t] = d
  BY <1>1, Holder
<1>3. outcome[d][t] \in {"sent", "failed"}
  BY <1>1 DEF Secure, SlotSecure, UnderWay
<1>4. /\ rowStatus' = [rowStatus EXCEPT ![f][t] = outcome[d][t]]
      /\ progress' = [progress EXCEPT ![f][t] = Checkpoint(d, t)]
  BY <1>2 DEF Record
<1>5. /\ rowStatus'[f][t] = outcome[d][t] /\ progress'[f][t] = Checkpoint(d, t)
      /\ \A e \in Events, u \in Targets : ~ (e = f /\ u = t) =>
           rowStatus'[e][u] = rowStatus[e][u] /\ progress'[e][u] = progress[e][u]
  BY <1>4 DEF TypeOK
<1>6. held'[d][t] = held[d][t] \ {f}
  BY <1>1 DEF TypeOK
<1>7. \/ held[d][t] # {f} /\ UNCHANGED <<slot, body, sentChunks, outcome, leaseLeft>>
      \/ /\ held[d][t] = {f}
         /\ slot' = [slot EXCEPT ![d][t] = "idle"]
         /\ body' = [body EXCEPT ![d][t] = {}]
         /\ sentChunks' = [sentChunks EXCEPT ![d][t] = 0]
         /\ outcome' = [outcome EXCEPT ![d][t] = "none"]
         /\ leaseLeft' = [leaseLeft EXCEPT ![d][t] = 0]
  BY DEF Record
<1>8. Elsewhere(d, t)
  BY <1>1, <1>7 DEF TypeOK, Elsewhere
<1>9. \/ held[d][t] = {f} /\ slot'[d][t] = "idle" /\ body'[d][t] = {}
      \/ held[d][t] # {f} /\ UNCHANGED <<slot, body, sentChunks, outcome, leaseLeft>>
  BY <1>7 DEF TypeOK
<1> QED
  BY <1>1, <1>2, <1>3, <1>5, <1>6, <1>8, <1>9

LEMMA RecordSecure ==
  ASSUME TypeOK, ClaimsInStep, Secure, NEW d \in Dispatchers, NEW t \in Targets,
         NEW f \in Events, Record(d, t, f)
  PROVE  Secure'
<1>1. /\ UNCHANGED <<active, version, heard>>
      /\ slot[d][t] = "recording" /\ f \in held[d][t]
      /\ outcome[d][t] \in {"sent", "failed"} /\ rowStatus'[f][t] = outcome[d][t]
      /\ rowStatus[f][t] = "sending" /\ claimToken[f][t] = d
      /\ \A e \in Events, u \in Targets : ~ (e = f /\ u = t) => rowStatus'[e][u] = rowStatus[e][u]
      /\ held'[d][t] = held[d][t] \ {f} /\ Elsewhere(d, t)
      /\ \/ held[d][t] = {f} /\ slot'[d][t] = "idle"
         \/ held[d][t] # {f} /\ UNCHANGED <<slot, body, sentChunks, outcome, leaseLeft>>
  BY RecordEffect
<1>2. ASSUME NEW c \in Dispatchers, NEW u \in Targets PROVE SlotSecure(c, u)'
  <2>1. SlotSecure(c, u)
    BY DEF Secure
  <2>2. CASE c = d /\ u = t /\ held[d][t] = {f}
    BY <1>1, <2>2 DEF SlotSecure, UnderWay
  <2>3. CASE c = d /\ u = t /\ held[d][t] # {f}
    BY <1>1, <2>1, <2>3 DEF SlotSecure, UnderWay, Message, Chunks
  <2>4. CASE ~ (c = d /\ u = t)
    BY <1>1, <2>1, <2>4, SlotSecureKept DEF Elsewhere
  <2> QED
    BY <2>2, <2>3, <2>4
<1>3. ASSUME NEW e \in Events, NEW u \in Targets
      PROVE  RowSecure(e, u)' /\ ArrivedIsSent(e, u)'
  <2>1. RowSecure(e, u) /\ ArrivedIsSent(e, u)
    BY DEF Secure
  <2>2. Arrived(e, u)' => Arrived(e, u)
    BY <1>1 DEF Arrived, Chunks
  <2>3. CASE e = f /\ u = t
    <3>1. RowSecure(e, u)'
      BY <1>1, <2>3 DEF RowSecure
    <3>2. Recording(f, t) => outcome[d][t] = "sent"
      <4> SUFFICES ASSUME NEW c \in Dispatchers, outcome[c][t] = "sent", f \in held[c][t]
                   PROVE  c = d
        BY DEF Recording
      <4> QED
        BY <1>1, Holder
    <3> QED
      BY <1>1, <2>1, <2>2, <2>3, <3>1, <3>2 DEF ArrivedIsSent
  <2>4. CASE ~ (e = f /\ u = t)
    <3>1. rowStatus'[e][u] = rowStatus[e][u]
      BY <1>1, <2>4
    <3>2. \A c \in Dispatchers : e \in held[c][u] => e \in held'[c][u]
      BY <1>1, <2>4 DEF Elsewhere
    <3>3. Recording(e, u) => Recording(e, u)'
      <4> SUFFICES ASSUME NEW c \in Dispatchers, slot[c][u] = "recording",
                          outcome[c][u] = "sent", e \in held[c][u]
                   PROVE  slot'[c][u] = "recording" /\ outcome'[c][u] = "sent"
        BY <3>2 DEF Recording
      <4>1. CASE c = d /\ u = t
        BY <1>1, <2>4, <4>1
      <4>2. CASE ~ (c = d /\ u = t)
        BY <1>1, <4>2 DEF Elsewhere
      <4> QED
        BY <4>1, <4>2
    <3> QED
      BY <2>1, <2>2, <3>1, <3>2, <3>3 DEF RowSecure, ArrivedIsSent
  <2> QED
    BY <2>3, <2>4
<1> QED
  BY <1>1, <1>2, <1>3 DEF Secure, Up

LEMMA TickSecure ==
  ASSUME TypeOK, Undisturbed, Secure, Tick
  PROVE  Secure'
<1>1. \A d \in Dispatchers, t \in Targets : ~UnderWay(d, t)
  BY DEF Tick, Undisturbed, UnderWay
<1> QED
  BY <1>1, FrameSecure DEF Tick

LEMMA FinishBatchSecure ==
  ASSUME TypeOK, Secure, NEW d \in Dispatchers, FinishBatch(d)
  PROVE  Secure'
<1>1. \A t \in Targets : ~UnderWay(d, t)
  BY DEF FinishBatch, UnderWay
<1>2. version' = version \/ version' = [version EXCEPT ![d] = AnyWording]
  BY DEF FinishBatch
<1>3. \A c \in Dispatchers : c # d => version'[c] = version[c]
  BY <1>2 DEF TypeOK
<1>4. UNCHANGED <<rowStatus, slotVars, heard, active, leaseLeft>>
  BY DEF FinishBatch
<1> QED
  BY <1>1, <1>3, <1>4, FrameSecure

LEMMA OnlyCrashCounts == [Next]_vars /\ ~Crash => crashes' = crashes
<1>1. UNCHANGED vars => crashes' = crashes
  BY DEF vars
<1>2. \A d \in Dispatchers, e \in Events : Reserve(d, e) => crashes' = crashes
  BY DEF Reserve
<1>3. \A d \in Dispatchers, L \in RetryLists : CollectRetries(d, L) => crashes' = crashes
  BY DEF CollectRetries
<1>4. \A d \in Dispatchers, B \in SUBSET Events, v \in Versions :
        NextBatch(d, B, v) => crashes' = crashes
  BY DEF NextBatch
<1>5. \A d \in Dispatchers, t \in Targets :
        Claim(d, t) \/ SendChunk(d, t) => crashes' = crashes
  BY DEF Claim, SendChunk
<1>6. \A d \in Dispatchers, t \in Targets :
        /\ \A arrived \in BOOLEAN : SendFails(d, t, arrived) => crashes' = crashes
        /\ \A e \in Events : Record(d, t, e) => crashes' = crashes
  BY DEF SendFails, Record
<1>7. \A d \in Dispatchers : FinishBatch(d) => crashes' = crashes
  BY DEF FinishBatch
<1>8. /\ Tick => crashes' = crashes
      /\ \A A \in SUBSET Targets : Startup(A) => crashes' = crashes
  BY DEF Tick, Startup
<1> QED
  BY <1>1, <1>2, <1>3, <1>4, <1>5, <1>6, <1>7, <1>8 DEF Next

SecureWhenUndisturbed == Undisturbed => Secure

LEMMA NextSecure ==
  TypeOK /\ ClaimsInStep /\ SecureWhenUndisturbed /\ [Next]_vars => SecureWhenUndisturbed'
<1> SUFFICES ASSUME TypeOK, ClaimsInStep, SecureWhenUndisturbed, [Next]_vars, Undisturbed'
             PROVE  Secure'
  BY DEF SecureWhenUndisturbed
<1>1. CASE Crash
  BY <1>1 DEF Crash, Undisturbed, TypeOK
<1>2. CASE ~Crash
  <2>1. crashes' = crashes
    BY <1>2, OnlyCrashCounts
  <2>2. Undisturbed /\ Secure
    BY <2>1 DEF Undisturbed, SecureWhenUndisturbed
  <2>3. CASE UNCHANGED vars
    BY <2>2, <2>3, FrameSecure DEF vars, dbVars, callVars, slotVars
  <2>4. ASSUME NEW d \in Dispatchers,
               \/ \E e \in Events : Reserve(d, e)
               \/ \E L \in RetryLists : CollectRetries(d, L)
        PROVE  Secure'
    BY <2>2, <2>4, FrameSecure DEF Reserve, CollectRetries, dbVars, slotVars
  <2>5. \A A \in SUBSET Targets : ~Startup(A)
    BY <2>2 DEF Startup, Secure
  <2> QED
    BY <1>2, <2>2, <2>3, <2>4, <2>5, NextBatchSecure, ClaimSecure, SendChunkSecure,
       SendFailsSecure, RecordSecure, TickSecure, FinishBatchSecure
    DEF Next
<1> QED
  BY <1>1, <1>2

-----------------------------------------------------------------------------
(* Where an alert has one message, the progress of its row covers all that *)
(* has arrived of it.                                                      *)

OneWording == \A v, w \in Versions : v = w
NothingMerged == \A G \in DcaDates : \A e, f \in G : e = f

(* The message of an alert that is sent alone. *)
Alone(e) == <<{e}, AnyWording>>

HeardOf(e, t) == {k \in Nat : <<Alone(e), k>> \in heard[t]}

(* A delivery that holds the alert goes on after what has arrived;         *)
SlotSteady(d, t) == \A e \in held[d][t] : \A k \in HeardOf(e, t) : k <= sentChunks[d][t]

(* so does, in the end, a row that waits.                                  *)
RowSteady(e, t) ==
  rowStatus[e][t] \in {"none", "pending", "failed"} =>
    \A k \in HeardOf(e, t) :
      /\ progress[e][t].message = Alone(e)
      /\ k <= progress[e][t].chunks
      /\ progress[e][t].chunks < Chunks(Alone(e))

Steady ==
  /\ \A d \in Dispatchers : \A e, f \in batch[d] : e = f
  /\ \A d \in Dispatchers, t \in Targets : \A e, f \in body[d][t] : e = f
  /\ \A t \in Targets : \A h \in heard[t] : h[2] > 0
  /\ \A d \in Dispatchers, t \in Targets : SlotSteady(d, t)
  /\ \A e \in Events, t \in Targets : RowSteady(e, t)

SteadyWhenUndisturbed == Undisturbed /\ OneWording /\ NothingMerged => Steady

(* The message of a delivery under way is that of its one alert. *)
LEMMA MessageOfHolder ==
  ASSUME TypeOK, OneWording, Steady, NEW d \in Dispatchers, NEW t \in Targets,
         NEW e \in body[d][t]
  PROVE  Message(d, t) = Alone(e)
<1>1. body[d][t] = {e}
  BY DEF Steady
<1>2. version[d] = AnyWording
  BY AnyWordingType DEF OneWording, TypeOK
<1> QED
  BY <1>1, <1>2 DEF Message, Alone

LEMMA InitSteady == Init => Steady
<1> SUFFICES ASSUME Init PROVE Steady
  OBVIOUS
<1>1. \A e \in Events, t \in Targets : HeardOf(e, t) = {}
  BY DEF Init, HeardOf
<1> QED
  BY <1>1 DEF Init, Steady, SlotSteady, RowSteady, PerCall, PerSlot

LEMMA FrameSteady ==
  ASSUME TypeOK, Steady, UNCHANGED <<rowStatus, progress, batch, held, body, sentChunks, heard>>
  PROVE  Steady'
  BY DEF Steady, SlotSteady, RowSteady, HeardOf, Alone, Chunks

LEMMA RowSteadyKept ==
  ASSUME NEW e, NEW t, RowSteady(e, t), progress'[e][t] = progress[e][t],
         rowStatus'[e][t] = rowStatus[e][t] \/ rowStatus'[e][t] = "sending",
         HeardOf(e, t)' = HeardOf(e, t)
  PROVE  RowSteady(e, t)'
<1>1. Chunks(Alone(e))' = Chunks(Alone(e)) /\ Alone(e)' = Alone(e)
  BY DEF Chunks, Alone
<1> QED
  BY <1>1 DEF RowSteady

LEMMA NextBatchSteady ==
  ASSUME TypeOK, Steady, NothingMerged, NEW d \in Dispatchers, NEW B \in SUBSET Events,
         NEW v \in Versions, NextBatch(d, B, v)
  PROVE  Steady'
<1>1. /\ UNCHANGED <<progress, held, body, sentChunks, heard>>
      /\ batch' = [batch EXCEPT ![d] = B]
      /\ B \in Batches(todo[d])
  BY DEF NextBatch
<1>2. \A e, f \in B : e = f
  <2>1. CASE \E G \in DcaDates : B \subseteq G
    BY <2>1 DEF NothingMerged
  <2>2. CASE \E e \in todo[d] : B = {e}
    BY <2>2
  <2> QED
    BY <1>1, <2>1, <2>2 DEF Batches
<1>3. \A c \in Dispatchers : \A e, f \in batch'[c] : e = f
  BY <1>1, <1>2 DEF Steady, TypeOK
<1>4. \A e \in Events, t \in Targets :
        \/ rowStatus'[e][t] = rowStatus[e][t]
        \/ rowStatus[e][t] = "none" /\ rowStatus'[e][t] = "pending"
  BY DEF NextBatch, Freezes, HasRows
<1>5. \A e \in Events, t \in Targets : RowSteady(e, t)'
  BY <1>1, <1>4 DEF Steady, RowSteady, HeardOf, Alone, Chunks
<1> QED
  BY <1>1, <1>3, <1>5 DEF Steady, SlotSteady, HeardOf, Alone

(* A claim resumes after the last chunk that has arrived. *)
LEMMA ResumeCovers ==
  ASSUME TypeOK, OneWording, NEW e \in Events, NEW t \in Targets, NEW v \in Versions,
         RowSteady(e, t), rowStatus[e][t] \in {"pending", "failed"}, NEW k \in HeardOf(e, t)
  PROVE  k <= ResumeAt({e}, t, <<{e}, v>>)
<1>1. v = AnyWording
  BY AnyWordingType DEF OneWording
<1>2. (CHOOSE f \in {e} : TRUE) = e
  OBVIOUS
<1>3. /\ progress[e][t].message = Alone(e) /\ k <= progress[e][t].chunks
      /\ progress[e][t].chunks < Chunks(Alone(e))
  BY DEF RowSteady
<1>4. ResumeAt({e}, t, Alone(e)) = progress[e][t].chunks
  BY <1>2, <1>3 DEF ResumeAt
<1> QED
  BY <1>1, <1>3, <1>4 DEF Alone

LEMMA ClaimSteady ==
  ASSUME TypeOK, ClaimsInStep, Secure, OneWording, Steady,
         NEW d \in Dispatchers, NEW t \in Targets, Claim(d, t)
  PROVE  Steady'
<1> DEFINE C == Claimable(batch[d], t)
<1>1. /\ UNCHANGED <<version, batch, progress, heard>>
      /\ slot[d][t] = "queued" /\ C \in SUBSET Events
      /\ C = {} => UNCHANGED <<rowStatus, held, body, sentChunks>>
      /\ C # {} => /\ held'[d][t] = C /\ body'[d][t] = C
                   /\ sentChunks'[d][t] = ResumeAt(C, t, <<C, version[d]>>)
      /\ \A c \in Dispatchers, u \in Targets : ~ (c = d /\ u = t) =>
           /\ held'[c][u] = held[c][u] /\ body'[c][u] = body[c][u]
           /\ sentChunks'[c][u] = sentChunks[c][u]
      /\ \A e \in Events, u \in Targets :
           rowStatus'[e][u] = IF u = t /\ e \in C THEN "sending" ELSE rowStatus[e][u]
  BY ClaimEffect
<1>2. \A e \in C : rowStatus[e][t] \in {"pending", "failed"}
  BY ClaimableIsMissing
<1>3. \A e, f \in C : e = f
  BY DEF Claimable, Steady
<1> HIDE DEF C
<1>4. CASE C = {}
  BY <1>1, <1>4, FrameSteady
<1>5. CASE C # {}
  <2>1. PICK e \in Events : C = {e}
    BY <1>1, <1>3, <1>5
  <2>2. ASSUME NEW c \in Dispatchers, NEW u \in Targets
        PROVE  SlotSteady(c, u)' /\ \A f, g \in body'[c][u] : f = g
    <3>1. CASE c = d /\ u = t
      <4>1. RowSteady(e, t) /\ rowStatus[e][t] \in {"pending", "failed"}
        BY <1>2, <2>1 DEF Steady
      <4>2. version[d] \in Versions
        BY DEF TypeOK
      <4>3. \A k \in HeardOf(e, t) : k <= sentChunks'[d][t]
        BY <1>1, <1>5, <2>1, <4>1, <4>2, ResumeCovers
      <4> QED
        BY <1>1, <1>5, <2>1, <3>1, <4>3 DEF SlotSteady, HeardOf, Alone
    <3>2. CASE ~ (c = d /\ u = t)
      BY <1>1, <3>2 DEF Steady, SlotSteady, HeardOf, Alone
    <3> QED
      BY <3>1, <3>2
  <2>3. ASSUME NEW f \in Events, NEW u \in Targets PROVE RowSteady(f, u)'
    <3>1. HeardOf(f, u)' = HeardOf(f, u)
      BY <1>1 DEF HeardOf, Alone
    <3> QED
      BY <1>1, <3>1, RowSteadyKept DEF Steady
  <2> QED
    BY <1>1, <2>2, <2>3 DEF Steady
<1> QED
  BY <1>4, <1>5

LEMMA SendChunkSteady ==
  ASSUME TypeOK, ClaimsInStep, Secure, OneWording, Steady,
         NEW d \in Dispatchers, NEW t \in Targets, SendChunk(d, t)
  PROVE  Steady'
<1> DEFINE m == Message(d, t)
           k == sentChunks[d][t] + 1
<1>1. /\ UNCHANGED <<rowStatus, progress, batch, held, body>>
      /\ slot[d][t] = "sending" /\ k \in Nat
      /\ sentChunks'[d][t] = k /\ Elsewhere(d, t)
      /\ heard'[t] = heard[t] \cup {<<m, k>>}
      /\ \A u \in Targets : u # t => heard'[u] = heard[u]
  BY SendChunkEffect
<1>2. held[d][t] = body[d][t] /\ body[d][t] # {}
  BY <1>1 DEF Secure, SlotSecure, UnderWay
<1>3. PICK e \in held[d][t] : TRUE
  BY <1>2
<1>4. e \in Events /\ rowStatus[e][t] = "sending" /\ held[d][t] = {e}
  BY <1>2, Holder DEF Steady
<1>5. m = Alone(e)
  BY <1>2, MessageOfHolder
<1>6. k > 0 /\ k > sentChunks[d][t] /\ sentChunks[d][t] \in Nat
  BY DEF TypeOK
<1> HIDE DEF m, k
<1>7. \A f \in Events, u \in Targets : ~ (f = e /\ u = t) => HeardOf(f, u)' = HeardOf(f, u)
  <2> SUFFICES ASSUME NEW f \in Events, NEW u \in Targets, ~ (f = e /\ u = t)
               PROVE  HeardOf(f, u)' = HeardOf(f, u)
    OBVIOUS
  <2>1. CASE u # t
    BY <1>1, <2>1 DEF HeardOf, Alone
  <2>2. CASE u = t
    <3>1. Alone(f) # m
      BY <1>5, <2>2 DEF Alone
    <3> QED
      BY <1>1, <2>2, <3>1 DEF HeardOf, Alone
  <2> QED
    BY <2>1, <2>2
<1>8. HeardOf(e, t)' \subseteq HeardOf(e, t) \cup {k}
  BY <1>1, <1>5 DEF HeardOf, Alone
<1>9. ASSUME NEW c \in Dispatchers, NEW u \in Targets PROVE SlotSteady(c, u)'
  <2>1. CASE c = d /\ u = t
    <3>1. \A j \in HeardOf(e, t) : j \in Nat /\ j <= sentChunks[d][t]
      BY DEF Steady, SlotSteady, HeardOf
    <3>2. \A j \in HeardOf(e, t)' : j <= k
      BY <1>1, <1>6, <1>8, <3>1
    <3> QED
      BY <1>1, <1>4, <2>1, <3>2 DEF SlotSteady
  <2>2. CASE ~ (c = d /\ u = t)
    <3>1. \A f \in held[c][u] : f \in Events /\ ~ (f = e /\ u = t)
      BY <2>2, Holder
    <3> QED
      BY <1>1, <1>7, <2>2, <3>1 DEF Steady, SlotSteady, Elsewhere
  <2> QED
    BY <2>1, <2>2
<1>10. ASSUME NEW f \in Events, NEW u \in Targets PROVE RowSteady(f, u)'
  <2>1. CASE f = e /\ u = t
    BY <1>1, <1>4, <2>1 DEF RowSteady
  <2>2. CASE ~ (f = e /\ u = t)
    BY <1>1, <1>7, <2>2, RowSteadyKept DEF Steady
  <2> QED
    BY <2>1, <2>2
<1>11. \A u \in Targets : \A h \in heard'[u] : h[2] > 0
  BY <1>1, <1>6 DEF Steady
<1> QED
  BY <1>1, <1>9, <1>10, <1>11 DEF Steady

LEMMA RecordSteady ==
  ASSUME TypeOK, ClaimsInStep, Secure, OneWording, Steady,
         NEW d \in Dispatchers, NEW t \in Targets, NEW f \in Events, Record(d, t, f)
  PROVE  Steady'
<1>1. /\ UNCHANGED <<batch, heard>>
      /\ slot[d][t] = "recording" /\ f \in held[d][t]
      /\ outcome[d][t] \in {"sent", "failed"}
      /\ rowStatus'[f][t] = outcome[d][t] /\ progress'[f][t] = Checkpoint(d, t)
      /\ \A e \in Events, u \in Targets : ~ (e = f /\ u = t) =>
           rowStatus'[e][u] = rowStatus[e][u] /\ progress'[e][u] = progress[e][u]
      /\ held'[d][t] = held[d][t] \ {f} /\ Elsewhere(d, t)
      /\ \/ held[d][t] = {f} /\ body'[d][t] = {}
         \/ held[d][t] # {f} /\ UNCHANGED <<slot, body, sentChunks, outcome, leaseLeft>>
  BY RecordEffect
<1>2. ASSUME NEW c \in Dispatchers, NEW u \in Targets
      PROVE  SlotSteady(c, u)' /\ \A e, g \in body'[c][u] : e = g
  <2>1. CASE c = d /\ u = t
    BY <1>1, <2>1 DEF Steady, SlotSteady, HeardOf, Alone
  <2>2. CASE ~ (c = d /\ u = t)
    BY <1>1, <2>2 DEF Steady, SlotSteady, HeardOf, Alone, Elsewhere
  <2> QED
    BY <2>1, <2>2
<1>3. ASSUME NEW e \in Events, NEW u \in Targets PROVE RowSteady(e, u)'
  <2>1. CASE e = f /\ u = t /\ outcome[d][t] = "sent"
    BY <1>1, <2>1 DEF RowSteady
  <2>2. CASE e = f /\ u = t /\ outcome[d][t] = "failed"
    <3> SUFFICES ASSUME NEW k \in HeardOf(f, t)
                 PROVE  /\ Checkpoint(d, t).message = Alone(f)
                        /\ k <= Checkpoint(d, t).chunks
                        /\ Checkpoint(d, t).chunks < Chunks(Alone(f))
      BY <1>1, <2>2 DEF RowSteady, HeardOf, Alone, Chunks
    <3>1. k \in Nat /\ k <= sentChunks[d][t]
      BY <1>1 DEF Steady, SlotSteady, HeardOf
    <3>2. k > 0
      BY DEF Steady, HeardOf
    <3>3. sentChunks[d][t] > 0
      BY <3>1, <3>2 DEF TypeOK
    <3>4. f \in body[d][t] /\ sentChunks[d][t] < Chunks(Message(d, t))
      BY <1>1, <2>2 DEF Secure, SlotSecure, UnderWay
    <3>5. Message(d, t) = Alone(f)
      BY <3>4, MessageOfHolder
    <3> QED
      BY <2>2, <3>1, <3>3, <3>4, <3>5 DEF Checkpoint
  <2>3. CASE ~ (e = f /\ u = t)
    <3>1. HeardOf(e, u)' = HeardOf(e, u)
      BY <1>1 DEF HeardOf, Alone
    <3> QED
      BY <1>1, <2>3, <3>1, RowSteadyKept DEF Steady
  <2> QED
    BY <1>1, <2>1, <2>2, <2>3
<1> QED
  BY <1>1, <1>2, <1>3 DEF Steady

LEMMA FinishBatchSteady ==
  ASSUME TypeOK, Steady, NEW d \in Dispatchers, FinishBatch(d)
  PROVE  Steady'
<1>1. /\ UNCHANGED <<rowStatus, progress, held, body, sentChunks, heard>>
      /\ batch' = [batch EXCEPT ![d] = {}]
  BY DEF FinishBatch, slotVars
<1>2. \A c \in Dispatchers : \A e, f \in batch'[c] : e = f
  BY <1>1 DEF Steady, TypeOK
<1> QED
  BY <1>1, <1>2 DEF Steady, SlotSteady, RowSteady, HeardOf, Alone, Chunks

LEMMA NextSteady ==
  /\ TypeOK /\ ClaimsInStep /\ SecureWhenUndisturbed
  /\ SteadyWhenUndisturbed /\ [Next]_vars
  => SteadyWhenUndisturbed'
<1> SUFFICES ASSUME TypeOK, ClaimsInStep, SecureWhenUndisturbed, SteadyWhenUndisturbed,
                    [Next]_vars, Undisturbed', OneWording, NothingMerged
             PROVE  Steady'
  BY DEF SteadyWhenUndisturbed, OneWording, NothingMerged
<1>1. CASE Crash
  BY <1>1 DEF Crash, Undisturbed, TypeOK
<1>2. CASE ~Crash
  <2>1. crashes' = crashes
    BY <1>2, OnlyCrashCounts
  <2>2. Undisturbed /\ Secure /\ Steady
    BY <2>1 DEF Undisturbed, SecureWhenUndisturbed, SteadyWhenUndisturbed
  <2>3. CASE UNCHANGED vars \/ Tick
    BY <2>2, <2>3, FrameSteady DEF vars, dbVars, callVars, slotVars, Tick
  <2>4. ASSUME NEW d \in Dispatchers,
               \/ \E e \in Events : Reserve(d, e)
               \/ \E L \in RetryLists : CollectRetries(d, L)
        PROVE  Steady'
    BY <2>2, <2>4, FrameSteady DEF Reserve, CollectRetries, dbVars, slotVars
  <2>5. ASSUME NEW d \in Dispatchers, NEW t \in Targets, NEW arrived \in BOOLEAN,
               SendFails(d, t, arrived)
        PROVE  Steady'
    BY <2>2, <2>5, SendFailsEffect, FrameSteady
  <2>6. \A A \in SUBSET Targets : ~Startup(A)
    BY <2>2 DEF Startup, Secure
  <2> QED
    BY <1>2, <2>2, <2>3, <2>4, <2>5, <2>6, NextBatchSteady, ClaimSteady, SendChunkSteady,
       RecordSteady, FinishBatchSteady
    DEF Next
<1> QED
  BY <1>1, <1>2

LEMMA ReceivedHasArrived ==
  ASSUME TypeOK, NEW e, NEW t \in Targets, Received(e, t)
  PROVE  Arrived(e, t)
<1>1. PICK m \in {h[1] : h \in heard[t]} :
        e \in m[1] /\ \A k \in 1..Chunks(m) : <<m, k>> \in heard[t]
  BY DEF Received
<1>2. m \in Messages
  BY <1>1 DEF TypeOK
<1>3. Chunks(m) \in Nat \ {0}
  BY <1>2 DEF Messages, Chunks
<1> QED
  BY <1>1, <1>2, <1>3 DEF Arrived

LEMMA SendsNothingTwice ==
  ASSUME TypeOK, ClaimsInStep, SecureWhenUndisturbed, SteadyWhenUndisturbed, Undisturbed,
         NEW d \in Dispatchers, NEW t \in Targets, slot[d][t] = "sending",
         sentChunks'[d][t] = sentChunks[d][t] + 1
  PROVE  /\ \A e \in body[d][t] : ~Received(e, t)
         /\ OneMessageEach => <<Message(d, t), sentChunks'[d][t]>> \notin heard[t]
<1> DEFINE m == Message(d, t)
           k == sentChunks[d][t] + 1
<1>1. Secure
  BY DEF SecureWhenUndisturbed
<1>2. /\ held[d][t] = body[d][t] /\ body[d][t] # {}
      /\ sentChunks[d][t] < Chunks(m)
  BY <1>1 DEF Secure, SlotSecure, UnderWay
<1>3. m \in Messages /\ Chunks(m) \in Nat /\ k \in Nat /\ sentChunks[d][t] \in Nat
  BY MessageType DEF TypeOK
<1>4. \A e \in body[d][t] : ~Arrived(e, t)
  <2> SUFFICES ASSUME NEW e \in body[d][t], Arrived(e, t) PROVE FALSE
    OBVIOUS
  <2>1. e \in Events /\ rowStatus[e][t] = "sending" /\ claimToken[e][t] = d
    BY <1>1, <1>2, Holder
  <2>2. PICK c \in Dispatchers : slot[c][t] = "recording" /\ e \in held[c][t]
    BY <1>1, <2>1 DEF Secure, ArrivedIsSent, Recording
  <2> QED
    BY <1>1, <2>1, <2>2, Holder
<1>5. PICK e \in body[d][t] : TRUE
  BY <1>2
<1>6. CASE \A v \in Versions : ChunksOf[v] = 1
  <2>1. Chunks(m) = 1
    BY <1>3, <1>6 DEF Chunks, Messages
  <2>2. k = Chunks(m)
    BY <1>2, <1>3, <2>1
  <2>3. e \in m[1]
    BY DEF Message
  <2>4. <<m, k>> \notin heard[t]
    BY <1>3, <1>4, <2>2, <2>3 DEF Arrived
  <2> QED
    BY <1>4, <2>4, ReceivedHasArrived
<1>7. CASE OneWording /\ NothingMerged
  <2>1. Steady
    BY <1>7 DEF SteadyWhenUndisturbed
  <2>2. m = Alone(e)
    BY <1>7, <2>1, MessageOfHolder
  <2>3. \A j \in HeardOf(e, t) : j <= sentChunks[d][t]
    BY <1>2, <2>1 DEF Steady, SlotSteady
  <2>4. <<m, k>> \notin heard[t]
    BY <1>3, <2>2, <2>3 DEF HeardOf
  <2> QED
    BY <1>4, <2>4, ReceivedHasArrived
<1>8. CASE ~OneMessageEach
  BY <1>4, <1>8, ReceivedHasArrived
<1> QED
  BY <1>6, <1>7, <1>8 DEF OneMessageEach, OneWording, NothingMerged

(***************************************************************************)
(* While nothing disturbs the delivery, no target is sent anything of an   *)
(* alert it has whole, and no chunk twice if alerts keep one message each, *)
(* for any number of calls, targets, alerts, wordings and chunks.          *)
(***************************************************************************)
THEOREM SentOnce == Spec => NothingTwice
<1>1. Init => SecureWhenUndisturbed /\ SteadyWhenUndisturbed
  BY InitSecure, InitSteady DEF SecureWhenUndisturbed, SteadyWhenUndisturbed
<1>2. Spec => [](TypeOK /\ ClaimsInStep)
  BY InitClaimsInStep, NextClaimsInStep, TypeCorrect, PTL DEF Spec
<1>3. Spec => [](SecureWhenUndisturbed /\ SteadyWhenUndisturbed)
  BY <1>1, <1>2, NextSecure, NextSteady, PTL DEF Spec
<1>4. /\ TypeOK /\ ClaimsInStep /\ SecureWhenUndisturbed /\ SteadyWhenUndisturbed
      => [Undisturbed =>
            \A d \in Dispatchers, t \in Targets :
              sentChunks'[d][t] = sentChunks[d][t] + 1 /\ slot[d][t] = "sending" =>
                /\ \A e \in body[d][t] : ~Received(e, t)
                /\ OneMessageEach =>
                     <<Message(d, t), sentChunks'[d][t]>> \notin heard[t]]_vars
  BY SendsNothingTwice
<1> QED
  BY <1>2, <1>3, <1>4, PTL DEF NothingTwice
=============================================================================
