------------------------ MODULE NotificationDelivery ------------------------
(***************************************************************************)
(* Durable delivery of alert events: the tables alert_events and           *)
(* notification_deliveries (db.py), the dispatch calls that work on them   *)
(* (notifications/dispatch.py), the chunked Telegram send                  *)
(* (notifications/telegram.py), the retry lists of the scheduled jobs      *)
(* (scheduler.py) and the reconciliation of targets at startup (main.py).  *)
(*                                                                         *)
(* Each action is one SQLite transaction (BEGIN IMMEDIATE) or one await of *)
(* a dispatch call.  A claim token is drawn afresh by each claim; here the *)
(* token is the dispatch call that drew it, which is as good: a call holds *)
(* at most one claim on a row and a restart ends every call.  claim_until  *)
(* is kept as the ticks left until then.                                   *)
(***************************************************************************)
EXTENDS Integers, FiniteSets

CONSTANTS
  Events,           \* alert events (one per alert_key)
  Targets,          \* notification targets that can be configured
  Dispatchers,      \* dispatch calls that may be under way at once
  NoClaim,          \* claim_token IS NULL
  Reopened,         \* events of rules that use reserve_alert_event
  RetryLists,       \* what each list_retryable_*_alert_events selects from
  DcaDates,         \* sets of DCA reminders that share a due date
  Versions,         \* wordings a dispatch call may give its messages
  ChunksOf,         \* number of Telegram chunks of a message, per wording
  LeaseTicks,       \* NOTIFICATION_DELIVERY_CLAIM_LEASE_SECONDS
  MaxConcurrent,    \* MAX_CONCURRENT_DELIVERIES
  MaxCrashes,       \* bound on crashes and restarts
  SendsOutlastLease,\* may a send take longer than its lease?
  LostReplies       \* may a request fail after its message arrived?

ASSUME DeliveryAssumption ==
  /\ NoClaim \notin Dispatchers
  /\ Reopened \subseteq Events
  /\ RetryLists \subseteq SUBSET Events
  /\ DcaDates \subseteq SUBSET Events
  /\ ChunksOf \in [Versions -> Nat \ {0}]
  /\ LeaseTicks \in Nat \ {0}
  /\ MaxConcurrent \in Nat \ {0}
  /\ MaxCrashes \in Nat
  /\ SendsOutlastLease \in BOOLEAN
  /\ LostReplies \in BOOLEAN
  /\ Versions # {}

VARIABLES
  (* the database *)
  eventStatus,   \* alert_events.notification_status, or "absent"
  rowStatus,     \* notification_deliveries.status, or "none"
  claimToken,
  claimLease,
  progress,      \* result_json: sent_chunks and body_fingerprint
  (* the process *)
  active,        \* the configured targets; {} while the process is down
  crashes,
  phase, todo, batch, version,           \* one record per dispatch call
  slot, held, body, sentChunks, outcome, \* one per call and target
  (* kept for the properties only *)
  leaseLeft,     \* ticks left of the lease the call drew
  heard          \* the <<message, chunk>> pairs a target received

dbVars    == <<eventStatus, rowStatus, claimToken, claimLease, progress>>
callVars  == <<phase, todo, batch, version>>
slotVars  == <<slot, held, body, sentChunks, outcome>>
vars == <<dbVars, active, crashes, callVars, slotVars, leaseLeft, heard>>

EventStatus == {"absent", "pending", "sent", "failed", "cancelled"}
RowStatus   == {"none", "pending", "sending", "sent", "failed", "cancelled"}
Unfinished  == {"pending", "sending", "failed"}

(* A message is identified, as by its fingerprint, by the events it was    *)
(* merged from and its wording.                                            *)
Messages   == (SUBSET Events) \X Versions
AnyWording == CHOOSE v \in Versions : TRUE
NoProgress == [chunks |-> 0, message |-> <<{}, AnyWording>>]

(* Merged DCA reminders are kept within one Telegram message.              *)
Chunks(m) == IF Cardinality(m[1]) = 1 THEN ChunksOf[m[2]] ELSE 1

Message(d, t) == <<body[d][t], version[d]>>

-----------------------------------------------------------------------------
(* Mutants of Aggregate: the row status leaks into the event; one success  *)
(* is enough, as in record_alert_notification_result.                      *)
AggregateLeaksRow(old, rs) ==
  IF \E t \in Targets : rs[t] = "sending" THEN "sending" ELSE old

AggregateAnySuccess(old, rs) ==
  IF \E t \in Targets : rs[t] = "sent" THEN "sent" ELSE "failed"

(* _refresh_alert_notification_status: the status of an event whose rows   *)
(* have the statuses rs and whose own status is old.                       *)
Aggregate(old, rs) ==
  LET statuses == {rs[t] : t \in Targets} \ {"none"}
  IN CASE statuses = {} -> IF old = "sent" THEN "sent" ELSE "failed"
       [] statuses = {"sent"} -> "sent"
       [] statuses \cap {"pending", "sending"} # {} -> "pending"
       [] statuses # {} /\ statuses # {"sent"}
            /\ statuses \subseteq {"sent", "cancelled"} -> "cancelled"
       [] OTHER -> "failed"

HasRows(e) == \E t \in Targets : rowStatus[e][t] # "none"

Up == active # {}

(* A new key, or a failed event of a kind that reserve_alert_event handles. *)
Reservable(e) ==
  eventStatus[e] = "absent" \/ (e \in Reopened /\ eventStatus[e] = "failed")

(***************************************************************************)
(* A job's evaluation (or /check) records an alert before anything is      *)
(* sent: a new event, or, for the kinds that use reserve_alert_event, a    *)
(* failed event set back to pending.  Its delivery rows are left alone.    *)
(***************************************************************************)
Reserve(d, e) ==
  /\ Up
  /\ phase[d] \in {"idle", "evaluating"}
  /\ Reservable(e)
  /\ eventStatus' = [eventStatus EXCEPT ![e] = "pending"]
  /\ phase' = [phase EXCEPT ![d] = "evaluating"]
  /\ todo' = [todo EXCEPT ![d] = @ \cup {e}]
  /\ UNCHANGED <<rowStatus, claimToken, claimLease, progress, active, crashes,
                 batch, version, slotVars, leaseLeft, heard>>

(* A retry call reads the events its list selects. *)
CollectRetries(d, L) ==
  LET due == {e \in L : eventStatus[e] \in {"pending", "failed"}}
  IN /\ Up
     /\ phase[d] = "idle"
     /\ due # {}
     /\ phase' = [phase EXCEPT ![d] = "evaluating"]
     /\ todo' = [todo EXCEPT ![d] = due]
     /\ UNCHANGED <<dbVars, active, crashes, batch, version, slotVars,
                    leaseLeft, heard>>

(* Only DCA reminders of one date are merged. *)
Batches(E) == {{e} : e \in E}
                \cup {B \in SUBSET E : B # {} /\ \E G \in DcaDates : B \subseteq G}

(* ensure_notification_delivery_targets: the events of E that get rows. *)
Freezes(E) == {e \in E : /\ eventStatus[e] \notin {"absent", "sent", "cancelled"}
                         /\ ~HasRows(e)}

(***************************************************************************)
(* send_alert_notifications takes the next batch: one transaction freezes  *)
(* the configured targets of its events, then one delivery per target      *)
(* waits for the semaphore.  The first batch fixes the wording.            *)
(***************************************************************************)
NextBatch(d, B, v) ==
  /\ Up
  /\ phase[d] = "evaluating" \/ (phase[d] = "dispatching" /\ v = version[d])
  /\ batch[d] = {}
  /\ B \in Batches(todo[d])
  /\ phase' = [phase EXCEPT ![d] = "dispatching"]
  /\ batch' = [batch EXCEPT ![d] = B]
  /\ todo' = [todo EXCEPT ![d] = @ \ B]
  /\ version' = [version EXCEPT ![d] = v]
  /\ rowStatus' = [e \in Events |-> [t \in Targets |->
       IF e \in Freezes(B) /\ t \in active THEN "pending" ELSE rowStatus[e][t]]]
  /\ slot' = [slot EXCEPT ![d] = [t \in Targets |->
       IF t \in active THEN "queued" ELSE "idle"]]
  /\ UNCHANGED <<eventStatus, claimToken, claimLease, progress, active, crashes,
                 held, body, sentChunks, outcome, leaseLeft, heard>>

(* Mutant: the lease is not looked at. *)
ClaimableAnySending(B, t) == {e \in B : rowStatus[e][t] \in Unfinished}

(* claim_notification_deliveries for one target: pending or failed rows,   *)
(* and rows whose lease has run out.                                       *)
Claimable(B, t) ==
  {e \in B : \/ rowStatus[e][t] \in {"pending", "failed"}
             \/ rowStatus[e][t] = "sending" /\ claimLease[e][t] = 0}

(* Mutants: the fingerprint is not compared; progress is not used. *)
ResumeAnyMessage(C, t, m) ==
  LET p == progress[CHOOSE e \in C : TRUE][t]
  IN IF p.chunks < Chunks(m) THEN p.chunks ELSE 0

ResumeNever(C, t, m) == 0

(* _common_delivery_progress and the test at the top of send_to: the chunk *)
(* from which message m is sent, given the claims C.                       *)
ResumeAt(C, t, m) ==
  LET p == progress[CHOOSE e \in C : TRUE][t]
  IN IF /\ \A e \in C : progress[e][t] = p
        /\ p.message = m
        /\ p.chunks < Chunks(m)
     THEN p.chunks
     ELSE 0

(* The rows E of target t, taken by dispatch call d. *)
Claim(d, t) ==
  LET C == Claimable(batch[d], t)
  IN /\ slot[d][t] = "queued"
     /\ Cardinality({u \in Targets : slot[d][u] = "sending"}) < MaxConcurrent
     /\ IF C = {}
        THEN /\ slot' = [slot EXCEPT ![d][t] = "idle"]
             /\ UNCHANGED <<dbVars, held, body, sentChunks, leaseLeft>>
        ELSE /\ slot' = [slot EXCEPT ![d][t] = "sending"]
             /\ held' = [held EXCEPT ![d][t] = C]
             /\ body' = [body EXCEPT ![d][t] = C]
             /\ sentChunks' = [sentChunks EXCEPT ![d][t] =
                                 ResumeAt(C, t, <<C, version[d]>>)]
             /\ leaseLeft' = [leaseLeft EXCEPT ![d][t] = LeaseTicks]
             /\ rowStatus' = [e \in Events |-> IF e \in C
                  THEN [rowStatus[e] EXCEPT ![t] = "sending"] ELSE rowStatus[e]]
             /\ claimToken' = [e \in Events |-> IF e \in C
                  THEN [claimToken[e] EXCEPT ![t] = d] ELSE claimToken[e]]
             /\ claimLease' = [e \in Events |-> IF e \in C
                  THEN [claimLease[e] EXCEPT ![t] = LeaseTicks] ELSE claimLease[e]]
             /\ UNCHANGED <<eventStatus, progress>>
     /\ UNCHANGED <<active, crashes, callVars, outcome, heard>>

(* The next chunk of the message arrives and the adapter learns of it. *)
SendChunk(d, t) ==
  LET k == sentChunks[d][t] + 1
      m == Message(d, t)
  IN /\ slot[d][t] = "sending"
     /\ k <= Chunks(m)
     /\ heard' = [heard EXCEPT ![t] = @ \cup {<<m, k>>}]
     /\ sentChunks' = [sentChunks EXCEPT ![d][t] = k]
     /\ IF k = Chunks(m)
        THEN /\ slot' = [slot EXCEPT ![d][t] = "recording"]
             /\ outcome' = [outcome EXCEPT ![d][t] = "sent"]
        ELSE UNCHANGED <<slot, outcome>>
     /\ UNCHANGED <<dbVars, active, crashes, callVars, held, body, leaseLeft>>

(* The request fails; the chunk may have arrived all the same. *)
SendFails(d, t, arrived) ==
  LET m == Message(d, t)
  IN /\ slot[d][t] = "sending"
     /\ arrived => LostReplies
     /\ heard' = IF arrived
                 THEN [heard EXCEPT ![t] = @ \cup {<<m, sentChunks[d][t] + 1>>}]
                 ELSE heard
     /\ slot' = [slot EXCEPT ![d][t] = "recording"]
     /\ outcome' = [outcome EXCEPT ![d][t] = "failed"]
     /\ UNCHANGED <<dbVars, active, crashes, callVars, held, body, sentChunks,
                    leaseLeft>>

(* Mutant: the claim token is not checked. *)
AcceptsAnyResult(d, t, e) == rowStatus[e][t] # "none"

(* complete_notification_delivery accepts only the holder of the token. *)
Accepts(d, t, e) == rowStatus[e][t] = "sending" /\ claimToken[e][t] = d

Checkpoint(d, t) ==
  IF outcome[d][t] = "failed" /\ sentChunks[d][t] > 0
  THEN [chunks |-> sentChunks[d][t], message |-> Message(d, t)]
  ELSE NoProgress

(***************************************************************************)
(* complete_notification_delivery: the result of one claim is recorded and *)
(* the event's status refreshed, in one transaction; a stale result is     *)
(* discarded.  The slot is free after the last claim of the message.       *)
(***************************************************************************)
Record(d, t, e) ==
  /\ slot[d][t] = "recording"
  /\ e \in held[d][t]
  /\ IF Accepts(d, t, e)
     THEN /\ rowStatus' = [rowStatus EXCEPT ![e][t] = outcome[d][t]]
          /\ claimToken' = [claimToken EXCEPT ![e][t] = NoClaim]
          /\ claimLease' = [claimLease EXCEPT ![e][t] = 0]
          /\ progress' = [progress EXCEPT ![e][t] = Checkpoint(d, t)]
          /\ eventStatus' = [eventStatus EXCEPT ![e] =
               Aggregate(@, [rowStatus[e] EXCEPT ![t] = outcome[d][t]])]
     ELSE UNCHANGED dbVars
  /\ held' = [held EXCEPT ![d][t] = @ \ {e}]
  /\ IF held[d][t] # {e}
     THEN UNCHANGED <<slot, body, sentChunks, outcome, leaseLeft>>
     ELSE /\ slot' = [slot EXCEPT ![d][t] = "idle"]
          /\ body' = [body EXCEPT ![d][t] = {}]
          /\ sentChunks' = [sentChunks EXCEPT ![d][t] = 0]
          /\ outcome' = [outcome EXCEPT ![d][t] = "none"]
          /\ leaseLeft' = [leaseLeft EXCEPT ![d][t] = 0]
  /\ UNCHANGED <<active, crashes, callVars, heard>>

(* After the gather: refresh_alert_notification_status for the batch. *)
FinishBatch(d) ==
  /\ phase[d] = "dispatching"
  /\ batch[d] # {}
  /\ \A t \in Targets : slot[d][t] = "idle"
  /\ eventStatus' = [e \in Events |-> IF e \in batch[d]
       THEN Aggregate(eventStatus[e], rowStatus[e]) ELSE eventStatus[e]]
  /\ batch' = [batch EXCEPT ![d] = {}]
  /\ IF todo[d] = {}
     THEN /\ phase' = [phase EXCEPT ![d] = "idle"]
          /\ version' = [version EXCEPT ![d] = AnyWording]
     ELSE UNCHANGED <<phase, version>>
  /\ UNCHANGED <<rowStatus, claimToken, claimLease, progress, active, crashes,
                 todo, slotVars, leaseLeft, heard>>

(* Time passes. *)
CountDown(n) == IF n = 0 THEN 0 ELSE n - 1

Tick ==
  /\ \/ \E e \in Events, t \in Targets : claimLease[e][t] > 0
     \/ \E d \in Dispatchers, t \in Targets : leaseLeft[d][t] > 0
  /\ \/ SendsOutlastLease
     \/ \A d \in Dispatchers, t \in Targets : slot[d][t] \in {"idle", "queued"}
  /\ claimLease' = [e \in Events |-> [t \in Targets |-> CountDown(claimLease[e][t])]]
  /\ leaseLeft' = [d \in Dispatchers |-> [t \in Targets |-> CountDown(leaseLeft[d][t])]]
  /\ UNCHANGED <<eventStatus, rowStatus, claimToken, progress, active, crashes,
                 callVars, slotVars, heard>>

PerCall(x) == [d \in Dispatchers |-> x]
PerSlot(x) == [d \in Dispatchers |-> [t \in Targets |-> x]]

(* The process dies or is stopped: only the database survives. *)
Crash ==
  /\ Up
  /\ crashes < MaxCrashes
  /\ crashes' = crashes + 1
  /\ active' = {}
  /\ phase' = PerCall("idle")
  /\ todo' = PerCall({})
  /\ batch' = PerCall({})
  /\ version' = PerCall(AnyWording)
  /\ slot' = PerSlot("idle")
  /\ held' = PerSlot({})
  /\ body' = PerSlot({})
  /\ sentChunks' = PerSlot(0)
  /\ outcome' = PerSlot("none")
  /\ leaseLeft' = PerSlot(0)
  /\ UNCHANGED <<dbVars, heard>>

(* Mutant: rows that were being sent are forgotten. *)
RemovedButIdle(A, e, t) == t \notin A /\ rowStatus[e][t] \in {"pending", "failed"}

Removed(A, e, t) == t \notin A /\ rowStatus[e][t] \in Unfinished

(***************************************************************************)
(* Startup with the configuration A (never empty): before any job runs,    *)
(* cancel_removed_notification_targets cancels the unfinished rows of the  *)
(* targets that are gone, revokes their claims and refreshes the events.   *)
(***************************************************************************)
Startup(A) ==
  LET rows == [e \in Events |-> [t \in Targets |->
                 IF Removed(A, e, t) THEN "cancelled" ELSE rowStatus[e][t]]]
  IN /\ ~Up
     /\ A # {}
     /\ active' = A
     /\ rowStatus' = rows
     /\ claimToken' = [e \in Events |-> [t \in Targets |->
                         IF Removed(A, e, t) THEN NoClaim ELSE claimToken[e][t]]]
     /\ claimLease' = [e \in Events |-> [t \in Targets |->
                         IF Removed(A, e, t) THEN 0 ELSE claimLease[e][t]]]
     /\ eventStatus' = [e \in Events |->
                          IF \E t \in Targets : Removed(A, e, t)
                          THEN Aggregate(eventStatus[e], rows[e])
                          ELSE eventStatus[e]]
     /\ UNCHANGED <<progress, crashes, callVars, slotVars, leaseLeft, heard>>

-----------------------------------------------------------------------------
Init ==
  /\ eventStatus = [e \in Events |-> "absent"]
  /\ rowStatus = [e \in Events |-> [t \in Targets |-> "none"]]
  /\ claimToken = [e \in Events |-> [t \in Targets |-> NoClaim]]
  /\ claimLease = [e \in Events |-> [t \in Targets |-> 0]]
  /\ progress = [e \in Events |-> [t \in Targets |-> NoProgress]]
  /\ active \in (SUBSET Targets) \ {{}}
  /\ crashes = 0
  /\ phase = PerCall("idle")
  /\ todo = PerCall({})
  /\ batch = PerCall({})
  /\ version = PerCall(AnyWording)
  /\ slot = PerSlot("idle")
  /\ held = PerSlot({})
  /\ body = PerSlot({})
  /\ sentChunks = PerSlot(0)
  /\ outcome = PerSlot("none")
  /\ leaseLeft = PerSlot(0)
  /\ heard = [t \in Targets |-> {}]

Next ==
  \/ \E d \in Dispatchers, e \in Events : Reserve(d, e)
  \/ \E d \in Dispatchers, L \in RetryLists : CollectRetries(d, L)
  \/ \E d \in Dispatchers, B \in SUBSET Events, v \in Versions : NextBatch(d, B, v)
  \/ \E d \in Dispatchers, t \in Targets : Claim(d, t)
  \/ \E d \in Dispatchers, t \in Targets : SendChunk(d, t)
  \/ \E d \in Dispatchers, t \in Targets, arrived \in BOOLEAN : SendFails(d, t, arrived)
  \/ \E d \in Dispatchers, t \in Targets, e \in Events : Record(d, t, e)
  \/ \E d \in Dispatchers : FinishBatch(d)
  \/ Tick
  \/ Crash
  \/ \E A \in SUBSET Targets : Startup(A)

Spec == Init /\ [][Next]_vars

-----------------------------------------------------------------------------
(* Properties. *)

TypeOK ==
  /\ eventStatus \in [Events -> EventStatus]
  /\ rowStatus \in [Events -> [Targets -> RowStatus]]
  /\ claimToken \in [Events -> [Targets -> Dispatchers \cup {NoClaim}]]
  /\ claimLease \in [Events -> [Targets -> 0..LeaseTicks]]
  /\ progress \in [Events -> [Targets -> [chunks : Nat, message : Messages]]]
  /\ active \in SUBSET Targets
  /\ crashes \in 0..MaxCrashes
  /\ phase \in [Dispatchers -> {"idle", "evaluating", "dispatching"}]
  /\ todo \in [Dispatchers -> SUBSET Events]
  /\ batch \in [Dispatchers -> SUBSET Events]
  /\ version \in [Dispatchers -> Versions]
  /\ slot \in [Dispatchers -> [Targets -> {"idle", "queued", "sending", "recording"}]]
  /\ held \in [Dispatchers -> [Targets -> SUBSET Events]]
  /\ body \in [Dispatchers -> [Targets -> SUBSET Events]]
  /\ sentChunks \in [Dispatchers -> [Targets -> Nat]]
  /\ outcome \in [Dispatchers -> [Targets -> {"none", "sent", "failed"}]]
  /\ leaseLeft \in [Dispatchers -> [Targets -> 0..LeaseTicks]]
  /\ heard \in [Targets -> SUBSET (Messages \X Nat)]

(***************************************************************************)
(* While the lease a call drew is running, the row is still its own:       *)
(* complete_notification_delivery accepts its result, so that within the   *)
(* lease no result is thrown away and no second call sends the message.    *)
(***************************************************************************)
LiveClaimAccepted ==
  \A d \in Dispatchers, t \in Targets : leaseLeft[d][t] > 0 =>
    \A e \in held[d][t] : Accepts(d, t, e) /\ claimLease[e][t] > 0

(* The inductive form: a call counts its own lease down in step with the   *)
(* row's, and only a delivery under way holds claims.                      *)
ClaimsInStep ==
  /\ \A d \in Dispatchers, t \in Targets :
       /\ slot[d][t] \in {"idle", "queued"} => held[d][t] = {} /\ leaseLeft[d][t] = 0
       /\ leaseLeft[d][t] > 0 =>
            \A e \in held[d][t] :
              Accepts(d, t, e) /\ claimLease[e][t] = leaseLeft[d][t]
  /\ \A d \in Dispatchers :
       batch[d] = {} \/ ~Up => \A t \in Targets : slot[d][t] = "idle"

(***************************************************************************)
(* A row is "sent" only if its target has received every chunk of one      *)
(* message, in one wording, that covers the event, whatever attempts,      *)
(* resumed sends and discarded results that took.                          *)
(***************************************************************************)
Received(e, t) ==
  \E m \in {h[1] : h \in heard[t]} :
    e \in m[1] /\ \A k \in 1..Chunks(m) : <<m, k>> \in heard[t]

WholeMessageDelivered ==
  \A e \in Events, t \in Targets : rowStatus[e][t] = "sent" => Received(e, t)

(***************************************************************************)
(* An event is closed ("sent", "cancelled") exactly when each of its rows  *)
(* is; it is "sent" exactly when every target it was frozen for got it.    *)
(* A closed event leaves the retry lists, an open one must still be able   *)
(* to get there.                                                           *)
(***************************************************************************)
Settled(e) == HasRows(e) /\ \A t \in Targets : rowStatus[e][t] \notin Unfinished

StatusMatchesRows ==
  \A e \in Events :
    LET lapsed == \E t \in Targets : rowStatus[e][t] = "cancelled"
    IN /\ eventStatus[e] = "sent" <=> Settled(e) /\ ~lapsed
       /\ eventStatus[e] = "cancelled" <=> Settled(e) /\ lapsed

(***************************************************************************)
(* No unfinished row waits for a target that the running configuration     *)
(* does not have: no delivery would ever claim it.                         *)
(***************************************************************************)
UnfinishedRowsAreConfigured ==
  Up => \A e \in Events, t \in Targets :
          rowStatus[e][t] \in Unfinished => t \in active

(***************************************************************************)
(* Nothing reopens a closed event: no late result, no second evaluation,   *)
(* no refresh and no restart.                                              *)
(***************************************************************************)
ClosedEventsStayClosed ==
  [][\A e \in Events : eventStatus[e] \in {"sent", "cancelled"} =>
       eventStatus'[e] = eventStatus[e]]_vars

(***************************************************************************)
(* When requests do not fail after arriving, sends keep within their       *)
(* leases and the process does not crash, no target is sent anything of an *)
(* alert that it has received whole, however the alert is batched, worded  *)
(* and retried.  A part of a message arrives twice only if the row has     *)
(* been tried with another message in between, whose result replaced the   *)
(* progress: never if messages have one chunk, or if an alert is always    *)
(* sent alone and in one wording.                                          *)
(***************************************************************************)
Undisturbed == ~LostReplies /\ ~SendsOutlastLease /\ crashes = 0

OneMessageEach ==
  \/ \A v \in Versions : ChunksOf[v] = 1
  \/ /\ \A v, w \in Versions : v = w
     /\ \A G \in DcaDates : \A e, f \in G : e = f

NothingTwice ==
  [][Undisturbed =>
       \A d \in Dispatchers, t \in Targets :
         sentChunks'[d][t] = sentChunks[d][t] + 1 /\ slot[d][t] = "sending" =>
           /\ \A e \in body[d][t] : ~Received(e, t)
           /\ OneMessageEach =>
                <<Message(d, t), sentChunks'[d][t]>> \notin heard[t]]_vars

(***************************************************************************)
(* The abstract promise: a row's state without its leases and attempts.    *)
(***************************************************************************)
DueOf(status) ==
  CASE status \in Unfinished -> "owed"
    [] status = "sent" -> "told"
    [] status = "cancelled" -> "released"
    [] OTHER -> "none"

DueRows == [e \in Events |-> [t \in Targets |-> DueOf(rowStatus[e][t])]]
ReachedRows == [e \in Events |-> [t \in Targets |-> Received(e, t)]]

Promise == INSTANCE DeliveryPromise WITH due <- DueRows, reached <- ReachedRows

(* Every behaviour of the delivery code keeps that promise.                *)
KeepsPromise == Promise!Spec

(***************************************************************************)
(* Fairness.  Every await of a dispatch call ends (requests have           *)
(* timeouts), time passes, the container restarts a process that died, and *)
(* each daily job runs its retry calls.  That a target which is tried over *)
(* and over is reached in the end is an assumption on the network.         *)
(***************************************************************************)
Fairness ==
  /\ WF_vars(Tick)
  /\ WF_vars(\E A \in SUBSET Targets : Startup(A))
  /\ \A L \in RetryLists : SF_vars(\E d \in Dispatchers : CollectRetries(d, L))
  /\ \A d \in Dispatchers :
       /\ WF_vars(\E B \in SUBSET Events, v \in Versions : NextBatch(d, B, v))
       /\ WF_vars(FinishBatch(d))
       /\ \A t \in Targets :
            /\ WF_vars(Claim(d, t))
            /\ SF_vars(SendChunk(d, t))
            /\ \A e \in Events : WF_vars(Record(d, t, e))

FairSpec == Spec /\ Fairness

(***************************************************************************)
(* An alert that a retry list selects is closed in the end: every frozen   *)
(* target gets it or has left the configuration.                           *)
(***************************************************************************)
RetriedEventsSettle ==
  \A L \in RetryLists : \A e \in L :
    eventStatus[e] = "pending" ~> eventStatus[e] \in {"sent", "cancelled"}
=============================================================================
