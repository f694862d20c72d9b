--------------------------- MODULE DeliveryPromise ---------------------------
(***************************************************************************)
(* What notification delivery promises for each pair of an alert event and *)
(* a notification target, without leases, dispatch calls or retries: the   *)
(* audience of an event is fixed once; a pair counts as told only after    *)
(* the target has received a whole message about the event; a pair that    *)
(* was not told in time may be released, for good, when the target leaves  *)
(* the configuration.  Delivery is at least once: a target may receive the *)
(* message again.                                                          *)
(***************************************************************************)
EXTENDS Naturals

CONSTANTS Events, Targets

VARIABLES
  due,      \* due[e][t]: what is owed to target t about event e
  reached   \* reached[e][t]: t has received a whole message about e

vars == <<due, reached>>

Due == {"none", "owed", "told", "released"}

TypeOK ==
  /\ due \in [Events -> [Targets -> Due]]
  /\ reached \in [Events -> [Targets -> BOOLEAN]]

Init ==
  /\ due = [e \in Events |-> [t \in Targets |-> "none"]]
  /\ reached = [e \in Events |-> [t \in Targets |-> FALSE]]

Unaddressed(e) == \A t \in Targets : due[e][t] = "none"

(* The audience of the events E becomes the non-empty set A of targets. *)
Address(E, A) ==
  /\ A # {}
  /\ \A e \in E : Unaddressed(e)
  /\ due' = [e \in Events |-> [t \in Targets |->
               IF e \in E /\ t \in A THEN "owed" ELSE due[e][t]]]
  /\ UNCHANGED reached

(* One message about the events E arrives at t in full. *)
Reach(E, t) ==
  /\ \A e \in E : due[e][t] # "none"
  /\ reached' = [e \in Events |-> [u \in Targets |->
                   reached[e][u] \/ (e \in E /\ u = t)]]
  /\ UNCHANGED due

Tell(e, t) ==
  /\ due[e][t] = "owed"
  /\ reached[e][t]
  /\ due' = [due EXCEPT ![e][t] = "told"]
  /\ UNCHANGED reached

(* The targets R have left the configuration: what they are owed lapses. *)
Release(R) ==
  /\ due' = [e \in Events |-> [t \in Targets |->
               IF t \in R /\ due[e][t] = "owed" THEN "released" ELSE due[e][t]]]
  /\ UNCHANGED reached

Next ==
  \/ \E E \in SUBSET Events, A \in SUBSET Targets : Address(E, A)
  \/ \E E \in SUBSET Events, t \in Targets : Reach(E, t)
  \/ \E e \in Events, t \in Targets : Tell(e, t)
  \/ \E R \in SUBSET Targets : Release(R)

Spec == Init /\ [][Next]_vars
=============================================================================
