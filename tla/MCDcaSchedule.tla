---------------------------- MODULE MCDcaSchedule ----------------------------
(* Values of the constants of DcaSchedule for TLC. *)
EXTENDS DcaSchedule

CONSTANT f

MCDue == [r \in Rules |-> {2}]
=============================================================================
