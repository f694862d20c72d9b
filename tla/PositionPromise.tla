--------------------------- MODULE PositionPromise ---------------------------
(***************************************************************************)
(* What the tracked position of a fund promises, without drafts, buttons,  *)
(* sync marks and NAV jobs: a contribution is resolved once; a copy of the *)
(* platform resolves exactly the waiting contributions it contains; and an *)
(* estimate is put on top of a copy only if nothing that cannot be         *)
(* estimated is missing and the copy lacks it.  The last is promised for   *)
(* what is known when the copy is adopted, or settles afterwards: what     *)
(* becomes known later although the copy holds it may be counted again.    *)
(***************************************************************************)
CONSTANTS
  Items,
  Unestimated   \* those whose units only a copy of the platform tells

VARIABLES
  fate,   \* of each contribution: unknown, waiting, counted or skipped
  copy,   \* what the copy that the position is based on contains
  onTop,  \* the estimates added since
  late    \* what became known since although the copy held it

vars == <<fate, copy, onTop, late>>

Init ==
  /\ fate = [i \in Items |-> "unknown"]
  /\ copy = {}
  /\ onTop = {}
  /\ late = {}

Waiting == {i \in Items : fate[i] = "waiting"}

(* A contribution becomes known.  It is to be counted, or it never         *)
(* happened, or the position contains it already.                          *)
Learn(i) ==
  /\ fate[i] = "unknown"
  /\ \E f \in {"waiting", "counted", "skipped"} :
       /\ f = "counted" => i \in copy
       /\ fate' = [fate EXCEPT ![i] = f]
  /\ late' = late \cup ({i} \cap copy)
  /\ UNCHANGED <<copy, onTop>>

(* It turns out not to have happened. *)
Skip(i) ==
  /\ i \in Waiting
  /\ fate' = [fate EXCEPT ![i] = "skipped"]
  /\ UNCHANGED <<copy, onTop, late>>

(* Its estimate is put on top of a copy that lacks nothing which only      *)
(* another copy would tell, and that lacks it as far as was known.         *)
Estimate(i) ==
  /\ i \in Waiting \ ((copy \ late) \cup onTop)
  /\ Waiting \cap Unestimated = {}
  /\ i \notin Unestimated
  /\ fate' = [fate EXCEPT ![i] = "counted"]
  /\ onTop' = onTop \cup {i}
  /\ UNCHANGED <<copy, late>>

(* The position is replaced by a copy of the platform, which counts those  *)
(* waiting that it contains.                                               *)
Adopt ==
  /\ onTop' = {}
  /\ late' = {}
  /\ copy' \in SUBSET Items
  /\ fate' = [i \in Items |->
       IF fate[i] = "waiting" /\ i \in copy' THEN "counted" ELSE fate[i]]

Next ==
  \/ Adopt
  \/ \E i \in Items : Learn(i) \/ Skip(i) \/ Estimate(i)

Spec == Init /\ [][Next]_vars
=============================================================================
