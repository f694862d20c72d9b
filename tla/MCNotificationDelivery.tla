----------------------- MODULE MCNotificationDelivery -----------------------
(* Values of the constants of NotificationDelivery for TLC. *)
EXTENDS NotificationDelivery, TLC

CONSTANTS e1, e2, t1, t2, d1, d2, v1, v2

MCReopened      == {e1}
MCRetryEach     == {{e} : e \in Events}
MCRetryFirst    == {{e1}}
MCRetryAll      == {Events}
MCNoMerge       == {}
MCOneDate       == {Events}
MCOneChunk      == [v \in Versions |-> 1]
MCTwoChunks     == [v \in Versions |-> 2]

MCSymmetry == Permutations(Dispatchers) \cup Permutations(Targets)
=============================================================================
