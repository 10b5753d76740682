----------------------------- MODULE MCEventBus -----------------------------
(* Small instances of the event bus. *)
EXTENDS EventBusRefinement, TLC

CONSTANTS q1, q2, p1, p2, ros, sys

MCQueues == {q1, q2}
MCPublishers == {p1, p2}
MCChannels == {ros, sys}
Symmetry == Permutations(MCQueues) \cup Permutations(MCPublishers) \cup Permutations(MCChannels)
=============================================================================
