----------------------------- MODULE MCRequests -----------------------------
(* Instances of Requests for TLC. *)
EXTENDS Requests

CONSTANTS w1, w2

\* Each pinned worker has the first lane.
FirstLane == [w \in Pinned |-> 1]

=============================================================================
