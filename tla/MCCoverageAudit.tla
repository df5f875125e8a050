-------------------------- MODULE MCCoverageAudit --------------------------
(* Instances of CoverageAudit for TLC. *)
EXTENDS CoverageAudit, TLC

CONSTANTS u1, u2, u3

\* Two accounts of the first second and one of the next.
TwoDays == [u \in Users |-> IF u = u3 THEN 1 ELSE 0]

=============================================================================
