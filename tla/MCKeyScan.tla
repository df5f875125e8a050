----------------------------- MODULE MCKeyScan ------------------------------
(* Instances of KeyScan for TLC. *)
EXTENDS KeyScan, TLC

CONSTANTS k1, k2, k3

\* Three keys are listed; a key added again comes last.
ThreeListed == (k1 :> 1) @@ (k2 :> 2) @@ (k3 :> 3)

=============================================================================
