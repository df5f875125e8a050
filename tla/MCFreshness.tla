---------------------------- MODULE MCFreshness -----------------------------
(* Instances of Freshness for TLC. *)
EXTENDS Freshness

\* Two users with a key, and an organization between them.
TwoOwners == <<"key", "zero", "key">>

=============================================================================
