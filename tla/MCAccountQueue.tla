--------------------------- MODULE MCAccountQueue ---------------------------
(* Instances of AccountQueue for TLC. *)
EXTENDS AccountQueue, TLC

\* Accounts, workers of a kind and tokens are interchangeable.
Symmetry == Permutations(Accounts) \cup Permutations(Tokens)
              \cup Permutations(KeyWorkers)

=============================================================================
