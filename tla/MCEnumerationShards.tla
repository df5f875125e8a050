------------------------ MODULE MCEnumerationShards -------------------------
(* Instances of EnumerationShards for TLC. *)
EXTENDS EnumerationShards, TLC

\* The workers are interchangeable.
Symmetry == Permutations(EnumWorkers)

\* Listings with gaps (identities the listing does not return), organizations
\* among the objects, users on a shard's boundary and above the cutoff.
ShortListing == {1, 2, 4, 5, 6, 7}
ShortUsers == {1, 2, 4, 6, 7}
LongListing == {1, 2, 4, 5, 6, 8, 11, 12}
LongUsers == {1, 2, 4, 6, 8, 11, 12}

\* Repair ranges: both across primary shards, one in two pieces.
TwoRepairs == {<<0, 3, 1>>, <<1, 5, 2>>}
NoRepair == {}

=============================================================================
