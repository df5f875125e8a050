--------------------------- MODULE CoverageAudit ---------------------------
(***************************************************************************)
(* The coverage ledger of the global runs and the auditor that reconciles  *)
(* it with GitHub's search.  A run owns a generation: three bitmaps of     *)
(* accounts (discovered, successful, inaccessible) and their counters.     *)
(* When the run is completed the auditor divides the time in which         *)
(* accounts were created into partitions, compares counts, splits what     *)
(* search cannot return, lists what differs, and queues the accounts the   *)
(* ledger has not settled.  A generation is final when no partition is     *)
(* left.                                                                   *)
(*                                                                         *)
(* Creation times are the seconds 0 .. Cutoff, days of DayLen seconds.     *)
(* One action is one transaction or one search request.  Claims of queue   *)
(* rows are in AccountQueue, the pages of a key scan in KeyScan: here a    *)
(* row is settled once, at any time.  Two settlements of one generation    *)
(* are ordered by its row, which both update; that two which change no bit *)
(* are not is outside this model.                                          *)
(***************************************************************************)
EXTENDS Integers, FiniteSets

CONSTANTS
  Users,        \* accounts of GitHub
  Created,      \* second in which each was created
  DayLen,       \* seconds of a day
  Cutoff,       \* last second that is audited (settled_cutoff)
  Limit,        \* results that one search can return (1000)
  SampleEvery,  \* one consistent day in so many is sampled (100)
  MaxGenerations, \* bound: generations
  MaxVanished,  \* bound: accounts that disappear
  MaxFaults     \* bound: crashes and lost writes

ASSUME ConstantsAssumption ==
  /\ IsFiniteSet(Users) /\ Created \in [Users -> Nat]
  /\ DayLen \in Nat \ {0} /\ Cutoff \in Nat /\ Limit \in Nat
  /\ SampleEvery \in Nat \ {0} /\ MaxGenerations \in Nat
  /\ MaxVanished \in Nat /\ MaxFaults \in Nat

Generations == 1 .. MaxGenerations
NoGeneration == 0

\* A partition of a generation is named by its first and last second.
Ranges == {r \in (0 .. Cutoff) \X (0 .. Cutoff) : r[1] <= r[2]}
Seconds(r) == r[1] .. r[2]
Day(s) == s \div DayLen
WholeDay(d) ==
  <<d * DayLen, IF (d + 1) * DayLen - 1 <= Cutoff THEN (d + 1) * DayLen - 1 ELSE Cutoff>>
Days == 0 .. Day(Cutoff)
LedgerDays == Days \cup {Day(Created[u]) : u \in Users}

CreatedIn(r) == {u \in Users : Created[u] \in Seconds(r)}

VARIABLES
  run,        \* generation of the running main run, or NoGeneration
  enumerated, \* the run has queued all it lists
  status,     \* coverage_generations.status; "none" before the row exists
  bits,       \* the bitmaps of a generation
  counters,   \* its counters
  dayCount,   \* coverage_day_counts
  part,       \* coverage_partitions: status and sample flag
  staged,     \* coverage_partition_ids of a partition
  settled,    \* those of them that are resolved
  queue,      \* account_queue rows with a generation
  overflow,   \* overflow_queue rows with a generation
  auditor,    \* the auditor's statement, partition, counts and listing
  listed,     \* accounts that GitHub lists
  faults      \* faults so far

vars == <<run, enumerated, status, bits, counters, dayCount, part, staged,
          settled, queue, overflow, auditor, listed, faults>>
ledger == <<bits, counters, dayCount>>
partitions == <<part, staged, settled>>

Statuses == {"none", "building", "auditing", "repairing", "count_reconciled", "unresolved"}
PartStatuses == {"none", "pending", "enumerating", "splitting", "count_consistent",
                 "repairing", "resolved", "unresolved"}
\* Seeded fault: a partition under repair does not hold up its generation.
ActiveUnclaimed == {"pending", "enumerating"}

Active == {"pending", "enumerating", "repairing"}
Final == {"count_reconciled", "unresolved"}

Bitmaps == {"discovered", "successful", "inaccessible"}

\* A row of a queue belongs to the main run of a generation or to a
\* partition that found its account missing.
NoRange == <<>>
Rows == [user : Users, source : {"global", "reconcile"},
         gen : Generations, range : Ranges \cup {NoRange}]

NoCount == -1
Idle == [phase |-> "idle", gen |-> NoGeneration, range |-> NoRange,
         local |-> NoCount, count |-> 0, found |-> {}, unresolved |-> 0]


-----------------------------------------------------------------------------
(* The ledger *)

\* Seeded fault: a mark counts the accounts it is given, not the bits it sets.
MarkAll(g, map, us) ==
  /\ bits' = [bits EXCEPT ![g][map] = @ \cup us]
  /\ counters' = [counters EXCEPT ![g][map] = @ + Cardinality(us)]
  /\ dayCount' =
       IF map # "successful" THEN dayCount
       ELSE [dayCount EXCEPT ![g] = [d \in LedgerDays |->
               @[d] + Cardinality({u \in us : Day(Created[u]) = d})]]


\* Bits that were zero are set and counted, under the lock of their chunk;
\* the successful ones are counted by day of creation too.
Mark(g, map, us) ==
  LET changed == us \ bits[g][map] IN
  /\ bits' = [bits EXCEPT ![g][map] = @ \cup us]
  /\ counters' = [counters EXCEPT ![g][map] = @ + Cardinality(changed)]
  /\ dayCount' =
       IF map # "successful" THEN dayCount
       ELSE [dayCount EXCEPT ![g] = [d \in LedgerDays |->
               @[d] + Cardinality({u \in changed : Day(Created[u]) = d})]]

\* Seeded fault: the first settled identity resolves its partition.
ResolveAtOnce(row) ==
  IF row.range = NoRange THEN UNCHANGED partitions
  ELSE /\ settled' = [settled EXCEPT ![row.gen][row.range] = @ \cup {row.user}]
       /\ part' = [part EXCEPT ![row.gen][row.range].status = "resolved"]
       /\ UNCHANGED staged

\* Seeded fault: the identity is resolved and its partition is left as it is.
ResolveIdentity(row) ==
  IF row.range = NoRange THEN UNCHANGED partitions
  ELSE /\ settled' = [settled EXCEPT ![row.gen][row.range] = @ \cup {row.user}]
       /\ UNCHANGED <<part, staged>>

\* The account of a row is settled: so is its identity in the partition that
\* queued it, and the partition with the last of them.
Resolve(row) ==
  IF row.range = NoRange THEN UNCHANGED partitions
  ELSE LET g == row.gen
           r == row.range
           done == settled[g][r] \cup ({row.user} \cap staged[g][r])
       IN /\ settled' = [settled EXCEPT ![g][r] = done]
          /\ part' = IF staged[g][r] \subseteq done
                     THEN [part EXCEPT ![g][r].status = "resolved"] ELSE part
          /\ UNCHANGED staged

-----------------------------------------------------------------------------
(* A main run and its generation *)

Init ==
  /\ run = NoGeneration /\ enumerated = FALSE
  /\ status = [g \in Generations |-> "none"]
  /\ bits = [g \in Generations |-> [m \in Bitmaps |-> {}]]
  /\ counters = [g \in Generations |-> [m \in Bitmaps \cup {"unresolved"} |-> 0]]
  /\ dayCount = [g \in Generations |-> [d \in LedgerDays |-> 0]]
  /\ part = [g \in Generations |-> [r \in Ranges |-> [status |-> "none", sample |-> FALSE]]]
  /\ staged = [g \in Generations |-> [r \in Ranges |-> {}]]
  /\ settled = [g \in Generations |-> [r \in Ranges |-> {}]]
  /\ queue = {} /\ overflow = {}
  /\ auditor = Idle /\ listed = Users /\ faults = 0

\* The monitor starts a run when none is running, with its generation.
EnsureMainRun(g) ==
  /\ run = NoGeneration /\ status[g] = "none"
  /\ \A h \in Generations : h < g => status[h] # "none"
  /\ run' = g /\ enumerated' = FALSE
  /\ status' = [status EXCEPT ![g] = "building"]
  /\ UNCHANGED <<ledger, partitions, queue, overflow, auditor, listed, faults>>

GlobalRow(g, u) == [user |-> u, source |-> "global", gen |-> g, range |-> NoRange]

\* A page of the run: its accounts are queued and marked discovered.
ApplyEnumerationShardPage(us) ==
  /\ run # NoGeneration /\ ~enumerated
  /\ us # {} /\ us \subseteq listed \ bits[run]["discovered"]
  /\ queue' = queue \cup {GlobalRow(run, u) : u \in us}
  /\ Mark(run, "discovered", us)
  /\ UNCHANGED <<run, enumerated, status, partitions, overflow, auditor, listed, faults>>

\* The last page: accounts above the cutoff of the run, or that the listing
\* did not show, are not in it.
EnumerationEnds ==
  /\ run # NoGeneration /\ ~enumerated
  /\ enumerated' = TRUE
  /\ UNCHANGED <<run, status, ledger, partitions, queue, overflow, auditor, listed, faults>>

\* The run is completed and its generation handed to the auditor.  (The three
\* statements of this decision are in AccountQueue.)
MaybeCompleteMain ==
  /\ run # NoGeneration /\ enumerated
  /\ \A row \in queue \cup overflow : row.source = "global" => row.gen # run
  /\ status' = [status EXCEPT ![run] =
                  IF counters[run]["unresolved"] > 0 THEN "unresolved" ELSE "auditing"]
  /\ run' = NoGeneration
  /\ UNCHANGED <<enumerated, ledger, partitions, queue, overflow, auditor, listed, faults>>

-----------------------------------------------------------------------------
(* Workers that settle a row *)

\* An answer with all keys.  It may be older than the account's removal.
CompleteAccount(row) ==
  /\ row \in queue
  /\ queue' = queue \ {row}
  /\ Mark(row.gen, "successful", {row.user})
  /\ Resolve(row)
  /\ UNCHANGED <<run, enumerated, status, overflow, auditor, listed, faults>>

\* An answer with more keys than a page: generation and partition go on with
\* the overflow row.
MoveToOverflow(row) ==
  /\ row \in queue
  /\ queue' = queue \ {row} /\ overflow' = overflow \cup {row}
  /\ UNCHANGED <<run, enumerated, status, ledger, partitions, auditor, listed, faults>>

CompleteInaccessible(row) ==
  /\ row \in queue /\ row.user \notin listed
  /\ queue' = queue \ {row}
  /\ Mark(row.gen, "inaccessible", {row.user})
  /\ Resolve(row)
  /\ UNCHANGED <<run, enumerated, status, overflow, auditor, listed, faults>>

\* The last page of a key scan.  The scan of an account that is gone is
\* requeued instead, which changes nothing here.
CompleteOverflow(row) ==
  /\ row \in overflow /\ row.user \in listed
  /\ overflow' = overflow \ {row}
  /\ Mark(row.gen, "successful", {row.user})
  /\ Resolve(row)
  /\ UNCHANGED <<run, enumerated, status, queue, auditor, listed, faults>>

-----------------------------------------------------------------------------
(* The auditor *)

Auditable(g) == status[g] \in {"auditing", "repairing"}

\* The oldest generation to audit gets its days (on every round).
EnsureCoveragePartitions(g) ==
  /\ auditor.phase = "idle"
  /\ Auditable(g) /\ \A h \in Generations : h < g => ~Auditable(h)
  /\ part' = [part EXCEPT ![g] = [r \in Ranges |->
                IF r \in {WholeDay(d) : d \in Days} /\ @[r].status = "none"
                THEN [status |-> "pending", sample |-> FALSE] ELSE @[r]]]
  /\ auditor' = [auditor EXCEPT !.phase = "ensured", !.gen = g]
  /\ UNCHANGED <<run, enumerated, status, ledger, staged, settled, queue,
                 overflow, listed, faults>>

\* Seeded fault: any partition is compared with the count of its day.
LocalCountOfDay(g, r) == dayCount[g][Day(r[1])]

\* The ledger's count is compared only for a whole day.
LocalCount(g, r) ==
  IF r = WholeDay(Day(r[1])) THEN dayCount[g][Day(r[1])] ELSE NoCount

\* A pending partition that is due; any may be the first that is.
ClaimCoveragePartition(r) ==
  /\ auditor.phase = "ensured"
  /\ LET g == auditor.gen IN
     /\ part[g][r].status = "pending"
     /\ part' = [part EXCEPT ![g][r].status = "enumerating"]
     /\ auditor' = [auditor EXCEPT !.phase = "claimed", !.range = r,
                                   !.local = LocalCount(g, r)]
  /\ UNCHANGED <<run, enumerated, status, ledger, staged, settled, queue,
                 overflow, listed, faults>>

\* No partition is due: the first statement of FinalizeCoverageGeneration.
CountPartitions ==
  /\ auditor.phase = "ensured"
  /\ LET of(set) == {r \in Ranges : part[auditor.gen][r].status \in set} IN
     auditor' = IF of(Active) # {} THEN Idle
                ELSE [auditor EXCEPT !.phase = "finalizing",
                        !.unresolved = Cardinality(of({"unresolved"}))]
  /\ UNCHANGED <<run, enumerated, status, ledger, partitions, queue, overflow, listed, faults>>

FinalizeCoverageGeneration ==
  /\ auditor.phase = "finalizing"
  /\ status' = [status EXCEPT ![auditor.gen] =
                  IF auditor.unresolved > 0 THEN "unresolved" ELSE "count_reconciled"]
  /\ auditor' = Idle
  /\ UNCHANGED <<run, enumerated, ledger, partitions, queue, overflow, listed, faults>>

Held == auditor.phase \in {"claimed", "counted", "listed"}

\* A search failed, or did not agree with the one before it.
RetryCoveragePartition ==
  /\ Held
  /\ part' = [part EXCEPT ![auditor.gen][auditor.range].status = "pending"]
  /\ auditor' = Idle
  /\ UNCHANGED <<run, enumerated, status, ledger, staged, settled, queue,
                 overflow, listed, faults>>

\* One consistent day in SampleEvery is enumerated for a minute, which day and
\* generation choose; here it is a second, and any.
Sampled(g, r, at) ==
  IF ~part[g][r].sample /\ ((Day(r[1]) + g) % SampleEvery) = 0 /\ at < r[2]
  THEN {<<at, at>>} ELSE {}

\* Seeded fault: a new partition has a status the schema does not know.
WithQueued(parts, ranges, sample) ==
  [r \in Ranges |-> IF r \in ranges /\ parts[r].status = "none"
                    THEN [status |-> "queued", sample |-> sample] ELSE parts[r]]

\* Rows of partitions that do not exist yet are inserted as pending.
WithPending(parts, ranges, sample) ==
  [r \in Ranges |-> IF r \in ranges /\ parts[r].status = "none"
                    THEN [status |-> "pending", sample |-> sample] ELSE parts[r]]

\* What a search for accounts created in r returns.
SearchUsers(r) == CreatedIn(r) \cap listed
SearchCount(r) == Cardinality(SearchUsers(r))

\* A complete count of at most Limit, equal to that of the ledger.
MarkCoverageCountConsistent ==
  /\ auditor.phase = "claimed"
  /\ LET g == auditor.gen
         r == auditor.range
     IN /\ SearchCount(r) <= Limit /\ auditor.local = SearchCount(r)
        /\ \E at \in Seconds(r) :
             part' = [part EXCEPT ![g] =
               WithPending([@ EXCEPT ![r].status = "count_consistent"], Sampled(g, r, at), TRUE)]
  /\ auditor' = Idle
  /\ UNCHANGED <<run, enumerated, status, ledger, staged, settled, queue,
                 overflow, listed, faults>>

\* Seeded fault: both halves hold the middle.
HalvesSharing(r) ==
  LET middle == r[1] + (r[2] - r[1]) \div 2
  IN {<<r[1], middle>>, <<middle, r[2]>>}

\* splitCoverageRange
Halves(r) ==
  LET middle == r[1] + (r[2] - r[1]) \div 2
  IN {<<r[1], middle>>, <<middle + 1, r[2]>>}

\* More than one search returns, or GitHub says that its count is incomplete.
\* A second cannot be split: the partition is given up.
SplitCoveragePartition(incomplete) ==
  /\ auditor.phase = "claimed"
  /\ LET g == auditor.gen
         r == auditor.range
     IN /\ incomplete \/ SearchCount(r) > Limit
        /\ IF r[1] = r[2]
           THEN /\ part' = [part EXCEPT ![g][r].status = "unresolved"]
                /\ counters' = [counters EXCEPT ![g]["unresolved"] = @ + 1]
           ELSE /\ part' = [part EXCEPT ![g] =
                     WithPending([@ EXCEPT ![r].status = "splitting"], Halves(r),
                                 part[g][r].sample)]
                /\ UNCHANGED counters
  /\ auditor' = Idle
  /\ UNCHANGED <<run, enumerated, status, bits, dayCount, staged, settled,
                 queue, overflow, listed, faults>>

\* The counts differ, or there is none to compare with.
CountDiffers ==
  /\ auditor.phase = "claimed"
  /\ LET count == SearchCount(auditor.range) IN
     /\ count <= Limit /\ auditor.local # count
     /\ auditor' = [auditor EXCEPT !.phase = "counted", !.count = count]
  /\ UNCHANGED <<run, enumerated, status, ledger, partitions, queue, overflow, listed, faults>>

\* All pages with the total that was counted and no account twice.
EnumerateSearchPartition ==
  /\ auditor.phase = "counted"
  /\ auditor.count = SearchCount(auditor.range)
  /\ auditor' = [auditor EXCEPT !.phase = "listed", !.found = SearchUsers(auditor.range)]
  /\ UNCHANGED <<run, enumerated, status, ledger, partitions, queue, overflow, listed, faults>>

Missing(g) == auditor.found \ bits[g]["successful"]
ReconcileRow(g, r, u) == [user |-> u, source |-> "reconcile", gen |-> g, range |-> r]

\* Sources other than the main run have one row for an account.
Inserted(g, r) ==
  {ReconcileRow(g, r, u) : u \in
     {v \in Missing(g) : \A row \in queue : row.source = "reconcile" => row.user # v}}

\* A last count that agrees: the listed identities are staged, and those the
\* generation has not settled are queued.
StageCoveragePartition ==
  /\ auditor.phase = "listed"
  /\ auditor.count = SearchCount(auditor.range)
  /\ Cardinality(auditor.found) = auditor.count
  /\ LET g == auditor.gen
         r == auditor.range
     IN /\ staged' = [staged EXCEPT ![g][r] = auditor.found]
        /\ settled' = [settled EXCEPT ![g][r] = auditor.found \ Missing(g)]
        /\ Mark(g, "discovered", auditor.found)
        /\ queue' = queue \cup Inserted(g, r)
        /\ part' = [part EXCEPT ![g][r].status =
                      IF Inserted(g, r) # {} THEN "repairing" ELSE "resolved"]
        /\ status' = IF Inserted(g, r) # {}
                     THEN [status EXCEPT ![g] = "repairing"] ELSE status
  /\ auditor' = Idle
  /\ UNCHANGED <<run, enumerated, overflow, listed, faults>>

-----------------------------------------------------------------------------
(* Faults and GitHub *)

\* The process ends, or RetryCoveragePartition fails, which is not looked at:
\* a partition that is held stays "enumerating".
Abandon ==
  /\ auditor # Idle /\ faults < MaxFaults
  /\ auditor' = Idle /\ faults' = faults + 1
  /\ UNCHANGED <<run, enumerated, status, ledger, partitions, queue, overflow, listed>>

Vanish(u) ==
  /\ u \in listed /\ Cardinality(Users \ listed) < MaxVanished
  /\ listed' = listed \ {u}
  /\ UNCHANGED <<run, enumerated, status, ledger, partitions, queue, overflow, auditor, faults>>

-----------------------------------------------------------------------------

RunStep ==
  \/ \E g \in Generations : EnsureMainRun(g)
  \/ \E us \in SUBSET Users : ApplyEnumerationShardPage(us)
  \/ EnumerationEnds
  \/ MaybeCompleteMain

WorkerStep ==
  \/ \E row \in queue : CompleteAccount(row) \/ MoveToOverflow(row) \/ CompleteInaccessible(row)
  \/ \E row \in overflow : CompleteOverflow(row)

AuditorStep ==
  \/ \E g \in Generations : EnsureCoveragePartitions(g)
  \/ \E r \in Ranges : ClaimCoveragePartition(r)
  \/ CountPartitions
  \/ FinalizeCoverageGeneration
  \/ RetryCoveragePartition
  \/ MarkCoverageCountConsistent
  \/ \E incomplete \in BOOLEAN : SplitCoveragePartition(incomplete)
  \/ CountDiffers
  \/ EnumerateSearchPartition
  \/ StageCoveragePartition

Next == RunStep \/ WorkerStep \/ AuditorStep \/ Abandon \/ \E u \in Users : Vanish(u)

Spec == Init /\ [][Next]_vars

\* An auditor or a worker goes on; a partition that is due is claimed, and
\* repeated searches are answered, completely, in the end.  Which of several
\* partitions is claimed or answered is left open.  Nothing is asked of
\* CompleteOverflow: a key scan need not end (see KeyScan).
Counted == MarkCoverageCountConsistent \/ SplitCoveragePartition(FALSE) \/ CountDiffers

Fairness ==
  /\ WF_vars(\E g \in Generations : EnsureCoveragePartitions(g))
  /\ SF_vars(\E r \in Ranges : ClaimCoveragePartition(r))
  /\ WF_vars(CountPartitions) /\ WF_vars(FinalizeCoverageGeneration)
  /\ WF_vars(RetryCoveragePartition)
  /\ SF_vars(Counted)
  /\ SF_vars(EnumerateSearchPartition) /\ SF_vars(StageCoveragePartition)
  /\ WF_vars(\E row \in queue : CompleteAccount(row) \/ CompleteInaccessible(row))

FairSpec == Spec /\ Fairness

-----------------------------------------------------------------------------
(* Properties *)

\* Shapes of all variables.
TypeOK ==
  /\ run \in Generations \cup {NoGeneration} /\ enumerated \in BOOLEAN
  /\ status \in [Generations -> Statuses]
  /\ bits \in [Generations -> [Bitmaps -> SUBSET Users]]
  /\ counters \in [Generations -> [Bitmaps \cup {"unresolved"} -> Nat]]
  /\ dayCount \in [Generations -> [LedgerDays -> Nat]]
  /\ part \in [Generations -> [Ranges -> [status : PartStatuses, sample : BOOLEAN]]]
  /\ staged \in [Generations -> [Ranges -> SUBSET Users]]
  /\ settled \in [Generations -> [Ranges -> SUBSET Users]]
  /\ queue \subseteq Rows /\ overflow \subseteq Rows
  /\ auditor \in [phase : {"idle", "ensured", "claimed", "counted", "listed", "finalizing"},
                  gen : Generations \cup {NoGeneration}, range : Ranges \cup {NoRange},
                  local : Nat \cup {NoCount}, count : Nat, found : SUBSET Users,
                  unresolved : Nat]
  /\ listed \subseteq Users /\ faults \in Nat

\* The counters of a generation are the sizes of its bitmaps, and the counts
\* by day those of its successful accounts, though an account may be settled
\* for one generation by its run, by a key scan and by a repair.
LedgerIsExact ==
  \A g \in Generations :
    /\ \A m \in Bitmaps : counters[g][m] = Cardinality(bits[g][m])
    /\ \A d \in LedgerDays :
         dayCount[g][d] = Cardinality({u \in bits[g]["successful"] : Day(Created[u]) = d})

Leaves(g) == {r \in Ranges : part[g][r].status \notin {"none", "splitting"} /\ ~part[g][r].sample}

\* Once the days of a generation exist, each second is in exactly one
\* partition that is not split (samples apart), over any splits, retries and
\* crashes.
PartitionsTile ==
  \A g \in Generations :
    Leaves(g) # {} => \A s \in 0 .. Cutoff : Cardinality({r \in Leaves(g) : s \in Seconds(r)}) = 1

RowsOf(g, r) == {row \in queue \cup overflow : row.gen = g /\ row.range = r}

\* The identities of a partition that are not settled are exactly those that a
\* row will settle; a partition is repairing as long as there are any, and
\* what is settled has its bit in the ledger.
RepairsAreTracked ==
  \A g \in Generations, r \in Ranges :
    /\ {row.user : row \in RowsOf(g, r)} = staged[g][r] \ settled[g][r]
    /\ (part[g][r].status = "repairing") <=> (RowsOf(g, r) # {})
    /\ settled[g][r] \subseteq bits[g]["successful"] \cup bits[g]["inaccessible"]

\* When a generation is reconciled, every account that search still lists is
\* discovered and settled in it, except in days whose counts agreed: of those
\* the ledger holds at least as many settled accounts as search lists, whatever
\* was settled, split or removed since.
ReconciledMeansAudited ==
  \A g \in Generations : status[g] = "count_reconciled" =>
    /\ \A u \in listed : Created[u] <= Cutoff =>
         \/ u \in bits[g]["discovered"] \cap bits[g]["successful"]
         \/ part[g][WholeDay(Day(Created[u]))].status = "count_consistent"
    /\ \A d \in Days : part[g][WholeDay(d)].status = "count_consistent" =>
         SearchCount(WholeDay(d)) <= Cardinality({u \in bits[g]["successful"] : Day(Created[u]) = d})

\* A generation that is final stays so, and has no partition, row or scan
\* that could still change it.
FinalIsFinal ==
  [][\A g \in Generations : status[g] \in Final =>
       /\ status'[g] = status[g]
       /\ bits'[g] = bits[g] /\ part'[g] = part[g]]_vars

\* A partition that was claimed and is no auditor's.
Abandoned(g) ==
  \E r \in Ranges :
    part[g][r].status = "enumerating" /\ ~(Held /\ auditor.gen = g /\ auditor.range = r)

\* A repair that goes on as a key scan.
ScanOpen(g) == \E row \in overflow : row.source = "reconcile" /\ row.gen = g

\* Every audit ends: one that is going on for ever has from some time on always
\* a partition that a crash left claimed (Recover does not return it), or a key
\* scan of a repair that goes on (the account is gone, or its pages do not fit
\* their counts), in its own generation or in one before it.
EveryAuditEnds ==
  \A g \in Generations : <>[]Auditable(g) =>
    \/ <>[](\E h \in 1 .. g : Abandoned(h))
    \/ <>[](\E h \in 1 .. g : ScanOpen(h))

=============================================================================
