------------------------ MODULE CoverageAuditProofs ------------------------
(* Theorems about CoverageAudit. *)
EXTENDS CoverageAudit, FiniteSetTheorems, TLAPS

USE ConstantsAssumption

Counters == Bitmaps \cup {"unresolved"}
Partitions == [status : PartStatuses, sample : BOOLEAN]
Auditors == [phase : {"idle", "ensured", "claimed", "counted", "listed", "finalizing"},
             gen : Generations \cup {NoGeneration}, range : Ranges \cup {NoRange},
             local : Nat \cup {NoCount}, count : Nat, found : SUBSET Users,
             unresolved : Nat]

\* What TypeOK needs to be kept: the auditor works on a generation and holds a
\* partition of it.
AuditorInv ==
  /\ auditor.phase # "idle" => auditor.gen \in Generations
  /\ Held => auditor.range \in Ranges

TypeInv == TypeOK /\ AuditorInv

\* The three parts of the state that most steps leave alone.
LedgerType ==
  /\ bits \in [Generations -> [Bitmaps -> SUBSET Users]]
  /\ counters \in [Generations -> [Counters -> Nat]]
  /\ dayCount \in [Generations -> [LedgerDays -> Nat]]
PartType ==
  /\ part \in [Generations -> [Ranges -> Partitions]]
  /\ staged \in [Generations -> [Ranges -> SUBSET Users]]
  /\ settled \in [Generations -> [Ranges -> SUBSET Users]]
RestType ==
  /\ run \in Generations \cup {NoGeneration} /\ enumerated \in BOOLEAN
  /\ status \in [Generations -> Statuses]
  /\ queue \subseteq Rows /\ overflow \subseteq Rows
  /\ listed \subseteq Users /\ faults \in Nat
AuditorType == auditor \in Auditors /\ AuditorInv

\* Together they are the types.
LEMMA Parts == TypeInv <=> LedgerType /\ PartType /\ RestType /\ AuditorType
BY DEF TypeInv, TypeOK, LedgerType, PartType, RestType, AuditorType, Counters,
       Partitions, Auditors

-----------------------------------------------------------------------------
(* Sizes *)

\* A set of accounts is finite.
LEMMA UsersFinite ==
  ASSUME NEW us \in SUBSET Users
  PROVE  IsFiniteSet(us) /\ Cardinality(us) \in Nat
BY FS_Subset, FS_CardinalityType

\* What is new in a set is what it adds to the size of another.
LEMMA AddedSize ==
  ASSUME NEW a \in SUBSET Users, NEW us \in SUBSET Users
  PROVE  Cardinality(a \cup us) = Cardinality(a) + Cardinality(us \ a)
<1>1. IsFiniteSet(a) /\ IsFiniteSet(us \ a) /\ Cardinality(a) \in Nat /\ Cardinality(us \ a) \in Nat
  BY UsersFinite
<1>2. a \cup us = a \cup (us \ a) /\ a \cap (us \ a) = {}
  OBVIOUS
<1>3. Cardinality(a \cup (us \ a)) = Cardinality(a) + Cardinality(us \ a) - Cardinality(a \cap (us \ a))
  BY <1>1, FS_Union
<1>4. Cardinality(a \cap (us \ a)) = 0
  BY <1>2, FS_EmptySet
<1>5. Cardinality(a \cup us) = Cardinality(a \cup (us \ a))
  BY <1>2
<1> HIDE DEF Cardinality
<1> QED BY ONLY <1>1, <1>3, <1>4, <1>5

\* A search returns a number of accounts.
LEMMA SearchType == \A r : SearchUsers(r) \in SUBSET Users /\ SearchCount(r) \in Nat
BY UsersFinite DEF SearchUsers, SearchCount, CreatedIn

\* A day that a partition lies in is one that the ledger counts.
LEMMA DayCounted ==
  ASSUME NEW s \in 0 .. Cutoff
  PROVE  Day(s) \in LedgerDays
<1>1. DayLen \in Nat /\ DayLen > 0 /\ s \in Nat /\ s <= Cutoff /\ Cutoff \in Nat
  OBVIOUS
<1>2. s \div DayLen \in Nat /\ Cutoff \div DayLen \in Nat
  BY <1>1
<1>3. s \div DayLen <= Cutoff \div DayLen
  BY <1>1, <1>2
<1> QED BY <1>2, <1>3 DEF Day, Days, LedgerDays

\* Identifiers of a row.
LEMMA RowType ==
  ASSUME NEW row \in Rows
  PROVE  row.user \in Users /\ row.gen \in Generations
         /\ (row.range # NoRange => row.range \in Ranges)
BY DEF Rows

-----------------------------------------------------------------------------
(* Types *)

\* Marks keep the types of the ledger.
LEMMA MarkTyped ==
  ASSUME LedgerType, NEW g \in Generations, NEW map \in Bitmaps, NEW us \in SUBSET Users,
         Mark(g, map, us)
  PROVE  LedgerType'
<1> DEFINE changed == us \ bits[g][map]
           byDay == [d \in LedgerDays |->
                       dayCount[g][d] + Cardinality({u \in changed : Day(Created[u]) = d})]
<1>1. bits[g][map] \in SUBSET Users /\ changed \in SUBSET Users
  BY DEF LedgerType
<1>2. Cardinality(changed) \in Nat
  BY <1>1, UsersFinite
<1>3. bits' \in [Generations -> [Bitmaps -> SUBSET Users]]
  BY DEF LedgerType, Mark
<1>4. counters' \in [Generations -> [Counters -> Nat]]
  <2>1. counters[g][map] + Cardinality(changed) \in Nat
    BY <1>2 DEF LedgerType, Counters
  <2>2. counters' = [counters EXCEPT ![g][map] = counters[g][map] + Cardinality(changed)]
    BY DEF Mark
  <2> HIDE DEF changed
  <2> QED BY <2>1, <2>2 DEF LedgerType
<1>5. dayCount' \in [Generations -> [LedgerDays -> Nat]]
  <2>1. ASSUME NEW d \in LedgerDays
        PROVE  dayCount[g][d] + Cardinality({u \in changed : Day(Created[u]) = d}) \in Nat
    <3>1. Cardinality({u \in changed : Day(Created[u]) = d}) \in Nat
      BY <1>1, UsersFinite
    <3> QED BY <3>1 DEF LedgerType
  <2>2. byDay \in [LedgerDays -> Nat]
    BY <2>1
  <2>3. dayCount' = dayCount \/ dayCount' = [dayCount EXCEPT ![g] = byDay]
    BY DEF Mark
  <2> HIDE DEF byDay
  <2> QED BY <2>2, <2>3 DEF LedgerType
<1> QED BY <1>3, <1>4, <1>5 DEF LedgerType

\* A partition in another status.
InStatus(p, s) == [p EXCEPT !.status = s]

\* It is one, and so are the partitions with it.
LEMMA StatusTyped ==
  ASSUME PartType, NEW g \in Generations, NEW r \in Ranges, NEW s \in PartStatuses
  PROVE  /\ InStatus(part[g][r], s) \in Partitions
         /\ [part EXCEPT ![g][r].status = s] \in [Generations -> [Ranges -> Partitions]]
<1>1. part[g] \in [Ranges -> Partitions] /\ part[g][r] \in Partitions
  BY DEF PartType
<1>2. InStatus(part[g][r], s) \in Partitions
  BY <1>1 DEF InStatus, Partitions
<1>3. [part[g] EXCEPT ![r] = InStatus(part[g][r], s)] \in [Ranges -> Partitions]
  BY <1>1, <1>2
<1>4. [part EXCEPT ![g][r].status = s]
        = [part EXCEPT ![g] = [part[g] EXCEPT ![r] = InStatus(part[g][r], s)]]
  BY DEF InStatus
<1>5. [part EXCEPT ![g] = [part[g] EXCEPT ![r] = InStatus(part[g][r], s)]]
        \in [Generations -> [Ranges -> Partitions]]
  BY <1>3 DEF PartType
<1> QED BY <1>2, <1>4, <1>5

\* A settled row keeps the types of the partitions.
LEMMA ResolveTyped ==
  ASSUME PartType, NEW row \in Rows, Resolve(row)
  PROVE  PartType'
<1>1. CASE row.range = NoRange
  BY <1>1 DEF Resolve, PartType, partitions
<1>2. CASE row.range # NoRange
  <2> DEFINE g == row.gen
             r == row.range
             done == settled[g][r] \cup ({row.user} \cap staged[g][r])
  <2>1. g \in Generations /\ r \in Ranges /\ row.user \in Users
    BY <1>2, RowType
  <2>2. done \in SUBSET Users
    BY <2>1 DEF PartType
  <2>3. settled' = [settled EXCEPT ![g][r] = done] /\ staged' = staged
        /\ (part' = part \/ part' = [part EXCEPT ![g][r].status = "resolved"])
    BY <1>2 DEF Resolve
  <2> HIDE DEF done, g, r
  <2>4. "resolved" \in PartStatuses
    BY DEF PartStatuses
  <2>5. settled' \in [Generations -> [Ranges -> SUBSET Users]]
    BY <2>1, <2>2, <2>3 DEF PartType
  <2>6. part' \in [Generations -> [Ranges -> Partitions]]
    <3>1. [part EXCEPT ![g][r].status = "resolved"] \in [Generations -> [Ranges -> Partitions]]
      BY <2>1, <2>4, StatusTyped
    <3> QED BY <2>3, <3>1 DEF PartType
  <2> QED BY <2>3, <2>5, <2>6 DEF PartType
<1> QED BY <1>1, <1>2

\* Ranges are finitely many.
LEMMA RangesFinite ==
  ASSUME NEW rs \in SUBSET Ranges
  PROVE  Cardinality(rs) \in Nat
<1>1. IsFiniteSet((0 .. Cutoff) \X (0 .. Cutoff))
  <2>1. IsFiniteSet(0 .. Cutoff)
    BY FS_Interval
  <2> QED BY <2>1, FS_Product
<1>2. rs \subseteq (0 .. Cutoff) \X (0 .. Cutoff)
  BY DEF Ranges
<1> QED BY <1>1, <1>2, FS_Subset, FS_CardinalityType

\* Partitions that are queued are partitions.
LEMMA PendingTyped ==
  ASSUME NEW parts \in [Ranges -> Partitions], NEW ranges, NEW sample \in BOOLEAN
  PROVE  WithPending(parts, ranges, sample) \in [Ranges -> Partitions]
BY DEF WithPending, Partitions, PartStatuses

\* A partition in another status, and new ones.
LEMMA StatusAndPendingTyped ==
  ASSUME PartType, NEW g \in Generations, NEW r \in Ranges, NEW s \in PartStatuses,
         NEW ranges, NEW sample \in BOOLEAN
  PROVE  [part EXCEPT ![g] = WithPending([part[g] EXCEPT ![r].status = s], ranges, sample)]
           \in [Generations -> [Ranges -> Partitions]]
<1>1. part[g] \in [Ranges -> Partitions]
  BY DEF PartType
<1>2. InStatus(part[g][r], s) \in Partitions
  BY StatusTyped
<1>3. [part[g] EXCEPT ![r].status = s] = [part[g] EXCEPT ![r] = InStatus(part[g][r], s)]
  BY DEF InStatus
<1>4. [part[g] EXCEPT ![r].status = s] \in [Ranges -> Partitions]
  BY <1>1, <1>2, <1>3
<1>5. WithPending([part[g] EXCEPT ![r].status = s], ranges, sample) \in [Ranges -> Partitions]
  BY <1>4, PendingTyped
<1> QED BY <1>5 DEF PartType

\* An auditor that goes on.
LEMMA AuditorTyped ==
  ASSUME AuditorType, auditor.phase # "idle"
  PROVE  auditor.gen \in Generations /\ auditor.found \in SUBSET Users /\ auditor.local \in Nat \cup {NoCount}
         /\ (Held => auditor.range \in Ranges)
BY DEF AuditorType, AuditorInv, Auditors

\* One that is idle.
LEMMA IdleTyped == auditor' = Idle => AuditorType'
BY DEF AuditorType, AuditorInv, Auditors, Idle, Held, NoGeneration, NoRange, NoCount

\* The steps of a run keep the types.
LEMMA RunTyped ==
  ASSUME LedgerType, PartType, RestType, AuditorType, RunStep
  PROVE  LedgerType' /\ PartType' /\ RestType' /\ AuditorType'
<1>1. ASSUME NEW g \in Generations, EnsureMainRun(g)
      PROVE  LedgerType' /\ PartType' /\ RestType' /\ AuditorType'
  BY <1>1 DEF EnsureMainRun, LedgerType, PartType, RestType, AuditorType, AuditorInv, Held,
              ledger, partitions, Statuses
<1>2. ASSUME NEW us \in SUBSET Users, ApplyEnumerationShardPage(us)
      PROVE  LedgerType' /\ PartType' /\ RestType' /\ AuditorType'
  <2>1. run \in Generations
    BY <1>2 DEF ApplyEnumerationShardPage, RestType
  <2>2. LedgerType'
    BY <1>2, <2>1, MarkTyped DEF ApplyEnumerationShardPage, Bitmaps
  <2>3. {GlobalRow(run, u) : u \in us} \subseteq Rows
    BY <2>1 DEF GlobalRow, Rows
  <2>4. RestType'
    BY <1>2, <2>3 DEF ApplyEnumerationShardPage, RestType
  <2>5. PartType' /\ AuditorType'
    BY <1>2 DEF ApplyEnumerationShardPage, PartType, AuditorType, AuditorInv, Held, partitions
  <2> QED BY <2>2, <2>4, <2>5
<1>3. ASSUME EnumerationEnds
      PROVE  LedgerType' /\ PartType' /\ RestType' /\ AuditorType'
  BY <1>3 DEF EnumerationEnds, LedgerType, PartType, RestType, AuditorType, AuditorInv, Held,
              ledger, partitions
<1>4. ASSUME MaybeCompleteMain
      PROVE  LedgerType' /\ PartType' /\ RestType' /\ AuditorType'
  BY <1>4 DEF MaybeCompleteMain, LedgerType, PartType, RestType, AuditorType, AuditorInv, Held,
              ledger, partitions, Statuses
<1> QED BY <1>1, <1>2, <1>3, <1>4 DEF RunStep

\* So do those of the workers.
LEMMA WorkerTyped ==
  ASSUME LedgerType, PartType, RestType, AuditorType, WorkerStep
  PROVE  LedgerType' /\ PartType' /\ RestType' /\ AuditorType'
<1>1. ASSUME NEW row \in queue \cup overflow
      PROVE  row \in Rows /\ row.user \in Users /\ row.gen \in Generations
  BY <1>1, RowType DEF RestType
<1>2. ASSUME NEW row \in queue \cup overflow, NEW map \in Bitmaps,
             Mark(row.gen, map, {row.user}), Resolve(row)
      PROVE  LedgerType' /\ PartType'
  BY <1>1, <1>2, MarkTyped, ResolveTyped
<1>3. ASSUME NEW row \in queue, CompleteAccount(row)
      PROVE  LedgerType' /\ PartType' /\ RestType' /\ AuditorType'
  BY <1>2, <1>3 DEF CompleteAccount, RestType, AuditorType, AuditorInv, Held, Bitmaps
<1>4. ASSUME NEW row \in queue, MoveToOverflow(row)
      PROVE  LedgerType' /\ PartType' /\ RestType' /\ AuditorType'
  BY <1>1, <1>4 DEF MoveToOverflow, LedgerType, PartType, RestType, AuditorType, AuditorInv, Held,
                    ledger, partitions
<1>5. ASSUME NEW row \in queue, CompleteInaccessible(row)
      PROVE  LedgerType' /\ PartType' /\ RestType' /\ AuditorType'
  BY <1>2, <1>5 DEF CompleteInaccessible, RestType, AuditorType, AuditorInv, Held, Bitmaps
<1>6. ASSUME NEW row \in overflow, CompleteOverflow(row)
      PROVE  LedgerType' /\ PartType' /\ RestType' /\ AuditorType'
  BY <1>2, <1>6 DEF CompleteOverflow, RestType, AuditorType, AuditorInv, Held, Bitmaps
<1> QED BY <1>3, <1>4, <1>5, <1>6 DEF WorkerStep

\* So do those of the auditor.
LEMMA AuditTyped ==
  ASSUME LedgerType, PartType, RestType, AuditorType, AuditorStep
  PROVE  LedgerType' /\ PartType' /\ RestType' /\ AuditorType'
<1>1. ASSUME NEW g \in Generations, EnsureCoveragePartitions(g)
      PROVE  LedgerType' /\ PartType' /\ RestType' /\ AuditorType'
  <2>1. [r \in Ranges |-> IF r \in {WholeDay(d) : d \in Days} /\ part[g][r].status = "none"
                          THEN [status |-> "pending", sample |-> FALSE] ELSE part[g][r]]
          \in [Ranges -> Partitions]
    BY DEF PartType, Partitions, PartStatuses
  <2>2. PartType'
    BY <1>1, <2>1 DEF EnsureCoveragePartitions, PartType
  <2>3. LedgerType' /\ RestType'
    BY <1>1 DEF EnsureCoveragePartitions, LedgerType, RestType, ledger
  <2>4. AuditorType'
    BY <1>1 DEF EnsureCoveragePartitions, AuditorType, AuditorInv, Auditors, Held
  <2> QED BY <2>2, <2>3, <2>4
<1>2. ASSUME NEW r \in Ranges, ClaimCoveragePartition(r)
      PROVE  LedgerType' /\ PartType' /\ RestType' /\ AuditorType'
  <2>1. auditor.gen \in Generations
    BY <1>2, AuditorTyped DEF ClaimCoveragePartition
  <2>2. PartType'
    BY <1>2, <2>1, StatusTyped DEF ClaimCoveragePartition, PartType, PartStatuses
  <2>3. LedgerType' /\ RestType'
    BY <1>2 DEF ClaimCoveragePartition, LedgerType, RestType, ledger
  <2>4. LocalCount(auditor.gen, r) \in Nat \cup {NoCount}
    <3>1. r[1] \in 0 .. Cutoff
      BY DEF Ranges
    <3>2. Day(r[1]) \in LedgerDays
      BY <3>1, DayCounted
    <3> QED BY <2>1, <3>2 DEF LocalCount, LedgerType
  <2>5. AuditorType'
    BY <1>2, <2>1, <2>4 DEF ClaimCoveragePartition, AuditorType, AuditorInv, Auditors, Held
  <2> QED BY <2>2, <2>3, <2>5
<1>3. ASSUME CountPartitions
      PROVE  LedgerType' /\ PartType' /\ RestType' /\ AuditorType'
  <2> DEFINE of(set) == {r \in Ranges : part[auditor.gen][r].status \in set}
  <2>1. LedgerType' /\ PartType' /\ RestType'
    BY <1>3 DEF CountPartitions, LedgerType, PartType, RestType, ledger, partitions
  <2>2. Cardinality(of({"unresolved"})) \in Nat
    BY RangesFinite
  <2>3. \/ auditor' = Idle
        \/ auditor' = [auditor EXCEPT !.phase = "finalizing",
                                      !.unresolved = Cardinality(of({"unresolved"}))]
    BY <1>3 DEF CountPartitions
  <2>4. auditor.gen \in Generations
    BY <1>3, AuditorTyped DEF CountPartitions
  <2> HIDE DEF of
  <2>5. AuditorType'
    BY <2>2, <2>3, <2>4, IdleTyped DEF AuditorType, AuditorInv, Auditors, Held
  <2> QED BY <2>1, <2>5
<1>4. ASSUME FinalizeCoverageGeneration
      PROVE  LedgerType' /\ PartType' /\ RestType' /\ AuditorType'
  BY <1>4, IdleTyped DEF FinalizeCoverageGeneration, LedgerType, PartType, RestType, ledger,
                         partitions, Statuses
<1>5. Held => auditor.gen \in Generations /\ auditor.range \in Ranges /\ auditor.found \in SUBSET Users
  BY AuditorTyped DEF Held
<1>6. ASSUME RetryCoveragePartition
      PROVE  LedgerType' /\ PartType' /\ RestType' /\ AuditorType'
  <2>1. PartType'
    BY <1>5, <1>6, StatusTyped DEF RetryCoveragePartition, PartType, PartStatuses
  <2> QED BY <1>6, <2>1, IdleTyped DEF RetryCoveragePartition, LedgerType, RestType, ledger
<1>7. ASSUME MarkCoverageCountConsistent
      PROVE  LedgerType' /\ PartType' /\ RestType' /\ AuditorType'
  <2>1. Held
    BY <1>7 DEF MarkCoverageCountConsistent, Held
  <2>2. "count_consistent" \in PartStatuses
    BY DEF PartStatuses
  <2>3. PICK at : part' = [part EXCEPT ![auditor.gen] =
               WithPending([part[auditor.gen] EXCEPT ![auditor.range].status = "count_consistent"],
                           Sampled(auditor.gen, auditor.range, at), TRUE)]
    BY <1>7 DEF MarkCoverageCountConsistent
  <2>4. part' \in [Generations -> [Ranges -> Partitions]]
    BY <1>5, <2>1, <2>2, <2>3, StatusAndPendingTyped
  <2> QED BY <1>7, <2>4, IdleTyped DEF MarkCoverageCountConsistent, LedgerType, PartType, RestType, ledger
<1>8. ASSUME NEW incomplete \in BOOLEAN, SplitCoveragePartition(incomplete)
      PROVE  LedgerType' /\ PartType' /\ RestType' /\ AuditorType'
  <2> DEFINE g == auditor.gen
             r == auditor.range
  <2>1. g \in Generations /\ r \in Ranges
    BY <1>5, <1>8 DEF SplitCoveragePartition, Held
  <2>2. "unresolved" \in PartStatuses /\ "splitting" \in PartStatuses /\ part[g][r].sample \in BOOLEAN
    BY <2>1 DEF PartStatuses, PartType, Partitions
  <2>3. \/ /\ part' = [part EXCEPT ![g][r].status = "unresolved"]
           /\ counters' = [counters EXCEPT ![g]["unresolved"] = counters[g]["unresolved"] + 1]
        \/ /\ part' = [part EXCEPT ![g] =
                 WithPending([part[g] EXCEPT ![r].status = "splitting"], Halves(r), part[g][r].sample)]
           /\ counters' = counters
    BY <1>8 DEF SplitCoveragePartition
  <2> HIDE DEF g, r
  <2>4. part' \in [Generations -> [Ranges -> Partitions]]
    <3>1. [part EXCEPT ![g][r].status = "unresolved"] \in [Generations -> [Ranges -> Partitions]]
      BY <2>1, <2>2, StatusTyped
    <3>2. [part EXCEPT ![g] =
             WithPending([part[g] EXCEPT ![r].status = "splitting"], Halves(r), part[g][r].sample)]
            \in [Generations -> [Ranges -> Partitions]]
      BY <2>1, <2>2, StatusAndPendingTyped
    <3> QED BY <2>3, <3>1, <3>2
  <2>5. counters' \in [Generations -> [Counters -> Nat]]
    <3>1. counters[g] \in [Counters -> Nat] /\ "unresolved" \in Counters
      BY <2>1 DEF LedgerType, Counters
    <3>2. [counters EXCEPT ![g]["unresolved"] = counters[g]["unresolved"] + 1]
            \in [Generations -> [Counters -> Nat]]
      BY <2>1, <3>1 DEF LedgerType
    <3>3. counters \in [Generations -> [Counters -> Nat]]
      BY DEF LedgerType
    <3> QED BY <2>3, <3>2, <3>3
  <2> QED BY <1>8, <2>4, <2>5, IdleTyped DEF SplitCoveragePartition, LedgerType, PartType, RestType
<1>9. ASSUME CountDiffers
      PROVE  LedgerType' /\ PartType' /\ RestType' /\ AuditorType'
  <2>1. auditor' = [auditor EXCEPT !.phase = "counted", !.count = SearchCount(auditor.range)]
    BY <1>9 DEF CountDiffers
  <2>2. auditor.gen \in Generations /\ auditor.range \in Ranges
    BY <1>5, <1>9 DEF CountDiffers, Held
  <2>3. SearchCount(auditor.range) \in Nat
    BY SearchType
  <2>4. AuditorType'
    BY <2>1, <2>2, <2>3 DEF AuditorType, AuditorInv, Auditors, Held
  <2> QED BY <1>9, <2>4 DEF CountDiffers, LedgerType, PartType, RestType, ledger, partitions
<1>10. ASSUME EnumerateSearchPartition
       PROVE  LedgerType' /\ PartType' /\ RestType' /\ AuditorType'
  <2>1. auditor' = [auditor EXCEPT !.phase = "listed", !.found = SearchUsers(auditor.range)]
    BY <1>10 DEF EnumerateSearchPartition
  <2>2. auditor.gen \in Generations /\ auditor.range \in Ranges
    BY <1>5, <1>10 DEF EnumerateSearchPartition, Held
  <2>3. SearchUsers(auditor.range) \in SUBSET Users
    BY SearchType
  <2>4. AuditorType'
    BY <2>1, <2>2, <2>3 DEF AuditorType, AuditorInv, Auditors, Held
  <2> QED BY <1>10, <2>4 DEF EnumerateSearchPartition, LedgerType, PartType, RestType, ledger, partitions
<1>11. ASSUME StageCoveragePartition
       PROVE  LedgerType' /\ PartType' /\ RestType' /\ AuditorType'
  <2> DEFINE g == auditor.gen
             r == auditor.range
             s == IF Inserted(g, r) # {} THEN "repairing" ELSE "resolved"
  <2>1. g \in Generations /\ r \in Ranges /\ auditor.found \in SUBSET Users
    BY <1>5, <1>11 DEF StageCoveragePartition, Held
  <2>2. LedgerType'
    BY <1>11, <2>1, MarkTyped DEF StageCoveragePartition, Bitmaps
  <2>3. Inserted(g, r) \subseteq Rows
    BY <2>1 DEF Inserted, Missing, ReconcileRow, Rows
  <2>4. RestType'
    BY <1>11, <2>3 DEF StageCoveragePartition, RestType, Statuses
  <2>5. s \in PartStatuses
    BY DEF PartStatuses
  <2>6. /\ part' = [part EXCEPT ![g][r].status = s]
        /\ staged' = [staged EXCEPT ![g][r] = auditor.found]
        /\ settled' = [settled EXCEPT ![g][r] = auditor.found \ Missing(g)]
    BY <1>11 DEF StageCoveragePartition
  <2> HIDE DEF g, r, s
  <2>7. part' \in [Generations -> [Ranges -> Partitions]]
    <3>1. [part EXCEPT ![g][r].status = s] \in [Generations -> [Ranges -> Partitions]]
      BY <2>1, <2>5, StatusTyped
    <3> QED BY <2>6, <3>1
  <2>8. PartType'
    BY <2>1, <2>6, <2>7 DEF PartType
  <2>9. AuditorType'
    BY <1>11, IdleTyped DEF StageCoveragePartition
  <2> QED BY <2>2, <2>4, <2>8, <2>9
<1> QED BY <1>1, <1>2, <1>3, <1>4, <1>6, <1>7, <1>8, <1>9, <1>10, <1>11 DEF AuditorStep

\* Every step keeps the types.
LEMMA TypeStep == TypeInv /\ [Next]_vars => TypeInv'
<1> SUFFICES ASSUME LedgerType, PartType, RestType, AuditorType, [Next]_vars
             PROVE  LedgerType' /\ PartType' /\ RestType' /\ AuditorType'
  <2>1. TypeInv' <=> LedgerType' /\ PartType' /\ RestType' /\ AuditorType'
    BY DEF TypeInv, TypeOK, LedgerType, PartType, RestType, AuditorType, Counters,
           Partitions, Auditors
  <2> QED BY <2>1, Parts
<1>1. ASSUME Abandon PROVE LedgerType' /\ PartType' /\ RestType' /\ AuditorType'
  BY <1>1, IdleTyped DEF Abandon, LedgerType, PartType, RestType, ledger, partitions
<1>2. ASSUME NEW u \in Users, Vanish(u)
      PROVE  LedgerType' /\ PartType' /\ RestType' /\ AuditorType'
  BY <1>2 DEF Vanish, LedgerType, PartType, RestType, AuditorType, AuditorInv, Held, ledger, partitions
<1>3. ASSUME UNCHANGED vars PROVE LedgerType' /\ PartType' /\ RestType' /\ AuditorType'
  BY <1>3 DEF vars, LedgerType, PartType, RestType, AuditorType, AuditorInv, Held, ledger, partitions
<1> QED BY <1>1, <1>2, <1>3, RunTyped, WorkerTyped, AuditTyped DEF Next

\* The types hold at the start.
LEMMA TypeInit == Init => TypeInv
<1> SUFFICES ASSUME Init PROVE LedgerType /\ PartType /\ RestType /\ AuditorType
  BY Parts
<1>1. LedgerType
  BY DEF Init, LedgerType, Counters
<1>2. PartType
  BY DEF Init, PartType, Partitions, PartStatuses
<1>3. RestType
  BY DEF Init, RestType, Statuses
<1>4. AuditorType
  BY DEF Init, AuditorType, AuditorInv, Auditors, Idle, Held, NoGeneration, NoRange, NoCount
<1> QED BY <1>1, <1>2, <1>3, <1>4

\* The types, with what they need of the auditor, hold always.
LEMMA TypeInvariant == Spec => []TypeInv
BY TypeInit, TypeStep, PTL DEF Spec

\* Every variable of the ledger, its partitions and its auditor keeps its type,
\* for any accounts, days, limits and bounds.
THEOREM TypeCorrect == Spec => []TypeOK
<1>1. TypeInv => TypeOK
  BY DEF TypeInv
<1> QED BY <1>1, TypeInvariant, PTL

-----------------------------------------------------------------------------
(* The ledger is exact *)

\* The accounts of a set that were created on a day.
OfDay(us, d) == {u \in us : Day(Created[u]) = d}

\* Marks keep it exact.
LEMMA MarkExact ==
  ASSUME LedgerType, LedgerIsExact, NEW g \in Generations, NEW map \in Bitmaps,
         NEW us \in SUBSET Users, Mark(g, map, us)
  PROVE  LedgerIsExact'
<1> DEFINE old == bits[g][map]
           changed == us \ old
           byDay == [d \in LedgerDays |-> dayCount[g][d] + Cardinality(OfDay(changed, d))]
<1>1. old \in SUBSET Users /\ changed \in SUBSET Users /\ Cardinality(changed) \in Nat
  BY UsersFinite DEF LedgerType
<1>2. bits' = [bits EXCEPT ![g][map] = old \cup us]
      /\ counters' = [counters EXCEPT ![g][map] = counters[g][map] + Cardinality(changed)]
  BY DEF Mark
<1>3. IF map = "successful" THEN dayCount' = [dayCount EXCEPT ![g] = byDay]
      ELSE dayCount' = dayCount
  BY DEF Mark, OfDay
<1>4. Cardinality(old \cup us) = Cardinality(old) + Cardinality(changed)
  BY <1>1, AddedSize
<1>5. ASSUME NEW d \in LedgerDays
      PROVE  Cardinality(OfDay(old \cup us, d)) = Cardinality(OfDay(old, d)) + Cardinality(OfDay(changed, d))
  <2>1. OfDay(old \cup us, d) = OfDay(old, d) \cup OfDay(us, d)
        /\ OfDay(changed, d) = OfDay(us, d) \ OfDay(old, d)
    BY DEF OfDay
  <2>2. OfDay(old, d) \in SUBSET Users /\ OfDay(us, d) \in SUBSET Users
    BY <1>1 DEF OfDay
  <2>3. Cardinality(OfDay(old, d) \cup OfDay(us, d))
          = Cardinality(OfDay(old, d)) + Cardinality(OfDay(us, d) \ OfDay(old, d))
    BY <2>2, AddedSize
  <2> QED BY <2>1, <2>3
<1> HIDE DEF old, changed
<1>6. ASSUME NEW h \in Generations, NEW m \in Bitmaps
      PROVE  counters'[h][m] = Cardinality(bits'[h][m])
  <2>1. counters[h][m] = Cardinality(bits[h][m])
    BY DEF LedgerIsExact
  <2>2. CASE h = g /\ m = map
    <3>1. bits'[h][m] = old \cup us
      BY <1>2, <2>2 DEF LedgerType
    <3>2. counters'[h][m] = counters[g][map] + Cardinality(changed)
      BY <1>2, <2>2 DEF LedgerType, Counters
    <3>3. counters[g][map] = Cardinality(old)
      BY <2>1, <2>2 DEF old
    <3> QED BY <1>4, <3>1, <3>2, <3>3
  <2>3. CASE ~(h = g /\ m = map)
    <3>1. bits'[h][m] = bits[h][m] /\ counters'[h][m] = counters[h][m]
      BY <1>2, <2>3 DEF LedgerType, Counters
    <3> QED BY <2>1, <3>1
  <2> QED BY <2>2, <2>3
<1>7. ASSUME NEW h \in Generations, NEW d \in LedgerDays
      PROVE  dayCount'[h][d] = Cardinality(OfDay(bits'[h]["successful"], d))
  <2>1. dayCount[h][d] = Cardinality(OfDay(bits[h]["successful"], d))
    BY DEF LedgerIsExact, OfDay
  <2>2. CASE h = g /\ map = "successful"
    <3>1. bits'[h]["successful"] = old \cup us
      BY <1>2, <2>2 DEF LedgerType
    <3>2. dayCount'[h][d] = dayCount[g][d] + Cardinality(OfDay(changed, d))
      BY <1>3, <2>2 DEF LedgerType
    <3>3. dayCount[g][d] = Cardinality(OfDay(old, d))
      BY <2>1, <2>2 DEF old
    <3> QED BY <1>5, <3>1, <3>2, <3>3
  <2>3. CASE ~(h = g /\ map = "successful")
    <3>1. "successful" \in Bitmaps
      BY DEF Bitmaps
    <3>2. bits'[h]["successful"] = bits[h]["successful"]
      BY <1>2, <2>3, <3>1 DEF LedgerType
    <3>3. dayCount'[h][d] = dayCount[h][d]
      BY <1>3, <2>3 DEF LedgerType
    <3> QED BY <2>1, <3>2, <3>3
  <2> QED BY <2>2, <2>3
<1> QED BY <1>6, <1>7 DEF LedgerIsExact, OfDay

\* A step marks accounts, or changes at most the count of unresolved
\* partitions.
LEMMA LedgerStep ==
  ASSUME TypeInv, [Next]_vars
  PROVE  \/ \E g \in Generations, map \in Bitmaps, us \in SUBSET Users : Mark(g, map, us)
         \/ /\ bits' = bits /\ dayCount' = dayCount
            /\ \/ counters' = counters
               \/ \E g \in Generations :
                    counters' = [counters EXCEPT ![g]["unresolved"] = @ + 1]
<1> DEFINE Marks == \E g \in Generations, map \in Bitmaps, us \in SUBSET Users : Mark(g, map, us)
           Same == bits' = bits /\ dayCount' = dayCount /\ counters' = counters
<1>1. LedgerType /\ PartType /\ RestType /\ AuditorType
  BY Parts
<1>2. CASE RunStep
  <2>1. ASSUME NEW us \in SUBSET Users, ApplyEnumerationShardPage(us) PROVE Marks
    BY <1>1, <2>1 DEF ApplyEnumerationShardPage, RestType, Bitmaps
  <2>2. ASSUME NEW g \in Generations, EnsureMainRun(g) PROVE Same
    BY <2>2 DEF EnsureMainRun, ledger
  <2>3. ASSUME EnumerationEnds \/ MaybeCompleteMain PROVE Same
    BY <2>3 DEF EnumerationEnds, MaybeCompleteMain, ledger
  <2> QED BY <1>2, <2>1, <2>2, <2>3 DEF RunStep
<1>3. CASE WorkerStep
  <2>1. ASSUME NEW row \in queue \cup overflow
        PROVE  row.gen \in Generations /\ {row.user} \in SUBSET Users
    BY <1>1, <2>1, RowType DEF RestType
  <2>2. ASSUME NEW row \in queue, MoveToOverflow(row) PROVE Same
    BY <2>2 DEF MoveToOverflow, ledger
  <2>3. ASSUME NEW row \in queue, CompleteAccount(row) PROVE Marks
    BY <2>1, <2>3 DEF CompleteAccount, Bitmaps
  <2>4. ASSUME NEW row \in queue, CompleteInaccessible(row) PROVE Marks
    BY <2>1, <2>4 DEF CompleteInaccessible, Bitmaps
  <2>5. ASSUME NEW row \in overflow, CompleteOverflow(row) PROVE Marks
    BY <2>1, <2>5 DEF CompleteOverflow, Bitmaps
  <2> QED BY <1>3, <2>2, <2>3, <2>4, <2>5 DEF WorkerStep
<1>4. CASE AuditorStep
  <2>1. ASSUME StageCoveragePartition PROVE Marks
    <3>1. auditor.gen \in Generations /\ auditor.found \in SUBSET Users
      BY <1>1, <2>1, AuditorTyped DEF StageCoveragePartition
    <3> QED BY <2>1, <3>1 DEF StageCoveragePartition, Bitmaps
  <2>2. ASSUME NEW incomplete \in BOOLEAN, SplitCoveragePartition(incomplete)
        PROVE  /\ bits' = bits /\ dayCount' = dayCount
               /\ \/ counters' = counters
                  \/ \E g \in Generations :
                       counters' = [counters EXCEPT ![g]["unresolved"] = @ + 1]
    <3>1. auditor.gen \in Generations
      BY <1>1, <2>2, AuditorTyped DEF SplitCoveragePartition
    <3> QED BY <2>2, <3>1 DEF SplitCoveragePartition
  <2>3. ASSUME NEW g \in Generations, EnsureCoveragePartitions(g) PROVE Same
    BY <2>3 DEF EnsureCoveragePartitions, ledger
  <2>4. ASSUME NEW r \in Ranges, ClaimCoveragePartition(r) PROVE Same
    BY <2>4 DEF ClaimCoveragePartition, ledger
  <2>5. ASSUME CountPartitions \/ FinalizeCoverageGeneration \/ RetryCoveragePartition PROVE Same
    BY <2>5 DEF CountPartitions, FinalizeCoverageGeneration, RetryCoveragePartition, ledger
  <2>6. ASSUME MarkCoverageCountConsistent \/ CountDiffers \/ EnumerateSearchPartition PROVE Same
    BY <2>6 DEF MarkCoverageCountConsistent, CountDiffers, EnumerateSearchPartition, ledger
  <2> HIDE DEF Marks
  <2>7. Marks \/ Same \/ \E incomplete \in BOOLEAN : SplitCoveragePartition(incomplete)
    BY <1>4, <2>1, <2>3, <2>4, <2>5, <2>6 DEF AuditorStep
  <2> QED BY <2>2, <2>7 DEF Marks
<1>5. CASE Abandon \/ (\E u \in Users : Vanish(u)) \/ UNCHANGED vars
  BY <1>5 DEF Abandon, Vanish, vars, ledger
<1> QED BY <1>2, <1>3, <1>4, <1>5 DEF Next

\* Every step keeps counters and bitmaps in agreement.
LEMMA ExactStep == TypeInv /\ LedgerIsExact /\ [Next]_vars => LedgerIsExact'
<1> SUFFICES ASSUME TypeInv, LedgerIsExact, [Next]_vars PROVE LedgerIsExact'
  OBVIOUS
<1>1. LedgerType
  BY Parts
<1>2. ASSUME NEW g \in Generations, NEW map \in Bitmaps, NEW us \in SUBSET Users, Mark(g, map, us)
      PROVE  LedgerIsExact'
  BY <1>1, <1>2, MarkExact
<1>3. ASSUME bits' = bits, dayCount' = dayCount, counters' = counters
      PROVE  LedgerIsExact'
  BY <1>3 DEF LedgerIsExact
<1>4. ASSUME bits' = bits, dayCount' = dayCount, NEW g \in Generations,
             counters' = [counters EXCEPT ![g]["unresolved"] = @ + 1]
      PROVE  LedgerIsExact'
  <2>1. ASSUME NEW h \in Generations, NEW m \in Bitmaps PROVE counters'[h][m] = counters[h][m]
    BY <1>1, <1>4 DEF LedgerType, Counters, Bitmaps
  <2> QED BY <1>4, <2>1 DEF LedgerIsExact
<1> QED BY <1>2, <1>3, <1>4, LedgerStep

\* The counters of every generation are the sizes of its bitmaps, and its counts
\* by day those of its successful accounts, whoever settles an account and how
\* often.
THEOREM LedgerStaysExact == Spec => []LedgerIsExact
<1>1. Init => LedgerIsExact
  <2> SUFFICES ASSUME Init PROVE LedgerIsExact
    OBVIOUS
  <2>1. \A d : {u \in {} : Day(Created[u]) = d} = {}
    OBVIOUS
  <2>2. Cardinality({}) = 0
    BY FS_EmptySet
  <2>3. ASSUME NEW g \in Generations, NEW m \in Bitmaps
        PROVE  bits[g][m] = {} /\ counters[g][m] = 0
    BY DEF Init
  <2>4. ASSUME NEW g \in Generations, NEW d \in LedgerDays PROVE dayCount[g][d] = 0
    BY DEF Init
  <2>5. "successful" \in Bitmaps
    BY DEF Bitmaps
  <2> QED BY <2>1, <2>2, <2>3, <2>4, <2>5 DEF LedgerIsExact
<1> QED BY <1>1, TypeInvariant, ExactStep, PTL DEF Spec

-----------------------------------------------------------------------------
(* The partitions tile the audited time *)

\* The partitions of one generation: those that hold a second themselves,
Leaf(P, r) == P[r].status \notin {"none", "splitting"} /\ ~P[r].sample

\* and those that left theirs to others.
Inner(P, r) == P[r].status = "splitting" /\ ~P[r].sample

Fresh(P) == \A r \in Ranges : P[r].status = "none" /\ ~P[r].sample

Covered(P) == \A s \in 0 .. Cutoff : \E r \in Ranges : Leaf(P, r) /\ s \in Seconds(r)

Disjoint(P) ==
  \A r, q \in Ranges : \A s \in 0 .. Cutoff :
    Leaf(P, r) /\ Leaf(P, q) /\ s \in Seconds(r) /\ s \in Seconds(q) => r = q

\* What lies in a partition that was split lies within it.
Nested(P) ==
  \A r, q \in Ranges : \A s \in 0 .. Cutoff :
    Leaf(P, r) /\ Inner(P, q) /\ s \in Seconds(r) /\ s \in Seconds(q)
      => q[1] <= r[1] /\ r[2] <= q[2]

\* A sample is a second of a partition whose counts agreed.
Sampling(P) ==
  \A q \in Ranges : P[q].sample =>
    /\ q[1] = q[2]
    /\ \E r \in Ranges : Leaf(P, r) /\ P[r].status = "count_consistent" /\ q[1] \in Seconds(r)

Started(P) == \A d \in Days : P[WholeDay(d)].status # "none"

Tiled(P) == Covered(P) /\ Disjoint(P) /\ Nested(P) /\ Sampling(P) /\ Started(P)

\* Arithmetic of days: a second is in the whole day that it is of, and in no other.
LEMMA DayOf ==
  ASSUME NEW d \in Days
  PROVE  /\ WholeDay(d) \in Ranges
         /\ \A s \in 0 .. Cutoff : s \in Seconds(WholeDay(d)) <=> d = Day(s)
<1>1. DayLen \in Nat /\ DayLen > 0 /\ Cutoff \in Nat
  OBVIOUS
<1>2. d \in Nat /\ d <= Cutoff \div DayLen
  <2>1. Cutoff \div DayLen \in Nat
    BY <1>1
  <2> QED BY <2>1 DEF Days, Day
<1>3. d * DayLen \in Nat /\ (d + 1) * DayLen \in Nat /\ (d + 1) * DayLen = d * DayLen + DayLen
  BY <1>1, <1>2
<1>4. (Cutoff \div DayLen) \in Nat /\ (Cutoff \div DayLen) * DayLen <= Cutoff
  BY <1>1
<1>5. d * DayLen <= (Cutoff \div DayLen) * DayLen
  BY <1>1, <1>2, <1>4
<1>6. d * DayLen <= Cutoff
  BY <1>1, <1>3, <1>4, <1>5
<1>7. WholeDay(d) \in Ranges
  BY <1>1, <1>3, <1>6 DEF WholeDay, Ranges
<1>8. ASSUME NEW s \in 0 .. Cutoff
      PROVE  s \in Seconds(WholeDay(d)) <=> d = Day(s)
  <2>1. s \in Nat /\ s <= Cutoff
    OBVIOUS
  <2>2. s \div DayLen \in Nat /\ (s \div DayLen) * DayLen <= s /\ s < (s \div DayLen) * DayLen + DayLen
    BY <1>1, <2>1
  <2>3. s \in Seconds(WholeDay(d)) <=> d * DayLen <= s /\ s < d * DayLen + DayLen
    BY <1>1, <1>3, <2>1 DEF Seconds, WholeDay
  <2>4. d = s \div DayLen => d * DayLen <= s /\ s < d * DayLen + DayLen
    BY <2>2
  <2>5. ASSUME d * DayLen <= s, s < d * DayLen + DayLen PROVE d = s \div DayLen
    <3> DEFINE e == s \div DayLen
    <3>1. e \in Nat /\ e * DayLen <= s /\ s < e * DayLen + DayLen
      BY <2>2
    <3> HIDE DEF e
    <3>2. e < d => e * DayLen + DayLen <= d * DayLen
      BY <1>1, <1>2, <3>1
    <3>3. d < e => d * DayLen + DayLen <= e * DayLen
      BY <1>1, <1>2, <3>1
    <3>4. ~(e < d)
      <4>1. e * DayLen \in Nat
        BY <1>1, <3>1
      <4> QED BY <1>1, <1>3, <2>1, <2>5, <3>1, <3>2, <4>1
    <3>5. ~(d < e)
      <4>1. e * DayLen \in Nat
        BY <1>1, <3>1
      <4> QED BY <1>1, <1>3, <2>1, <2>5, <3>1, <3>3, <4>1
    <3>6. d = e
      BY <1>2, <3>1, <3>4, <3>5
    <3> QED BY <3>6 DEF e
  <2> QED BY <2>3, <2>4, <2>5 DEF Day
<1> QED BY <1>7, <1>8

\* The day of a second is one of the audited days.
LEMMA DayIn ==
  ASSUME NEW s \in 0 .. Cutoff
  PROVE  Day(s) \in Days
<1>1. DayLen \in Nat /\ DayLen > 0 /\ s \in Nat /\ s <= Cutoff /\ Cutoff \in Nat
  OBVIOUS
<1>2. s \div DayLen \in Nat /\ Cutoff \div DayLen \in Nat
  BY <1>1
<1>3. s \div DayLen <= Cutoff \div DayLen
  BY <1>1, <1>2
<1> QED BY <1>2, <1>3 DEF Day, Days

\* Partitions of a generation in which one has another status.
Moved(P, r, s) == [P EXCEPT ![r] = InStatus(P[r], s)]

\* A move changes the status of its partition and nothing else.
LEMMA MovedFields ==
  ASSUME NEW P \in [Ranges -> Partitions], NEW r \in Ranges, NEW s \in PartStatuses
  PROVE  /\ Moved(P, r, s) \in [Ranges -> Partitions]
         /\ \A x \in Ranges : /\ Moved(P, r, s)[x].status = IF x = r THEN s ELSE P[x].status
                              /\ Moved(P, r, s)[x].sample = P[x].sample
<1>1. P[r] \in Partitions
  OBVIOUS
<1>2. InStatus(P[r], s) \in Partitions /\ InStatus(P[r], s).status = s
      /\ InStatus(P[r], s).sample = P[r].sample
  BY <1>1 DEF InStatus, Partitions
<1> QED BY <1>2 DEF Moved

\* Only partitions that do not exist are made pending.
LEMMA PendingFields ==
  ASSUME NEW P \in [Ranges -> Partitions], NEW R, NEW b \in BOOLEAN
  PROVE  \A x \in Ranges :
           /\ WithPending(P, R, b)[x].status =
                IF x \in R /\ P[x].status = "none" THEN "pending" ELSE P[x].status
           /\ WithPending(P, R, b)[x].sample =
                IF x \in R /\ P[x].status = "none" THEN b ELSE P[x].sample
BY DEF WithPending

\* The first round of a generation makes a tiling of its days.
LEMMA FreshTiled ==
  ASSUME NEW P \in [Ranges -> Partitions], Fresh(P),
         NEW Q \in [Ranges -> Partitions],
         Q = [r \in Ranges |-> IF r \in {WholeDay(d) : d \in Days} /\ P[r].status = "none"
                               THEN [status |-> "pending", sample |-> FALSE] ELSE P[r]]
  PROVE  Tiled(Q)
<1>1. \A r \in Ranges : /\ ~Q[r].sample
                        /\ r \in {WholeDay(d) : d \in Days} => Q[r].status = "pending"
                        /\ r \notin {WholeDay(d) : d \in Days} => Q[r].status = "none"
  BY DEF Fresh
<1>2. \A r \in Ranges : /\ Leaf(Q, r) <=> \E d \in Days : r = WholeDay(d)
                        /\ ~Inner(Q, r)
  BY <1>1 DEF Leaf, Inner
<1>3. Covered(Q)
  BY <1>2, DayOf, DayIn DEF Covered
<1>4. Disjoint(Q)
  BY <1>2, DayOf DEF Disjoint
<1>5. Nested(Q) /\ Sampling(Q)
  BY <1>1, <1>2 DEF Nested, Sampling
<1>6. Started(Q)
  BY <1>1, DayOf DEF Started
<1> QED BY <1>3, <1>4, <1>5, <1>6 DEF Tiled

\* A partition that is neither split nor consistent may change its status.
Open == {"pending", "enumerating", "repairing", "resolved"}

\* A partition that stays a leaf leaves the tiling as it is.
LEMMA MovedTiled ==
  ASSUME NEW P \in [Ranges -> Partitions], Tiled(P), NEW r \in Ranges, P[r].status \in Open,
         NEW s \in PartStatuses \ {"none", "splitting"}
  PROVE  Tiled(Moved(P, r, s))
<1> DEFINE Q == Moved(P, r, s)
<1>1. \A x \in Ranges : /\ Q[x].status = IF x = r THEN s ELSE P[x].status
                        /\ Q[x].sample = P[x].sample
  BY MovedFields
<1> HIDE DEF Q
<1>2. \A x \in Ranges : (Leaf(Q, x) <=> Leaf(P, x)) /\ (Inner(Q, x) <=> Inner(P, x))
  BY <1>1 DEF Leaf, Inner, Open
<1>3. Covered(Q) /\ Disjoint(Q) /\ Nested(Q)
  BY <1>2 DEF Tiled, Covered, Disjoint, Nested
<1>4. Sampling(Q)
  BY <1>1, <1>2 DEF Tiled, Sampling, Open
<1>5. Started(Q)
  BY <1>1, DayOf DEF Tiled, Started
<1> QED BY <1>3, <1>4, <1>5 DEF Tiled, Q

\* A second of a consistent partition may be sampled.
LEMMA SampledTiled ==
  ASSUME NEW P \in [Ranges -> Partitions], Tiled(P), NEW r \in Ranges, Leaf(P, r),
         P[r].status = "count_consistent", NEW R,
         \A q \in R \cap Ranges : q[1] = q[2] /\ q[1] \in Seconds(r)
  PROVE  Tiled(WithPending(P, R, TRUE))
<1> DEFINE Q == WithPending(P, R, TRUE)
<1>1. \A x \in Ranges : /\ Q[x].status = IF x \in R /\ P[x].status = "none" THEN "pending" ELSE P[x].status
                        /\ Q[x].sample = IF x \in R /\ P[x].status = "none" THEN TRUE ELSE P[x].sample
  BY DEF WithPending
<1> HIDE DEF Q
<1>2. \A x \in Ranges : (Leaf(Q, x) <=> Leaf(P, x)) /\ (Inner(Q, x) <=> Inner(P, x))
  BY <1>1 DEF Leaf, Inner
<1>3. Covered(Q) /\ Disjoint(Q) /\ Nested(Q)
  BY <1>2 DEF Tiled, Covered, Disjoint, Nested
<1>4. Sampling(Q)
  <2> SUFFICES ASSUME NEW q \in Ranges, Q[q].sample
               PROVE  /\ q[1] = q[2]
                      /\ \E x \in Ranges : Leaf(Q, x) /\ Q[x].status = "count_consistent" /\ q[1] \in Seconds(x)
    BY DEF Sampling
  <2>1. CASE q \in R /\ P[q].status = "none"
    <3>1. Leaf(Q, r) /\ Q[r].status = "count_consistent"
      BY <1>1, <1>2
    <3> QED BY <2>1, <3>1
  <2>2. CASE ~(q \in R /\ P[q].status = "none")
    <3>1. P[q].sample
      BY <1>1, <2>2
    <3>2. PICK x \in Ranges : Leaf(P, x) /\ P[x].status = "count_consistent" /\ q[1] \in Seconds(x)
      BY <3>1 DEF Tiled, Sampling
    <3>3. q[1] = q[2]
      BY <3>1 DEF Tiled, Sampling
    <3>4. Leaf(Q, x) /\ Q[x].status = "count_consistent"
      BY <1>1, <1>2, <3>2
    <3> QED BY <3>2, <3>3, <3>4
  <2> QED BY <2>1, <2>2
<1>5. Started(Q)
  BY <1>1, DayOf DEF Tiled, Started
<1> QED BY <1>3, <1>4, <1>5 DEF Tiled, Q

\* The halves of a range of more than a second divide it.
LEMMA HalvesDivide ==
  ASSUME NEW r \in Ranges, r[1] # r[2]
  PROVE  /\ \A h \in Halves(r) : /\ h \in Ranges /\ r[1] <= h[1] /\ h[2] <= r[2]
                                 /\ h[1] \in 0 .. Cutoff /\ h[1] \in Seconds(h)
                                 /\ h[1] \in Seconds(r)
                                 /\ ~(h[1] <= r[1] /\ r[2] <= h[2])
         /\ \A s \in 0 .. Cutoff : s \in Seconds(r) => \E h \in Halves(r) : s \in Seconds(h)
         /\ \A s \in 0 .. Cutoff : \A h, k \in Halves(r) :
              s \in Seconds(h) /\ s \in Seconds(k) => h = k
         /\ \A s \in 0 .. Cutoff : \A h \in Halves(r) : s \in Seconds(h) => s \in Seconds(r)
<1> DEFINE m == r[1] + (r[2] - r[1]) \div 2
<1>1. r[1] \in Nat /\ r[2] \in Nat /\ r[1] < r[2] /\ r[2] <= Cutoff /\ Cutoff \in Nat
  BY DEF Ranges
<1>2. m \in Nat /\ r[1] <= m /\ m < r[2]
  BY <1>1
<1>3. Halves(r) = {<<r[1], m>>, <<m + 1, r[2]>>}
  BY DEF Halves
<1> HIDE DEF m
<1>4. <<r[1], m>> \in Ranges /\ <<m + 1, r[2]>> \in Ranges
  BY <1>1, <1>2 DEF Ranges
<1>5. \A s \in 0 .. Cutoff : /\ s \in Seconds(r) <=> r[1] <= s /\ s <= r[2]
                             /\ s \in Seconds(<<r[1], m>>) <=> r[1] <= s /\ s <= m
                             /\ s \in Seconds(<<m + 1, r[2]>>) <=> m + 1 <= s /\ s <= r[2]
  BY <1>1, <1>2 DEF Seconds
<1>6. ASSUME NEW h \in Halves(r)
      PROVE  /\ h \in Ranges /\ r[1] <= h[1] /\ h[2] <= r[2]
             /\ h[1] \in 0 .. Cutoff /\ h[1] \in Seconds(h) /\ h[1] \in Seconds(r)
             /\ ~(h[1] <= r[1] /\ r[2] <= h[2])
  <2>1. CASE h = <<r[1], m>>
    BY <1>1, <1>2, <1>4, <1>5, <2>1
  <2>2. CASE h = <<m + 1, r[2]>>
    BY <1>1, <1>2, <1>4, <1>5, <2>2
  <2> QED BY <1>3, <2>1, <2>2
<1>7. \A s \in 0 .. Cutoff : s \in Seconds(r) => \E h \in Halves(r) : s \in Seconds(h)
  BY <1>1, <1>2, <1>3, <1>5
<1>8. \A s \in 0 .. Cutoff : \A h, k \in Halves(r) : s \in Seconds(h) /\ s \in Seconds(k) => h = k
  BY <1>1, <1>2, <1>3, <1>5
<1>9. \A s \in 0 .. Cutoff : \A h \in Halves(r) : s \in Seconds(h) => s \in Seconds(r)
  BY <1>1, <1>2, <1>3, <1>5
<1> QED BY <1>6, <1>7, <1>8, <1>9

\* Splitting a partition keeps the tiling: neither half exists, since nothing
\* else lies in the partition.
LEMMA SplitTiled ==
  ASSUME NEW P \in [Ranges -> Partitions], Tiled(P), NEW r \in Ranges,
         P[r].status = "enumerating", r[1] # r[2]
  PROVE  Tiled(WithPending(Moved(P, r, "splitting"), Halves(r), P[r].sample))
<1> DEFINE M == Moved(P, r, "splitting")
           H == Halves(r)
           Q == WithPending(M, H, P[r].sample)
<1>1. ~P[r].sample
  BY DEF Tiled, Sampling
<1>2. Leaf(P, r)
  BY <1>1 DEF Leaf
<1>3. "splitting" \in PartStatuses /\ P[r].sample \in BOOLEAN
  BY DEF PartStatuses, Partitions
<1>4. M \in [Ranges -> Partitions]
      /\ \A x \in Ranges : /\ M[x].status = IF x = r THEN "splitting" ELSE P[x].status
                           /\ M[x].sample = P[x].sample
  BY <1>3, MovedFields
<1> HIDE DEF M
<1>5. \A x \in Ranges : /\ Q[x].status = IF x \in H /\ M[x].status = "none" THEN "pending" ELSE M[x].status
                        /\ Q[x].sample = IF x \in H /\ M[x].status = "none" THEN P[r].sample ELSE M[x].sample
  BY <1>3, <1>4, PendingFields
<1> HIDE DEF Q
<1>6. ASSUME NEW h \in H PROVE h \in Ranges /\ h # r /\ P[h].status = "none"
  <2>1. /\ h \in Ranges /\ h[1] \in 0 .. Cutoff /\ h[1] \in Seconds(h) /\ h[1] \in Seconds(r)
        /\ ~(h[1] <= r[1] /\ r[2] <= h[2])
    BY HalvesDivide
  <2>2. h # r
    <3>1. r[1] <= r[1] /\ r[2] <= r[2]
      BY DEF Ranges
    <3> QED BY <2>1, <3>1
  <2>3. ~P[h].sample
    <3>1. SUFFICES ASSUME P[h].sample PROVE FALSE
      BY DEF Partitions
    <3>2. PICK l \in Ranges : Leaf(P, l) /\ P[l].status = "count_consistent" /\ h[1] \in Seconds(l)
      BY <2>1, <3>1 DEF Tiled, Sampling
    <3>3. l = r
      BY <1>2, <2>1, <3>2 DEF Tiled, Disjoint
    <3> QED BY <3>2, <3>3
  <2>4. ~Leaf(P, h)
    BY <1>2, <2>1, <2>2 DEF Tiled, Disjoint
  <2>5. ~Inner(P, h)
    BY <1>2, <2>1 DEF Tiled, Nested
  <2> QED BY <2>1, <2>2, <2>3, <2>4, <2>5 DEF Leaf, Inner
<1>7. ASSUME NEW x \in Ranges
      PROVE  /\ Leaf(Q, x) <=> (x \in H \/ (x # r /\ Leaf(P, x)))
             /\ Inner(Q, x) <=> (x = r \/ Inner(P, x))
             /\ Q[x].sample <=> P[x].sample /\ x \notin H
             /\ P[x].status # "none" => Q[x].status # "none"
             /\ x # r /\ Leaf(P, x) => Q[x].status = P[x].status
  <2>1. CASE x \in H
    <3>1. x # r /\ M[x].status = "none" /\ P[x].status = "none"
      BY <1>4, <1>6, <2>1
    <3>2. Q[x].status = "pending" /\ Q[x].sample = P[r].sample
      BY <1>5, <2>1, <3>1
    <3> QED BY <1>1, <2>1, <3>1, <3>2 DEF Leaf, Inner
  <2>2. CASE x \notin H /\ x = r
    <3>1. Q[x].status = "splitting" /\ Q[x].sample = P[r].sample
      BY <1>4, <1>5, <2>2
    <3> QED BY <1>1, <2>2, <3>1 DEF Leaf, Inner
  <2>3. CASE x \notin H /\ x # r
    <3>1. Q[x].status = P[x].status /\ Q[x].sample = P[x].sample
      BY <1>4, <1>5, <2>3
    <3> QED BY <2>3, <3>1 DEF Leaf, Inner
  <2> QED BY <2>1, <2>2, <2>3
<1>8. Covered(Q)
  <2> SUFFICES ASSUME NEW s \in 0 .. Cutoff
               PROVE  \E x \in Ranges : Leaf(Q, x) /\ s \in Seconds(x)
    BY DEF Covered
  <2>1. PICK l \in Ranges : Leaf(P, l) /\ s \in Seconds(l)
    BY DEF Tiled, Covered
  <2>2. CASE l = r
    <3>1. PICK h \in H : s \in Seconds(h)
      BY <2>1, <2>2, HalvesDivide
    <3> QED BY <1>6, <1>7, <3>1
  <2>3. CASE l # r
    BY <1>7, <2>1, <2>3
  <2> QED BY <2>2, <2>3
<1>9. ASSUME NEW x \in Ranges, NEW h \in H, NEW s \in 0 .. Cutoff,
             x # r, Leaf(P, x), s \in Seconds(x), s \in Seconds(h)
      PROVE  FALSE
  <2>1. s \in Seconds(r)
    BY <1>9, HalvesDivide
  <2> QED BY <1>2, <1>9, <2>1 DEF Tiled, Disjoint
<1>10. Disjoint(Q)
  <2> SUFFICES ASSUME NEW x \in Ranges, NEW y \in Ranges, NEW s \in 0 .. Cutoff,
                      Leaf(Q, x), Leaf(Q, y), s \in Seconds(x), s \in Seconds(y)
               PROVE  x = y
    BY DEF Disjoint
  <2>1. CASE x \in H /\ y \in H
    BY <2>1, HalvesDivide
  <2>2. CASE x \notin H /\ y \notin H
    BY <1>7, <2>2 DEF Tiled, Disjoint
  <2>3. CASE (x \in H) # (y \in H)
    BY <1>7, <1>9, <2>3
  <2> QED BY <2>1, <2>2, <2>3
<1>11. Nested(Q)
  <2> SUFFICES ASSUME NEW x \in Ranges, NEW y \in Ranges, NEW s \in 0 .. Cutoff,
                      Leaf(Q, x), Inner(Q, y), s \in Seconds(x), s \in Seconds(y)
               PROVE  y[1] <= x[1] /\ x[2] <= y[2]
    BY DEF Nested
  <2>1. CASE x \in H /\ y = r
    BY <2>1, HalvesDivide
  <2>2. CASE x \in H /\ Inner(P, y)
    <3>1. r[1] <= x[1] /\ x[2] <= r[2] /\ s \in Seconds(r)
      BY <2>2, HalvesDivide
    <3>2. y[1] <= r[1] /\ r[2] <= y[2]
      BY <1>2, <2>2, <3>1 DEF Tiled, Nested
    <3>3. /\ y[1] \in Int /\ y[2] \in Int /\ r[1] \in Int /\ r[2] \in Int
          /\ x[1] \in Int /\ x[2] \in Int
      BY DEF Ranges
    <3> QED BY <3>1, <3>2, <3>3
  <2>3. CASE x \notin H /\ y = r
    BY <1>2, <1>7, <2>3 DEF Tiled, Disjoint
  <2>4. CASE x \notin H /\ Inner(P, y)
    BY <1>7, <2>4 DEF Tiled, Nested
  <2> QED BY <1>7, <2>1, <2>2, <2>3, <2>4
<1>12. Sampling(Q)
  <2> SUFFICES ASSUME NEW q \in Ranges, Q[q].sample
               PROVE  /\ q[1] = q[2]
                      /\ \E x \in Ranges : Leaf(Q, x) /\ Q[x].status = "count_consistent" /\ q[1] \in Seconds(x)
    BY DEF Sampling
  <2>1. P[q].sample
    BY <1>7
  <2>2. PICK x \in Ranges : Leaf(P, x) /\ P[x].status = "count_consistent" /\ q[1] \in Seconds(x)
    BY <2>1 DEF Tiled, Sampling
  <2>3. q[1] = q[2]
    BY <2>1 DEF Tiled, Sampling
  <2>4. x # r
    BY <2>2
  <2>5. Leaf(Q, x) /\ Q[x].status = "count_consistent"
    BY <1>7, <2>2, <2>4
  <2> QED BY <2>2, <2>3, <2>5
<1>13. Started(Q)
  BY <1>7, DayOf DEF Tiled, Started
<1> QED BY <1>8, <1>10, <1>11, <1>12, <1>13 DEF Tiled, Q, M

\* What the tiling needs to be kept: whose status the auditor and the workers
\* change.
HeldInv == Held => part[auditor.gen][auditor.range].status = "enumerating"

RowInv ==
  \A row \in queue \cup overflow :
    row.range # NoRange => part[row.gen][row.range].status \in {"repairing", "resolved"}

DaysInv == \A g \in Generations : Fresh(part[g]) \/ Tiled(part[g])

TilingInv == HeldInv /\ RowInv /\ DaysInv

\* Steps that leave the partitions alone, and hold none anew.
LEMMA StillTiled ==
  ASSUME TilingInv, part' = part,
         Held' => Held /\ auditor'.gen = auditor.gen /\ auditor'.range = auditor.range,
         \A row \in (queue \cup overflow)' : row.range # NoRange => row \in queue \cup overflow
  PROVE  TilingInv'
<1>1. HeldInv'
  BY DEF TilingInv, HeldInv
<1>2. RowInv'
  BY DEF TilingInv, RowInv
<1>3. DaysInv'
  BY DEF TilingInv, DaysInv
<1> QED BY <1>1, <1>2, <1>3 DEF TilingInv

\* A step gives partition r of g another status.
PartMoves(g, r, s) == part' = [part EXCEPT ![g] = Moved(part[g], r, s)]

\* It changes nothing else.
LEMMA MovedPart ==
  ASSUME PartType, NEW g \in Generations, NEW r \in Ranges, NEW s \in PartStatuses,
         PartMoves(g, r, s)
  PROVE  /\ part'[g] = Moved(part[g], r, s)
         /\ \A h \in Generations : h # g => part'[h] = part[h]
         /\ \A h \in Generations, q \in Ranges :
              part'[h][q].status = IF h = g /\ q = r THEN s ELSE part[h][q].status
<1>1. part[g] \in [Ranges -> Partitions] /\ part \in [Generations -> [Ranges -> Partitions]]
  BY DEF PartType
<1>2. part' = [part EXCEPT ![g] = Moved(part[g], r, s)]
  BY DEF PartMoves
<1>3. part'[g] = Moved(part[g], r, s) /\ \A h \in Generations : h # g => part'[h] = part[h]
  BY <1>1, <1>2
<1>4. \A q \in Ranges : Moved(part[g], r, s)[q].status = IF q = r THEN s ELSE part[g][q].status
  BY <1>1, MovedFields
<1>5. ASSUME NEW h \in Generations, NEW q \in Ranges
      PROVE  part'[h][q].status = IF h = g /\ q = r THEN s ELSE part[h][q].status
  <2>1. CASE h = g
    <3>1. part'[h][q].status = Moved(part[g], r, s)[q].status
      BY <1>3, <2>1
    <3> QED BY <1>4, <2>1, <3>1
  <2>2. CASE h # g
    <3>1. part'[h] = part[h]
      BY <1>3, <2>2
    <3> QED BY <2>2, <3>1
  <2> QED BY <2>1, <2>2
<1> QED BY <1>3, <1>5

\* Where a partition changes, its generation has started.
LEMMA DaysMove ==
  ASSUME PartType, DaysInv, NEW g \in Generations, NEW r \in Ranges,
         part[g][r].status \in Open, NEW s \in PartStatuses \ {"none", "splitting"},
         PartMoves(g, r, s)
  PROVE  DaysInv'
<1>1. part[g] \in [Ranges -> Partitions]
  BY DEF PartType
<1>2. Tiled(part[g])
  <2>1. ~Fresh(part[g])
    BY DEF Fresh, Open
  <2> QED BY <2>1 DEF DaysInv
<1>3. Tiled(Moved(part[g], r, s))
  BY <1>1, <1>2, MovedTiled
<1>4. part'[g] = Moved(part[g], r, s) /\ \A h \in Generations : h # g => part'[h] = part[h]
  BY MovedPart
<1>5. ASSUME NEW h \in Generations PROVE Fresh(part'[h]) \/ Tiled(part'[h])
  <2>1. CASE h = g
    BY <1>3, <1>4, <2>1
  <2>2. CASE h # g
    <3>1. part'[h] = part[h]
      BY <1>4, <2>2
    <3> QED BY <3>1 DEF DaysInv
  <2> QED BY <2>1, <2>2
<1> QED BY <1>5 DEF DaysInv

\* A settled row may resolve its partition, which is under repair.
LEMMA ResolveTiled ==
  ASSUME TypeInv, TilingInv, NEW row \in queue \cup overflow, Resolve(row),
         auditor' = auditor, (queue \cup overflow)' \subseteq queue \cup overflow
  PROVE  TilingInv'
<1>1. PartType /\ RestType /\ AuditorType
  BY Parts
<1>2. row \in Rows
  BY <1>1 DEF RestType
<1>3. CASE part' = part
  BY <1>3, StillTiled DEF Held
<1>4. CASE part' # part
  <2>1. row.range # NoRange
    BY <1>4 DEF Resolve, partitions
  <2>2. row.gen \in Generations /\ row.range \in Ranges
    BY <1>2, <2>1, RowType
  <2>3. PartMoves(row.gen, row.range, "resolved")
    BY <1>4, <2>1 DEF Resolve, PartMoves, Moved, InStatus
  <2>4. part[row.gen][row.range].status \in {"repairing", "resolved"}
    BY <2>1 DEF TilingInv, RowInv
  <2>5. "resolved" \in PartStatuses
    BY DEF PartStatuses
  <2>6. \A h \in Generations, q \in Ranges :
          part'[h][q].status = IF h = row.gen /\ q = row.range THEN "resolved" ELSE part[h][q].status
    BY <1>1, <2>2, <2>3, <2>5, MovedPart
  <2>7. DaysInv'
    BY <1>1, <2>2, <2>3, <2>4, <2>5, DaysMove DEF TilingInv, Open
  <2>8. HeldInv'
    <3>1. Held => auditor.gen \in Generations /\ auditor.range \in Ranges
      BY <1>1, AuditorTyped DEF Held
    <3>2. Held' <=> Held
      BY DEF Held
    <3> QED BY <2>4, <2>6, <3>1, <3>2 DEF TilingInv, HeldInv
  <2>9. RowInv'
    <3> SUFFICES ASSUME NEW x \in queue \cup overflow, x.range # NoRange
                 PROVE  part'[x.gen][x.range].status \in {"repairing", "resolved"}
      BY DEF RowInv
    <3>1. x.gen \in Generations /\ x.range \in Ranges
      BY <1>1, RowType DEF RestType
    <3>2. part[x.gen][x.range].status \in {"repairing", "resolved"}
      BY DEF TilingInv, RowInv
    <3> QED BY <2>6, <3>1, <3>2
  <2> QED BY <2>7, <2>8, <2>9 DEF TilingInv
<1> QED BY <1>3, <1>4

\* Rows are not of partitions that are unknown, pending or claimed: what a step
\* does to those does not concern them.
LEMMA RowsKept ==
  ASSUME RestType, RowInv,
         \A g \in Generations, r \in Ranges :
           part[g][r].status \in {"repairing", "resolved"} => part'[g][r].status = part[g][r].status,
         \A row \in (queue \cup overflow)' : row \in queue \cup overflow
  PROVE  RowInv'
<1> SUFFICES ASSUME NEW row \in (queue \cup overflow)', row.range # NoRange
             PROVE  part'[row.gen][row.range].status \in {"repairing", "resolved"}
  BY DEF RowInv
<1>1. row \in queue \cup overflow
  OBVIOUS
<1>2. row.gen \in Generations /\ row.range \in Ranges
  BY <1>1, RowType DEF RestType
<1>3. part[row.gen][row.range].status \in {"repairing", "resolved"}
  BY <1>1 DEF RowInv
<1> QED BY <1>2, <1>3

\* The auditor is done with its partition.
LEMMA HeldMoves ==
  ASSUME TypeInv, TilingInv, Held, auditor' = Idle,
         NEW s \in PartStatuses \ {"none", "splitting"},
         PartMoves(auditor.gen, auditor.range, s),
         \A row \in (queue \cup overflow)' :
           \/ row \in queue \cup overflow
           \/ row.gen = auditor.gen /\ row.range = auditor.range /\ s \in {"repairing", "resolved"}
  PROVE  TilingInv'
<1> DEFINE g == auditor.gen
           r == auditor.range
<1>1. PartType /\ RestType /\ AuditorType
  BY Parts
<1>2. g \in Generations /\ r \in Ranges
  BY <1>1, AuditorTyped DEF Held
<1>3. part[g][r].status = "enumerating"
  BY DEF TilingInv, HeldInv
<1>4. PartMoves(g, r, s)
  OBVIOUS
<1>5. HeldInv'
  BY DEF HeldInv, Held, Idle
<1>6. \A row \in (queue \cup overflow)' :
        row \in queue \cup overflow \/ (row.gen = g /\ row.range = r /\ s \in {"repairing", "resolved"})
  OBVIOUS
<1> HIDE DEF g, r
<1>7. \A h \in Generations, q \in Ranges :
        part'[h][q].status = IF h = g /\ q = r THEN s ELSE part[h][q].status
  BY <1>1, <1>2, <1>4, MovedPart
<1>8. DaysInv'
  BY <1>1, <1>2, <1>3, <1>4, DaysMove DEF TilingInv, Open
<1>9. RowInv'
  <2> SUFFICES ASSUME NEW row \in (queue \cup overflow)', row.range # NoRange
               PROVE  part'[row.gen][row.range].status \in {"repairing", "resolved"}
    BY DEF RowInv
  <2>1. CASE row \in queue \cup overflow
    <3>1. row.gen \in Generations /\ row.range \in Ranges
      BY <1>1, <2>1, RowType DEF RestType
    <3>2. part[row.gen][row.range].status \in {"repairing", "resolved"}
      BY <2>1 DEF TilingInv, RowInv
    <3> QED BY <1>3, <1>7, <3>1, <3>2
  <2>2. CASE row.gen = g /\ row.range = r /\ s \in {"repairing", "resolved"}
    BY <1>2, <1>7, <2>2
  <2> QED BY <1>6, <2>1, <2>2
<1> QED BY <1>5, <1>8, <1>9 DEF TilingInv

\* The days of a generation are made once.
LEMMA EnsureTiled ==
  ASSUME TypeInv, TilingInv, NEW g \in Generations, EnsureCoveragePartitions(g)
  PROVE  TilingInv'
<1> DEFINE P == part[g]
           Q == [r \in Ranges |-> IF r \in {WholeDay(d) : d \in Days} /\ P[r].status = "none"
                                  THEN [status |-> "pending", sample |-> FALSE] ELSE P[r]]
<1>1. PartType /\ RestType /\ AuditorType
  BY Parts
<1>2. P \in [Ranges -> Partitions] /\ Q \in [Ranges -> Partitions]
  BY <1>1 DEF PartType, Partitions, PartStatuses
<1>3. part' = [part EXCEPT ![g] = Q]
  BY DEF EnsureCoveragePartitions
<1>4. part'[g] = Q /\ \A h \in Generations : h # g => part'[h] = part[h]
  BY <1>1, <1>3 DEF PartType
<1>5. Fresh(P) => Tiled(Q)
  BY <1>2, FreshTiled
<1>6. \A r \in Ranges : P[r].status # "none" => Q[r] = P[r]
  OBVIOUS
<1>7. Tiled(P) => Q = P
  <2> SUFFICES ASSUME Tiled(P) PROVE Q = P
    OBVIOUS
  <2>1. \A r \in Ranges : Q[r] = P[r]
    BY DEF Tiled, Started
  <2> QED BY <1>2, <2>1
<1>8. Fresh(P) \/ Tiled(P)
  BY DEF TilingInv, DaysInv
<1> HIDE DEF P, Q
<1>9. DaysInv'
  <2>1. Tiled(Q)
    BY <1>5, <1>7, <1>8
  <2>2. ASSUME NEW h \in Generations PROVE Fresh(part'[h]) \/ Tiled(part'[h])
    <3>1. CASE h = g
      BY <1>4, <2>1, <3>1
    <3>2. CASE h # g
      <4>1. part'[h] = part[h]
        BY <1>4, <3>2
      <4> QED BY <4>1 DEF TilingInv, DaysInv
    <3> QED BY <3>1, <3>2
  <2> QED BY <2>2 DEF DaysInv
<1>10. HeldInv'
  BY <1>1 DEF EnsureCoveragePartitions, HeldInv, Held, AuditorType, Auditors
<1>11. RowInv'
  <2>1. ASSUME NEW h \in Generations, NEW r \in Ranges, part[h][r].status \in {"repairing", "resolved"}
        PROVE  part'[h][r].status = part[h][r].status
    BY <1>4, <1>6, <2>1 DEF P
  <2>2. queue' = queue /\ overflow' = overflow
    BY DEF EnsureCoveragePartitions
  <2> QED BY <1>1, <2>1, <2>2, RowsKept DEF TilingInv
<1> QED BY <1>9, <1>10, <1>11 DEF TilingInv

\* A generation that gets partitions in place of the held one, which are tiled.
LEMMA HeldReplaced ==
  ASSUME TypeInv, TilingInv, Held, auditor' = Idle,
         NEW s \in PartStatuses \ {"repairing", "resolved"}, NEW R, NEW b \in BOOLEAN,
         part' = [part EXCEPT ![auditor.gen] =
                    WithPending(Moved(part[auditor.gen], auditor.range, s), R, b)],
         Tiled(WithPending(Moved(part[auditor.gen], auditor.range, s), R, b)),
         queue' = queue, overflow' = overflow
  PROVE  TilingInv'
<1> DEFINE g == auditor.gen
           r == auditor.range
           M == Moved(part[g], r, s)
           Q == WithPending(M, R, b)
<1>1. PartType /\ RestType /\ AuditorType
  BY Parts
<1>2. g \in Generations /\ r \in Ranges
  BY <1>1, AuditorTyped DEF Held
<1>3. part[g][r].status = "enumerating"
  BY DEF TilingInv, HeldInv
<1>4. part' = [part EXCEPT ![g] = Q] /\ Tiled(Q)
  OBVIOUS
<1>5. HeldInv'
  BY DEF HeldInv, Held, Idle
<1> HIDE DEF g, r
<1>6. M \in [Ranges -> Partitions]
      /\ \A x \in Ranges : M[x].status = IF x = r THEN s ELSE part[g][x].status
  <2>1. part[g] \in [Ranges -> Partitions]
    BY <1>1, <1>2 DEF PartType
  <2> QED BY <1>2, <2>1, MovedFields
<1> HIDE DEF M
<1>7. \A x \in Ranges : Q[x].status = IF x \in R /\ M[x].status = "none" THEN "pending" ELSE M[x].status
  BY <1>6, PendingFields
<1> HIDE DEF Q
<1>8. part'[g] = Q /\ \A h \in Generations : h # g => part'[h] = part[h]
  BY <1>1, <1>2, <1>4 DEF PartType
<1>9. DaysInv'
  <2>1. ASSUME NEW h \in Generations PROVE Fresh(part'[h]) \/ Tiled(part'[h])
    <3>1. CASE h = g
      BY <1>4, <1>8, <3>1
    <3>2. CASE h # g
      <4>1. part'[h] = part[h]
        BY <1>8, <3>2
      <4> QED BY <4>1 DEF TilingInv, DaysInv
    <3> QED BY <3>1, <3>2
  <2> QED BY <2>1 DEF DaysInv
<1>10. RowInv'
  <2>1. ASSUME NEW h \in Generations, NEW x \in Ranges, part[h][x].status \in {"repairing", "resolved"}
        PROVE  part'[h][x].status = part[h][x].status
    <3>1. CASE h = g
      <4>1. x # r
        BY <1>3, <2>1, <3>1
      <4>2. M[x].status = part[g][x].status
        BY <1>6, <4>1
      <4>3. Q[x].status = part[g][x].status
        BY <1>7, <2>1, <3>1, <4>2
      <4> QED BY <1>8, <3>1, <4>3
    <3>2. CASE h # g
      <4>1. part'[h] = part[h]
        BY <1>8, <3>2
      <4> QED BY <4>1
    <3> QED BY <3>1, <3>2
  <2> QED BY <1>1, <2>1, RowsKept DEF TilingInv
<1> QED BY <1>5, <1>9, <1>10 DEF TilingInv

\* A consistent partition is sampled, or not.
LEMMA ConsistentTiled ==
  ASSUME TypeInv, TilingInv, MarkCoverageCountConsistent
  PROVE  TilingInv'
<1> DEFINE g == auditor.gen
           r == auditor.range
           M == Moved(part[g], r, "count_consistent")
<1>1. PartType /\ RestType /\ AuditorType
  BY Parts
<1>2. Held /\ g \in Generations /\ r \in Ranges
  BY <1>1, AuditorTyped DEF MarkCoverageCountConsistent, Held
<1>3. part[g][r].status = "enumerating" /\ part[g] \in [Ranges -> Partitions]
  BY <1>1, <1>2 DEF TilingInv, HeldInv, PartType
<1>4. "count_consistent" \in PartStatuses
  BY DEF PartStatuses
<1>5. PICK at \in Seconds(r) :
        part' = [part EXCEPT ![g] = WithPending(M, Sampled(g, r, at), TRUE)]
  BY DEF MarkCoverageCountConsistent, Moved, InStatus
<1>6. auditor' = Idle /\ queue' = queue /\ overflow' = overflow
  BY DEF MarkCoverageCountConsistent
<1>7. Tiled(part[g])
  <2>1. ~Fresh(part[g])
    BY <1>2, <1>3 DEF Fresh
  <2> QED BY <1>2, <2>1 DEF TilingInv, DaysInv
<1>8. Tiled(M)
  BY <1>2, <1>3, <1>4, <1>7, MovedTiled DEF Open
<1>9. M \in [Ranges -> Partitions] /\ M[r].status = "count_consistent" /\ M[r].sample = part[g][r].sample
  BY <1>2, <1>3, <1>4, MovedFields
<1> HIDE DEF M
<1>10. Tiled(WithPending(M, Sampled(g, r, at), TRUE))
  <2>1. CASE part[g][r].sample
    <3>1. Sampled(g, r, at) = {}
      BY <2>1 DEF Sampled
    <3>2. WithPending(M, {}, TRUE) = M
      BY <1>9 DEF WithPending
    <3> QED BY <1>8, <3>1, <3>2
  <2>2. CASE ~part[g][r].sample
    <3>1. Leaf(M, r)
      BY <1>9, <2>2 DEF Leaf
    <3>2. ASSUME NEW q \in Sampled(g, r, at) \cap Ranges
          PROVE  q[1] = q[2] /\ q[1] \in Seconds(r)
      <4>1. q = <<at, at>>
        BY DEF Sampled
      <4> QED BY <1>5, <4>1
    <3> HIDE DEF g, r
    <3> QED BY <1>2, <1>8, <1>9, <3>1, <3>2, SampledTiled
  <2> QED BY <2>1, <2>2
<1> QED BY <1>2, <1>4, <1>5, <1>6, <1>10, HeldReplaced DEF M

\* A partition that is too large is split, or given up.
LEMMA DividedTiled ==
  ASSUME TypeInv, TilingInv, NEW incomplete \in BOOLEAN, SplitCoveragePartition(incomplete)
  PROVE  TilingInv'
<1> DEFINE g == auditor.gen
           r == auditor.range
<1>1. PartType /\ RestType /\ AuditorType
  BY Parts
<1>2. Held /\ g \in Generations /\ r \in Ranges
  BY <1>1, AuditorTyped DEF SplitCoveragePartition, Held
<1>3. part[g][r].status = "enumerating" /\ part[g] \in [Ranges -> Partitions]
  BY <1>1, <1>2 DEF TilingInv, HeldInv, PartType
<1>4. "splitting" \in PartStatuses /\ "unresolved" \in PartStatuses /\ part[g][r].sample \in BOOLEAN
  BY <1>2, <1>3 DEF PartStatuses, Partitions
<1>5. auditor' = Idle /\ queue' = queue /\ overflow' = overflow
  BY DEF SplitCoveragePartition
<1>6. CASE r[1] = r[2]
  <2>1. PartMoves(g, r, "unresolved")
    BY <1>6 DEF SplitCoveragePartition, PartMoves, Moved, InStatus
  <2> QED BY <1>2, <1>4, <1>5, <2>1, HeldMoves
<1>7. CASE r[1] # r[2]
  <2>1. part' = [part EXCEPT ![g] =
                   WithPending(Moved(part[g], r, "splitting"), Halves(r), part[g][r].sample)]
    BY <1>7 DEF SplitCoveragePartition, Moved, InStatus
  <2>2. Tiled(part[g])
    <3>1. ~Fresh(part[g])
      BY <1>2, <1>3 DEF Fresh
    <3> QED BY <1>2, <3>1 DEF TilingInv, DaysInv
  <2>3. Tiled(WithPending(Moved(part[g], r, "splitting"), Halves(r), part[g][r].sample))
    BY <1>2, <1>3, <1>7, <2>2, SplitTiled
  <2> QED BY <1>2, <1>4, <1>5, <2>1, <2>3, HeldReplaced
<1> QED BY <1>6, <1>7

\* Every step keeps the tiling.
LEMMA TilingStep == TypeInv /\ TilingInv /\ [Next]_vars => TilingInv'
<1> SUFFICES ASSUME TypeInv, TilingInv, [Next]_vars PROVE TilingInv'
  OBVIOUS
<1>1. LedgerType /\ PartType /\ RestType /\ AuditorType
  BY Parts
<1>2. CASE RunStep
  <2>1. ASSUME NEW g \in Generations, EnsureMainRun(g) PROVE TilingInv'
    BY <2>1, StillTiled DEF EnsureMainRun, partitions, Held
  <2>2. ASSUME NEW us \in SUBSET Users, ApplyEnumerationShardPage(us) PROVE TilingInv'
    <3>1. \A row \in (queue \cup overflow)' : row.range # NoRange => row \in queue \cup overflow
      BY <2>2 DEF ApplyEnumerationShardPage, GlobalRow
    <3> QED BY <2>2, <3>1, StillTiled DEF ApplyEnumerationShardPage, partitions, Held
  <2>3. ASSUME EnumerationEnds \/ MaybeCompleteMain PROVE TilingInv'
    BY <2>3, StillTiled DEF EnumerationEnds, MaybeCompleteMain, partitions, Held
  <2> QED BY <1>2, <2>1, <2>2, <2>3 DEF RunStep
<1>3. CASE WorkerStep
  <2>1. ASSUME NEW row \in queue, CompleteAccount(row) \/ CompleteInaccessible(row) PROVE TilingInv'
    <3>1. Resolve(row) /\ auditor' = auditor /\ queue' \subseteq queue /\ overflow' = overflow
      BY <2>1 DEF CompleteAccount, CompleteInaccessible
    <3> QED BY <3>1, ResolveTiled
  <2>2. ASSUME NEW row \in overflow, CompleteOverflow(row) PROVE TilingInv'
    <3>1. Resolve(row) /\ auditor' = auditor /\ queue' = queue /\ overflow' \subseteq overflow
      BY <2>2 DEF CompleteOverflow
    <3> QED BY <3>1, ResolveTiled
  <2>3. ASSUME NEW row \in queue, MoveToOverflow(row) PROVE TilingInv'
    BY <2>3, StillTiled DEF MoveToOverflow, partitions, Held
  <2> QED BY <1>3, <2>1, <2>2, <2>3 DEF WorkerStep
<1>4. CASE AuditorStep
  <2>1. ASSUME NEW r \in Ranges, ClaimCoveragePartition(r) PROVE TilingInv'
    <3>1. auditor.gen \in Generations
      BY <1>1, <2>1, AuditorTyped DEF ClaimCoveragePartition
    <3>2. PartMoves(auditor.gen, r, "enumerating") /\ part[auditor.gen][r].status = "pending"
      BY <2>1 DEF ClaimCoveragePartition, PartMoves, Moved, InStatus
    <3>3. "enumerating" \in PartStatuses
      BY DEF PartStatuses
    <3>4. DaysInv'
      BY <1>1, <3>1, <3>2, <3>3, DaysMove DEF TilingInv, Open
    <3>5. \A h \in Generations, q \in Ranges :
            part'[h][q].status = IF h = auditor.gen /\ q = r THEN "enumerating" ELSE part[h][q].status
      BY <1>1, <3>1, <3>2, <3>3, MovedPart
    <3>6. HeldInv'
      <4>1. auditor'.gen = auditor.gen /\ auditor'.range = r
        BY <1>1, <2>1 DEF ClaimCoveragePartition, AuditorType, Auditors
      <4> QED BY <3>1, <3>5, <4>1 DEF HeldInv
    <3>7. RowInv'
      <4>1. queue' = queue /\ overflow' = overflow
        BY <2>1 DEF ClaimCoveragePartition
      <4> QED BY <1>1, <3>2, <3>5, <4>1, RowsKept DEF TilingInv
    <3> QED BY <3>4, <3>6, <3>7 DEF TilingInv
  <2>2. ASSUME CountPartitions PROVE TilingInv'
    <3>1. ~Held'
      BY <1>1, <2>2 DEF CountPartitions, Held, Idle, AuditorType, Auditors
    <3> QED BY <2>2, <3>1, StillTiled DEF CountPartitions, partitions
  <2>3. ASSUME FinalizeCoverageGeneration PROVE TilingInv'
    BY <2>3, StillTiled DEF FinalizeCoverageGeneration, partitions, Held, Idle
  <2>4. ASSUME RetryCoveragePartition PROVE TilingInv'
    <3>1. Held /\ auditor' = Idle /\ queue' = queue /\ overflow' = overflow
      BY <2>4 DEF RetryCoveragePartition
    <3>2. PartMoves(auditor.gen, auditor.range, "pending")
      BY <2>4 DEF RetryCoveragePartition, PartMoves, Moved, InStatus
    <3>3. "pending" \in PartStatuses
      BY DEF PartStatuses
    <3> QED BY <3>1, <3>2, <3>3, HeldMoves
  <2>5. ASSUME CountDiffers \/ EnumerateSearchPartition PROVE TilingInv'
    <3>1. Held /\ auditor'.gen = auditor.gen /\ auditor'.range = auditor.range
      BY <1>1, <2>5 DEF CountDiffers, EnumerateSearchPartition, Held, AuditorType, Auditors
    <3> QED BY <2>5, <3>1, StillTiled DEF CountDiffers, EnumerateSearchPartition, partitions
  <2>6. ASSUME StageCoveragePartition PROVE TilingInv'
    <3> DEFINE g == auditor.gen
               r == auditor.range
               s == IF Inserted(g, r) # {} THEN "repairing" ELSE "resolved"
    <3>1. Held /\ auditor' = Idle
      BY <2>6 DEF StageCoveragePartition, Held
    <3>2. PartMoves(g, r, s)
      BY <2>6 DEF StageCoveragePartition, PartMoves, Moved, InStatus
    <3>3. s \in PartStatuses \ {"none", "splitting"} /\ s \in {"repairing", "resolved"}
      BY DEF PartStatuses
    <3>4. \A row \in (queue \cup overflow)' :
            row \in queue \cup overflow \/ (row.gen = g /\ row.range = r)
      BY <2>6 DEF StageCoveragePartition, Inserted, ReconcileRow
    <3> HIDE DEF s
    <3> QED BY <3>1, <3>2, <3>3, <3>4, HeldMoves
  <2> QED BY <1>4, <2>1, <2>2, <2>3, <2>4, <2>5, <2>6, EnsureTiled, ConsistentTiled, DividedTiled
          DEF AuditorStep
<1>5. CASE Abandon
  BY <1>5, StillTiled DEF Abandon, partitions, Held, Idle
<1>6. CASE \E u \in Users : Vanish(u)
  BY <1>6, StillTiled DEF Vanish, partitions, Held
<1>7. CASE UNCHANGED vars
  BY <1>7, StillTiled DEF vars, Held
<1> QED BY <1>2, <1>3, <1>4, <1>5, <1>6, <1>7 DEF Next

\* Each audited second is in exactly one partition, samples apart, for any days,
\* limits and counts: over splits, retries, crashes of the auditor and repairs.
THEOREM PartitionsStayTiled == Spec => []PartitionsTile
<1>1. Init => TilingInv
  BY DEF Init, TilingInv, HeldInv, RowInv, DaysInv, Held, Idle, Fresh
<1>2. TypeInv /\ TilingInv => PartitionsTile
  <2> SUFFICES ASSUME TypeInv, TilingInv, NEW g \in Generations, Leaves(g) # {},
                      NEW s \in 0 .. Cutoff
               PROVE  Cardinality({r \in Leaves(g) : s \in Seconds(r)}) = 1
    BY DEF PartitionsTile
  <2>1. \A r : r \in Leaves(g) <=> r \in Ranges /\ Leaf(part[g], r)
    BY DEF Leaves, Leaf
  <2>2. Tiled(part[g])
    <3>1. ~Fresh(part[g])
      BY <2>1 DEF Fresh, Leaf
    <3> QED BY <3>1 DEF TilingInv, DaysInv
  <2>3. PICK r \in Ranges : Leaf(part[g], r) /\ s \in Seconds(r)
    BY <2>2 DEF Tiled, Covered
  <2>4. {q \in Leaves(g) : s \in Seconds(q)} = {r}
    BY <2>1, <2>2, <2>3 DEF Tiled, Disjoint
  <2>5. Cardinality({r}) = 1
    BY FS_Singleton
  <2> QED BY <2>4, <2>5
<1> QED BY <1>1, <1>2, TypeInvariant, TilingStep, PTL DEF Spec

=============================================================================
