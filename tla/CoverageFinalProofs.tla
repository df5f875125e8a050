------------------------ MODULE CoverageFinalProofs ------------------------
(***************************************************************************)
(* What it means that a generation is final: its repairs are tracked while *)
(* they last, no account that search lists is missing when it is           *)
(* reconciled, and nothing changes it any more.                            *)
(***************************************************************************)
EXTENDS CoverageAuditProofs

AllRows == queue \cup overflow

-----------------------------------------------------------------------------
(* What a step does to the partitions *)

\* Partition r of g gets status s and those of R that did not exist are queued.
Changes(g, r, s, R) ==
  \A h \in Generations, q \in Ranges :
    part'[h][q].status =
      IF h = g /\ q = r THEN s
      ELSE IF h = g /\ q \in R /\ part[h][q].status = "none" THEN "pending"
      ELSE part[h][q].status

\* One partition moves.
LEMMA MoveChanges ==
  ASSUME PartType, NEW g \in Generations, NEW r \in Ranges, NEW s \in PartStatuses,
         part' = [part EXCEPT ![g][r].status = s]
  PROVE  Changes(g, r, s, {})
<1>1. PartMoves(g, r, s)
  BY DEF PartMoves, Moved, InStatus
<1> QED BY <1>1, MovedPart DEF Changes

\* One moves and others are queued.
LEMMA MoveAndQueueChanges ==
  ASSUME PartType, NEW g \in Generations, NEW r \in Ranges, NEW s \in PartStatuses \ {"none"},
         NEW R, NEW b \in BOOLEAN,
         part' = [part EXCEPT ![g] = WithPending([part[g] EXCEPT ![r].status = s], R, b)]
  PROVE  Changes(g, r, s, R)
<1>1. part[g] \in [Ranges -> Partitions]
  BY DEF PartType
<1>2. part' = [part EXCEPT ![g] = WithPending(Moved(part[g], r, s), R, b)]
  BY DEF Moved, InStatus
<1>3. part'[g] = WithPending(Moved(part[g], r, s), R, b)
      /\ \A h \in Generations : h # g => part'[h] = part[h]
  BY <1>2 DEF PartType
<1> DEFINE M == Moved(part[g], r, s)
<1>4. M \in [Ranges -> Partitions]
      /\ \A q \in Ranges : M[q].status = IF q = r THEN s ELSE part[g][q].status
  BY <1>1, MovedFields
<1> HIDE DEF M
<1>5. \A q \in Ranges : WithPending(M, R, b)[q].status =
                          IF q \in R /\ M[q].status = "none" THEN "pending" ELSE M[q].status
  BY <1>4, PendingFields
<1>6. ASSUME NEW q \in Ranges
      PROVE  part'[g][q].status = IF q = r THEN s
                                  ELSE IF q \in R /\ part[g][q].status = "none" THEN "pending"
                                  ELSE part[g][q].status
  BY <1>3, <1>4, <1>5 DEF M
<1>7. ASSUME NEW h \in Generations, NEW q \in Ranges, h # g
      PROVE  part'[h][q].status = part[h][q].status
  <2>1. part'[h] = part[h]
    BY <1>3, <1>7
  <2> QED BY <2>1
<1> QED BY <1>6, <1>7 DEF Changes

\* What the auditor does to the partition that it holds.
LEMMA HeldChanges ==
  ASSUME TypeInv
  PROVE  /\ Held => auditor.gen \in Generations /\ auditor.range \in Ranges
         /\ RetryCoveragePartition => Changes(auditor.gen, auditor.range, "pending", {})
         /\ MarkCoverageCountConsistent =>
              \E at \in Seconds(auditor.range) :
                Changes(auditor.gen, auditor.range, "count_consistent",
                        Sampled(auditor.gen, auditor.range, at))
         /\ \A incomplete : SplitCoveragePartition(incomplete) =>
              \/ /\ auditor.range[1] = auditor.range[2]
                 /\ Changes(auditor.gen, auditor.range, "unresolved", {})
              \/ /\ auditor.range[1] # auditor.range[2]
                 /\ Changes(auditor.gen, auditor.range, "splitting", Halves(auditor.range))
         /\ StageCoveragePartition =>
              Changes(auditor.gen, auditor.range,
                IF Inserted(auditor.gen, auditor.range) # {} THEN "repairing" ELSE "resolved", {})
<1>1. PartType /\ AuditorType
  BY Parts
<1>2. Held => auditor.gen \in Generations /\ auditor.range \in Ranges
  BY <1>1, AuditorTyped DEF Held
<1> DEFINE g == auditor.gen
           r == auditor.range
<1> USE DEF PartStatuses
<1>3. ASSUME RetryCoveragePartition PROVE Changes(g, r, "pending", {})
  <2>1. part' = [part EXCEPT ![g][r].status = "pending"] /\ Held
    BY <1>3 DEF RetryCoveragePartition
  <2> HIDE DEF g, r
  <2> QED BY <1>1, <1>2, <2>1, MoveChanges DEF g, r
<1>4. ASSUME MarkCoverageCountConsistent
      PROVE  \E at \in Seconds(r) : Changes(g, r, "count_consistent", Sampled(g, r, at))
  <2>1. PICK at \in Seconds(r) :
          part' = [part EXCEPT ![g] =
            WithPending([part[g] EXCEPT ![r].status = "count_consistent"], Sampled(g, r, at), TRUE)]
    BY <1>4 DEF MarkCoverageCountConsistent
  <2>2. g \in Generations /\ r \in Ranges
    BY <1>2, <1>4 DEF MarkCoverageCountConsistent, Held
  <2> HIDE DEF g, r
  <2>3. Changes(g, r, "count_consistent", Sampled(g, r, at))
    BY <1>1, <2>1, <2>2, MoveAndQueueChanges
  <2> QED BY <2>3
<1>5. ASSUME NEW incomplete, SplitCoveragePartition(incomplete)
      PROVE  \/ r[1] = r[2] /\ Changes(g, r, "unresolved", {})
             \/ r[1] # r[2] /\ Changes(g, r, "splitting", Halves(r))
  <2>1. IF r[1] = r[2] THEN part' = [part EXCEPT ![g][r].status = "unresolved"]
        ELSE part' = [part EXCEPT ![g] =
               WithPending([part[g] EXCEPT ![r].status = "splitting"], Halves(r), part[g][r].sample)]
    BY <1>5 DEF SplitCoveragePartition
  <2>2. g \in Generations /\ r \in Ranges
    BY <1>2, <1>5 DEF SplitCoveragePartition, Held
  <2> HIDE DEF g, r
  <2>3. part[g][r].sample \in BOOLEAN
    BY <1>1, <2>2 DEF PartType, Partitions
  <2> QED BY <1>1, <2>1, <2>2, <2>3, MoveChanges, MoveAndQueueChanges
<1>6. ASSUME StageCoveragePartition
      PROVE  Changes(g, r, IF Inserted(g, r) # {} THEN "repairing" ELSE "resolved", {})
  <2> DEFINE s == IF Inserted(g, r) # {} THEN "repairing" ELSE "resolved"
  <2>1. part' = [part EXCEPT ![g][r].status = s]
    BY <1>6 DEF StageCoveragePartition
  <2>2. g \in Generations /\ r \in Ranges /\ s \in PartStatuses
    BY <1>2, <1>6 DEF StageCoveragePartition, Held
  <2> HIDE DEF g, r, s
  <2>3. Changes(g, r, s, {})
    BY <1>1, <2>1, <2>2, MoveChanges
  <2> QED BY <2>3 DEF s
<1> QED BY <1>2, <1>3, <1>4, <1>5, <1>6

\* A claim, the days of a new generation, and a settled row.
LEMMA OtherChanges ==
  ASSUME TypeInv
  PROVE  /\ \A r \in Ranges : ClaimCoveragePartition(r) =>
              /\ auditor.gen \in Generations
              /\ Changes(auditor.gen, r, "enumerating", {})
         /\ \A g \in Generations : EnsureCoveragePartitions(g) =>
              \A h \in Generations, q \in Ranges :
                part'[h][q].status =
                  IF h = g /\ q \in {WholeDay(d) : d \in Days} /\ part[h][q].status = "none"
                  THEN "pending" ELSE part[h][q].status
         /\ \A row \in AllRows : Resolve(row) =>
              \/ part' = part
              \/ /\ row.range # NoRange /\ row.gen \in Generations /\ row.range \in Ranges
                 /\ Changes(row.gen, row.range, "resolved", {})
<1>1. PartType /\ AuditorType /\ RestType
  BY Parts
<1>2. ASSUME NEW r \in Ranges, ClaimCoveragePartition(r)
      PROVE  auditor.gen \in Generations /\ Changes(auditor.gen, r, "enumerating", {})
  <2> DEFINE g == auditor.gen
  <2>1. g \in Generations /\ "enumerating" \in PartStatuses
    BY <1>1, <1>2, AuditorTyped DEF ClaimCoveragePartition, PartStatuses
  <2>2. part' = [part EXCEPT ![g][r].status = "enumerating"]
    BY <1>2 DEF ClaimCoveragePartition
  <2> HIDE DEF g
  <2>3. Changes(g, r, "enumerating", {})
    BY <1>1, <2>1, <2>2, MoveChanges
  <2> QED BY <2>1, <2>3 DEF g
<1>3. ASSUME NEW g \in Generations, EnsureCoveragePartitions(g),
             NEW h \in Generations, NEW q \in Ranges
      PROVE  part'[h][q].status =
               IF h = g /\ q \in {WholeDay(d) : d \in Days} /\ part[h][q].status = "none"
               THEN "pending" ELSE part[h][q].status
  <2> DEFINE Q == [r \in Ranges |-> IF r \in {WholeDay(d) : d \in Days} /\ part[g][r].status = "none"
                                    THEN [status |-> "pending", sample |-> FALSE] ELSE part[g][r]]
  <2>1. part' = [part EXCEPT ![g] = Q]
    BY <1>3 DEF EnsureCoveragePartitions
  <2>2. Q[q].status = IF q \in {WholeDay(d) : d \in Days} /\ part[g][q].status = "none"
                      THEN "pending" ELSE part[g][q].status
    OBVIOUS
  <2> HIDE DEF Q
  <2>3. part'[h] = IF h = g THEN Q ELSE part[h]
    BY <1>1, <2>1 DEF PartType
  <2> QED BY <2>2, <2>3
<1>4. ASSUME NEW row \in AllRows, Resolve(row), part' # part
      PROVE  /\ row.range # NoRange /\ row.gen \in Generations /\ row.range \in Ranges
             /\ Changes(row.gen, row.range, "resolved", {})
  <2>1. row.range # NoRange
    BY <1>4 DEF Resolve, partitions
  <2>2. row.gen \in Generations /\ row.range \in Ranges /\ "resolved" \in PartStatuses
    BY <1>1, <2>1, RowType DEF RestType, AllRows, PartStatuses
  <2>3. part' = [part EXCEPT ![row.gen][row.range].status = "resolved"]
    BY <1>4, <2>1 DEF Resolve
  <2> QED BY <1>1, <2>1, <2>2, <2>3, MoveChanges
<1> QED BY <1>2, <1>3, <1>4
-----------------------------------------------------------------------------
(* The generations are audited in order *)

\* At most one generation is building, that of the run, whose rows the main
\* run's are; the ones after it do not exist.
GenerationsInv ==
  /\ \A g \in Generations : status[g] = "building" <=> run = g
  /\ \A g, h \in Generations : g < h /\ status[g] \in {"none", "building"} => status[h] = "none"
  /\ \A row \in AllRows : row.source = "global" => row.gen = run

HasParts(g) == \E r \in Ranges : part[g][r].status # "none"

\* The auditor works on one generation at a time, the oldest, and the count
\* that it finalizes it with is still true.
OrderInv ==
  /\ auditor.phase # "idle" => Auditable(auditor.gen) /\ HasParts(auditor.gen)
  /\ \A g \in Generations : HasParts(g) => status[g] \in Final \/ Auditable(g)
  /\ \A g, h \in Generations : g < h /\ HasParts(h) => status[g] \in Final
  /\ \A g \in Generations, r \in Ranges : part[g][r].status \in Active => Auditable(g)
  /\ auditor.phase = "finalizing" =>
       \A r \in Ranges :
         /\ part[auditor.gen][r].status \notin Active
         /\ auditor.unresolved = 0 => part[auditor.gen][r].status # "unresolved"

\* A row has the types of its fields.
LEMMA AllRowsType ==
  ASSUME TypeInv, NEW row \in AllRows
  PROVE  /\ row \in Rows /\ row.user \in Users /\ row.gen \in Generations
         /\ row.range # NoRange => row.range \in Ranges
BY Parts, RowType DEF RestType, AllRows

\* An order of numbers.
LEMMA GenerationOrder ==
  ASSUME NEW g \in Generations, NEW h \in Generations
  PROVE  /\ g < h \/ g = h \/ h < g
         /\ ~(g < g)
         /\ g < h => g # h
         /\ g # NoGeneration
BY DEF Generations, NoGeneration

\* Rows and generations that are left alone, but for the auditor's statuses.
LEMMA GenerationsStill ==
  ASSUME TypeInv, GenerationsInv, run' = run, status' \in [Generations -> Statuses],
         \A g \in Generations : status'[g] # status[g] =>
           status[g] \notin {"none", "building"} /\ status'[g] \notin {"none", "building"},
         \A row \in AllRows' : row.source = "global" => row \in AllRows \/ row.gen = run
  PROVE  GenerationsInv'
BY DEF GenerationsInv

\* After a step too.
LEMMA TypesAfter ==
  ASSUME TypeInv, [Next]_vars
  PROVE  LedgerType' /\ PartType' /\ RestType' /\ AuditorType'
<1>1. TypeInv'
  BY TypeStep
<1> QED BY <1>1, Parts, PTL

\* The steps of a run and the auditor keep the order of generations.
LEMMA GenerationsStep ==
  ASSUME TypeInv, GenerationsInv, OrderInv, [Next]_vars
  PROVE  GenerationsInv'
<1>1. RestType /\ RestType'
  BY Parts, TypesAfter
<1>2. CASE RunStep
  <2>1. ASSUME NEW g \in Generations, EnsureMainRun(g) PROVE GenerationsInv'
    <3>1. /\ \A h \in Generations : status'[h] = IF h = g THEN "building" ELSE status[h]
          /\ run' = g /\ run = NoGeneration /\ queue' = queue /\ overflow' = overflow
          /\ status[g] = "none" /\ \A h \in Generations : h < g => status[h] # "none"
      BY <1>1, <2>1 DEF EnsureMainRun, RestType
    <3>2. \A h \in Generations : status[h] # "building"
      BY <3>1, GenerationOrder DEF GenerationsInv
    <3>3. \A row \in AllRows : row.source # "global"
      BY <3>1, AllRowsType, GenerationOrder DEF GenerationsInv
    <3>4. \A h \in Generations : status'[h] = "building" <=> run' = h
      BY <3>1, <3>2
    <3>5. ASSUME NEW h \in Generations, NEW k \in Generations, h < k,
                 status'[h] \in {"none", "building"}
          PROVE  status'[k] = "none"
      <4>1. status[h] = "none"
        BY <3>1, <3>2, <3>5
      <4>2. status[k] = "none"
        BY <3>5, <4>1 DEF GenerationsInv
      <4>3. k # g
        BY <3>1, <3>5, <4>1
      <4> QED BY <3>1, <4>2, <4>3
    <3>6. AllRows' = AllRows
      BY <3>1 DEF AllRows
    <3> QED BY <3>3, <3>4, <3>5, <3>6 DEF GenerationsInv
  <2>2. ASSUME NEW us \in SUBSET Users, ApplyEnumerationShardPage(us) PROVE GenerationsInv'
    <3>1. run' = run /\ status' = status
          /\ \A row \in AllRows' : row \in AllRows \/ row.gen = run
      BY <2>2 DEF ApplyEnumerationShardPage, AllRows, GlobalRow
    <3> QED BY <1>1, <3>1, GenerationsStill DEF RestType
  <2>3. ASSUME EnumerationEnds PROVE GenerationsInv'
    BY <1>1, <2>3, GenerationsStill DEF EnumerationEnds, RestType, AllRows
  <2>4. ASSUME MaybeCompleteMain PROVE GenerationsInv'
    <3>1. PICK g \in Generations : g = run
      BY <1>1, <2>4 DEF MaybeCompleteMain, RestType
    <3>2. /\ \A h \in Generations : h # g => status'[h] = status[h]
          /\ status'[g] \in {"unresolved", "auditing"}
          /\ run' = NoGeneration /\ queue' = queue /\ overflow' = overflow
          /\ \A row \in AllRows : row.source = "global" => row.gen # g
      BY <1>1, <2>4, <3>1 DEF MaybeCompleteMain, RestType, AllRows
    <3>3. \A h \in Generations : status[h] = "building" <=> h = g
      BY <3>1 DEF GenerationsInv
    <3>4. \A h \in Generations : status'[h] # "building"
      BY <3>2, <3>3
    <3>5. \A row \in AllRows : row.source # "global"
      BY <3>1, <3>2 DEF GenerationsInv
    <3>6. ASSUME NEW h \in Generations, NEW k \in Generations, h < k,
                 status'[h] \in {"none", "building"}
          PROVE  status'[k] = "none"
      <4>1. h # g /\ status[h] = "none"
        BY <3>2, <3>4, <3>6
      <4>2. status[k] = "none"
        BY <3>6, <4>1 DEF GenerationsInv
      <4>3. k # g
        BY <3>3, <4>2
      <4> QED BY <3>2, <4>2, <4>3
    <3>7. AllRows' = AllRows
      BY <3>2 DEF AllRows
    <3>8. \A h \in Generations : run' # h
      BY <3>2, GenerationOrder
    <3> QED BY <3>4, <3>5, <3>6, <3>7, <3>8 DEF GenerationsInv
  <2> QED BY <1>2, <2>1, <2>2, <2>3, <2>4 DEF RunStep
<1>3. CASE WorkerStep
  <2>1. run' = run /\ status' = status /\ AllRows' \subseteq AllRows
    BY <1>3 DEF WorkerStep, CompleteAccount, MoveToOverflow, CompleteInaccessible,
                CompleteOverflow, AllRows
  <2> QED BY <1>1, <2>1, GenerationsStill DEF RestType
<1>4. CASE AuditorStep
  <2>1. ASSUME StageCoveragePartition PROVE GenerationsInv'
    <3>1. PICK g \in Generations : g = auditor.gen
      BY <2>1, Parts, AuditorTyped DEF StageCoveragePartition
    <3>2. run' = run /\ \A row \in AllRows' : row.source = "global" => row \in AllRows
      BY <2>1 DEF StageCoveragePartition, AllRows, Inserted, ReconcileRow
    <3>3. \A h \in Generations : status'[h] # status[h] => h = g /\ status'[h] = "repairing"
      BY <1>1, <2>1, <3>1 DEF StageCoveragePartition, RestType
    <3>4. Auditable(g)
      BY <2>1, <3>1 DEF StageCoveragePartition, OrderInv
    <3> QED BY <1>1, <3>2, <3>3, <3>4, GenerationsStill DEF RestType, Auditable
  <2>2. ASSUME FinalizeCoverageGeneration PROVE GenerationsInv'
    <3>1. PICK g \in Generations : g = auditor.gen
      BY <2>2, Parts, AuditorTyped DEF FinalizeCoverageGeneration
    <3>2. run' = run /\ AllRows' = AllRows
      BY <2>2 DEF FinalizeCoverageGeneration, AllRows
    <3>3. \A h \in Generations : status'[h] # status[h] => h = g /\ status'[h] \in Final
      BY <1>1, <2>2, <3>1 DEF FinalizeCoverageGeneration, RestType, Final
    <3>4. Auditable(g)
      BY <2>2, <3>1 DEF FinalizeCoverageGeneration, OrderInv
    <3> QED BY <1>1, <3>2, <3>3, <3>4, GenerationsStill DEF RestType, Auditable, Final
  <2>3. ASSUME ~StageCoveragePartition, ~FinalizeCoverageGeneration PROVE GenerationsInv'
    <3>1. run' = run /\ status' = status /\ AllRows' = AllRows
      BY <1>4, <2>3 DEF AuditorStep, EnsureCoveragePartitions, ClaimCoveragePartition,
           CountPartitions, RetryCoveragePartition, MarkCoverageCountConsistent,
           SplitCoveragePartition, CountDiffers, EnumerateSearchPartition, AllRows
    <3> QED BY <1>1, <3>1, GenerationsStill DEF RestType
  <2> QED BY <2>1, <2>2, <2>3
<1>5. CASE Abandon \/ (\E u \in Users : Vanish(u)) \/ UNCHANGED vars
  <2>1. run' = run /\ status' = status /\ AllRows' = AllRows
    BY <1>5 DEF Abandon, Vanish, vars, AllRows
  <2> QED BY <1>1, <2>1, GenerationsStill DEF RestType
<1> QED BY <1>2, <1>3, <1>4, <1>5 DEF Next
-----------------------------------------------------------------------------
(* One generation has partitions that are active *)

\* Of the generations that have partitions, all but the last are final.
LEMMA OneAudited ==
  ASSUME OrderInv, NEW g \in Generations, NEW h \in Generations,
         HasParts(g), HasParts(h), Auditable(g), Auditable(h)
  PROVE  g = h
<1>1. status[g] \notin Final /\ status[h] \notin Final
  BY DEF Auditable, Final
<1> QED BY <1>1, GenerationOrder DEF OrderInv

\* Neither statuses nor partitions change, and the auditor goes on or stops.
LEMMA OrderStill ==
  ASSUME OrderInv, status' = status, part' = part,
         \/ auditor' = auditor
         \/ auditor'.phase = "idle"
         \/ /\ auditor.phase # "idle" /\ auditor'.gen = auditor.gen
            /\ auditor'.phase # "finalizing"
  PROVE  OrderInv'
<1>1. \A g \in Generations : HasParts(g)' <=> HasParts(g)
  BY DEF HasParts
<1>2. \A g : Auditable(g)' <=> Auditable(g)
  BY DEF Auditable
<1>3. CASE auditor' = auditor
  BY <1>3 DEF OrderInv, HasParts, Auditable
<1>4. CASE auditor'.phase = "idle"
  BY <1>1, <1>2, <1>4 DEF OrderInv
<1>5. CASE auditor.phase # "idle" /\ auditor'.gen = auditor.gen /\ auditor'.phase # "finalizing"
  <2>1. Auditable(auditor.gen)' /\ HasParts(auditor.gen)'
    BY <1>5 DEF OrderInv, HasParts, Auditable
  <2> QED BY <1>1, <1>2, <1>5, <2>1 DEF OrderInv
<1> QED BY <1>3, <1>4, <1>5

\* The generation that is audited changes.
LEMMA OrderKept ==
  ASSUME OrderInv, NEW g \in Generations, Auditable(g),
         status'[g] \in {"auditing", "repairing"},
         \A h \in Generations : h # g => status'[h] = status[h],
         \A h \in Generations : h < g => status[h] \in Final,
         \A h \in Generations, r \in Ranges :
           h # g => part'[h][r].status = part[h][r].status,
         \E r \in Ranges : part'[g][r].status # "none",
         auditor'.phase = "idle" \/ (auditor'.gen = g /\ auditor'.phase # "finalizing")
  PROVE  OrderInv'
<1>1. \A h \in Generations : h # g => /\ HasParts(h)' <=> HasParts(h)
                                      /\ Auditable(h)' <=> Auditable(h)
  BY DEF HasParts, Auditable
<1>2. Auditable(g)' /\ HasParts(g)' /\ status[g] \notin Final
  BY DEF HasParts, Auditable, Final
<1>3. auditor'.phase # "idle" => Auditable(auditor.gen)' /\ HasParts(auditor.gen)'
  BY <1>2 DEF Auditable, HasParts
<1>4. \A h \in Generations : HasParts(h)' => status'[h] \in Final \/ Auditable(h)'
  BY <1>1, <1>2 DEF OrderInv
<1>5. ASSUME NEW h \in Generations, NEW k \in Generations, h < k, HasParts(k)'
      PROVE  status'[h] \in Final
  <2>1. CASE k = g
    <3>1. h # g
      BY <1>5, <2>1, GenerationOrder
    <3> QED BY <1>5, <2>1, <3>1
  <2>2. CASE k # g
    <3>1. HasParts(k)
      BY <1>1, <1>5, <2>2
    <3>2. status[h] \in Final
      BY <1>5, <3>1 DEF OrderInv
    <3>3. h # g
      BY <1>2, <3>2
    <3> QED BY <3>2, <3>3
  <2> QED BY <2>1, <2>2
<1>6. ASSUME NEW h \in Generations, NEW r \in Ranges, part'[h][r].status \in Active
      PROVE  Auditable(h)'
  <2>1. CASE h = g
    BY <1>2, <2>1
  <2>2. CASE h # g
    BY <1>1, <1>6, <2>2 DEF OrderInv
  <2> QED BY <2>1, <2>2
<1>7. auditor'.phase # "finalizing"
  OBVIOUS
<1> QED BY <1>3, <1>4, <1>5, <1>6, <1>7 DEF OrderInv

\* The auditor changes the partition that it holds, or claims one.
LEMMA OrderOfHeld ==
  ASSUME TypeInv, OrderInv, auditor.phase # "idle",
         NEW r \in Ranges, NEW s \in PartStatuses \ {"none"}, NEW R, Changes(auditor.gen, r, s, R),
         status'[auditor.gen] \in {"repairing", status[auditor.gen]},
         \A h \in Generations : h # auditor.gen => status'[h] = status[h],
         auditor'.phase = "idle" \/ (auditor'.gen = auditor.gen /\ auditor'.phase # "finalizing")
  PROVE  OrderInv'
<1>1. PICK g \in Generations : g = auditor.gen
  BY Parts, AuditorTyped
<1>2. Auditable(g) /\ HasParts(g)
  BY <1>1 DEF OrderInv
<1>3. status'[g] \in {"auditing", "repairing"}
  BY <1>1, <1>2 DEF Auditable
<1>4. \A h \in Generations : h < g => status[h] \in Final
  BY <1>2 DEF OrderInv
<1>5. \A h \in Generations, q \in Ranges : h # g => part'[h][q].status = part[h][q].status
  BY <1>1 DEF Changes
<1>6. part'[g][r].status # "none"
  BY <1>1 DEF Changes
<1> QED BY <1>1, <1>2, <1>3, <1>4, <1>5, <1>6, OrderKept

\* A partition under repair is resolved.
LEMMA OrderOfResolved ==
  ASSUME TypeInv, OrderInv, NEW g \in Generations, NEW r \in Ranges,
         part[g][r].status \in {"repairing", "resolved"}, Changes(g, r, "resolved", {}),
         status' = status, auditor' = auditor
  PROVE  OrderInv'
<1>1. \A h \in Generations, q \in Ranges :
        \/ part'[h][q].status = part[h][q].status
        \/ part[h][q].status \in {"repairing", "resolved"} /\ part'[h][q].status = "resolved"
  BY DEF Changes
<1>2. \A h \in Generations : /\ HasParts(h)' <=> HasParts(h)
                             /\ Auditable(h)' <=> Auditable(h)
  BY <1>1 DEF HasParts, Auditable
<1>3. auditor'.phase # "idle" => Auditable(auditor.gen)' /\ HasParts(auditor.gen)'
  <2> SUFFICES ASSUME auditor.phase # "idle"
               PROVE  Auditable(auditor.gen)' /\ HasParts(auditor.gen)'
    OBVIOUS
  <2>1. PICK h \in Generations : h = auditor.gen
    BY Parts, AuditorTyped
  <2>2. Auditable(h) /\ HasParts(h)
    BY <2>1 DEF OrderInv
  <2>3. Auditable(h)' /\ HasParts(h)' /\ auditor'.gen = h
    BY <1>2, <2>1, <2>2
  <2> QED BY <2>3 DEF Auditable, HasParts
<1>4. \A h \in Generations, q \in Ranges : part'[h][q].status \in Active => part[h][q].status \in Active
  BY <1>1 DEF Active
<1>5. ASSUME auditor'.phase = "finalizing", NEW q \in Ranges
      PROVE  /\ part'[auditor'.gen][q].status \notin Active
             /\ auditor'.unresolved = 0 => part'[auditor'.gen][q].status # "unresolved"
  <2>1. PICK h \in Generations : h = auditor.gen
    BY <1>5, Parts, AuditorTyped
  <2>2. /\ part[h][q].status \notin Active
        /\ auditor.unresolved = 0 => part[h][q].status # "unresolved"
    BY <1>5, <2>1 DEF OrderInv
  <2>3. /\ part'[h][q].status \notin Active
        /\ auditor.unresolved = 0 => part'[h][q].status # "unresolved"
    BY <1>1, <1>4, <2>2
  <2> QED BY <2>1, <2>3
<1> QED BY <1>2, <1>3, <1>4, <1>5 DEF OrderInv
\* A row that is settled leaves its partition as it is, or resolved.
LEMMA OrderOfSettled ==
  ASSUME TypeInv, TilingInv, OrderInv, NEW row \in AllRows, Resolve(row),
         status' = status, auditor' = auditor
  PROVE  OrderInv'
<1>1. CASE part' = part
  BY <1>1, OrderStill
<1>2. CASE part' # part
  <2>1. /\ row.range # NoRange /\ row.gen \in Generations /\ row.range \in Ranges
        /\ Changes(row.gen, row.range, "resolved", {})
    BY <1>2, OtherChanges
  <2>2. part[row.gen][row.range].status \in {"repairing", "resolved"}
    BY <2>1 DEF TilingInv, RowInv, AllRows
  <2> QED BY <2>1, <2>2, OrderOfResolved
<1> QED BY <1>1, <1>2

\* The steps of a run: the generation of a run has no partitions.
LEMMA OrderOfRun ==
  ASSUME TypeInv, GenerationsInv, OrderInv, RunStep
  PROVE  OrderInv'
<1>1. RestType
  BY Parts
<1>2. ASSUME NEW g \in Generations, status[g] \in {"none", "building"},
             status'[g] \in Statuses,
             \A h \in Generations : h # g => status'[h] = status[h],
             part' = part, auditor' = auditor,
             status'[g] = "building" \/ \A h \in Generations : h < g => status[h] \notin {"none", "building"}
      PROVE  OrderInv'
  <2>1. ~Auditable(g) /\ status[g] \notin Final /\ ~HasParts(g)
    BY <1>2 DEF OrderInv, Auditable, Final
  <2>2. \A h \in Generations : HasParts(h)' <=> HasParts(h)
    BY <1>2 DEF HasParts
  <2>3. \A h \in Generations : h # g => (Auditable(h)' <=> Auditable(h))
    BY <1>2 DEF Auditable
  <2>4. auditor'.phase # "idle" => Auditable(auditor.gen)' /\ HasParts(auditor.gen)'
    <3> SUFFICES ASSUME auditor.phase # "idle"
                 PROVE  Auditable(auditor.gen)' /\ HasParts(auditor.gen)'
      BY <1>2
    <3>1. PICK h \in Generations : h = auditor.gen
      BY Parts, AuditorTyped
    <3>2. Auditable(h) /\ HasParts(h)
      BY <3>1 DEF OrderInv
    <3>3. Auditable(h)' /\ HasParts(h)' /\ auditor'.gen = h
      BY <1>2, <2>1, <2>2, <2>3, <3>1, <3>2
    <3> QED BY <3>3 DEF Auditable, HasParts
  <2>5. \A h \in Generations : HasParts(h)' => status'[h] \in Final \/ Auditable(h)'
    BY <1>2, <2>1, <2>2, <2>3 DEF OrderInv
  <2>6. \A h, k \in Generations : h < k /\ HasParts(k)' => status'[h] \in Final
    BY <1>2, <2>1, <2>2 DEF OrderInv
  <2>7. \A h \in Generations, r \in Ranges : part'[h][r].status \in Active => Auditable(h)'
    BY <1>2, <2>1, <2>3 DEF OrderInv
  <2>8. auditor'.phase = "finalizing" =>
          \A r \in Ranges :
            /\ part'[auditor'.gen][r].status \notin Active
            /\ auditor'.unresolved = 0 => part'[auditor'.gen][r].status # "unresolved"
    BY <1>2 DEF OrderInv
  <2> QED BY <2>4, <2>5, <2>6, <2>7, <2>8 DEF OrderInv
<1>3. ASSUME NEW g \in Generations, EnsureMainRun(g) PROVE OrderInv'
  BY <1>1, <1>2, <1>3 DEF EnsureMainRun, RestType, partitions, Statuses
<1>4. ASSUME MaybeCompleteMain PROVE OrderInv'
  <2>1. PICK g \in Generations : g = run
    BY <1>1, <1>4 DEF MaybeCompleteMain, RestType
  <2>2. status[g] = "building"
    BY <2>1 DEF GenerationsInv
  <2>3. \A h \in Generations : h < g => status[h] \notin {"none", "building"}
    BY <2>2 DEF GenerationsInv
  <2> QED BY <1>1, <1>2, <1>4, <2>1, <2>2, <2>3 DEF MaybeCompleteMain, RestType, partitions, Statuses
<1>5. ASSUME EnumerationEnds \/ \E us \in SUBSET Users : ApplyEnumerationShardPage(us)
      PROVE  OrderInv'
  BY <1>5, OrderStill DEF EnumerationEnds, ApplyEnumerationShardPage, partitions
<1> QED BY <1>3, <1>4, <1>5 DEF RunStep

\* The oldest generation to audit gets its days.
LEMMA OrderOfDays ==
  ASSUME TypeInv, GenerationsInv, OrderInv, NEW g \in Generations, EnsureCoveragePartitions(g)
  PROVE  OrderInv'
<1>1. Auditable(g) /\ \A h \in Generations : h < g => ~Auditable(h)
  BY DEF EnsureCoveragePartitions
<1>2. ASSUME NEW h \in Generations, h < g PROVE status[h] \in Final
  <2>1. status[h] \notin {"none", "building"}
    BY <1>1, <1>2 DEF GenerationsInv, Auditable
  <2> QED BY <1>1, <1>2, <2>1, Parts DEF RestType, Statuses, Auditable, Final
<1>3. \A h \in Generations, q \in Ranges :
        part'[h][q].status =
          IF h = g /\ q \in {WholeDay(d) : d \in Days} /\ part[h][q].status = "none"
          THEN "pending" ELSE part[h][q].status
  BY OtherChanges
<1>4. \A h \in Generations, q \in Ranges : h # g => part'[h][q].status = part[h][q].status
  BY <1>3
<1>5. \E q \in Ranges : part'[g][q].status # "none"
  <2>1. 0 \in 0 .. Cutoff
    BY ConstantsAssumption
  <2>2. PICK d \in Days : d = Day(0)
    BY <2>1, DayIn
  <2>3. WholeDay(d) \in Ranges
    BY DayOf
  <2> QED BY <1>3, <2>3
<1>6. status' = status /\ auditor'.gen = g /\ auditor'.phase # "finalizing"
  BY Parts DEF EnsureCoveragePartitions, AuditorType, Auditors
<1>7. status'[g] \in {"auditing", "repairing"}
  BY <1>1, <1>6 DEF Auditable
<1> QED BY <1>1, <1>2, <1>4, <1>5, <1>6, <1>7, OrderKept

\* The generation is final: its partitions are counted.
LEMMA OrderOfFinal ==
  ASSUME TypeInv, OrderInv, FinalizeCoverageGeneration
  PROVE  OrderInv'
<1>1. PICK g \in Generations : g = auditor.gen
  BY Parts, AuditorTyped DEF FinalizeCoverageGeneration
<1>2. /\ \A h \in Generations : h # g => status'[h] = status[h]
      /\ status'[g] \in Final /\ part' = part /\ auditor'.phase = "idle"
  <2>1. status' = [status EXCEPT ![g] = IF auditor.unresolved > 0 THEN "unresolved"
                                       ELSE "count_reconciled"]
    BY <1>1 DEF FinalizeCoverageGeneration
  <2>2. status \in [Generations -> Statuses]
    BY Parts DEF RestType
  <2>3. \A h \in Generations : h # g => status'[h] = status[h]
    BY <2>1, <2>2
  <2>4. status'[g] \in {"unresolved", "count_reconciled"}
    BY <2>1, <2>2
  <2>5. part' = part /\ auditor'.phase = "idle"
    BY DEF FinalizeCoverageGeneration, partitions, Idle
  <2> QED BY <2>3, <2>4, <2>5 DEF Final
<1>3. \A r \in Ranges : part[g][r].status \notin Active
  BY <1>1 DEF FinalizeCoverageGeneration, OrderInv
<1>4. \A h \in Generations : /\ HasParts(h)' <=> HasParts(h)
                             /\ h # g => (Auditable(h)' <=> Auditable(h))
  BY <1>2 DEF HasParts, Auditable
<1> QED BY <1>2, <1>3, <1>4 DEF OrderInv

\* Ranges are finite sets.
LEMMA RangesAreFinite ==
  ASSUME NEW rs \in SUBSET Ranges
  PROVE  IsFiniteSet(rs)
<1>1. IsFiniteSet((0 .. Cutoff) \X (0 .. Cutoff))
  <2>1. 0 \in Int /\ Cutoff \in Int
    BY ConstantsAssumption
  <2>2. IsFiniteSet(0 .. Cutoff)
    BY <2>1, FS_Interval
  <2> QED BY <2>2, FS_Product
<1>2. rs \subseteq (0 .. Cutoff) \X (0 .. Cutoff)
  BY DEF Ranges
<1> QED BY <1>1, <1>2, FS_Subset

\* No partition is due: the unresolved ones are counted.
LEMMA OrderOfCount ==
  ASSUME TypeInv, OrderInv, CountPartitions
  PROVE  OrderInv'
<1>1. PICK g \in Generations : g = auditor.gen
  BY Parts, AuditorTyped DEF CountPartitions
<1> DEFINE of(set) == {r \in Ranges : part[g][r].status \in set}
<1>2. /\ status' = status /\ part' = part
      /\ auditor' = IF of(Active) # {} THEN Idle
                    ELSE [auditor EXCEPT !.phase = "finalizing",
                            !.unresolved = Cardinality(of({"unresolved"}))]
  BY <1>1 DEF CountPartitions, partitions
<1>3. CASE of(Active) # {}
  BY <1>2, <1>3, OrderStill DEF Idle
<1>4. CASE of(Active) = {}
  <2>1. auditor'.gen = g /\ auditor'.unresolved = Cardinality(of({"unresolved"}))
    BY <1>1, <1>2, <1>4, Parts DEF AuditorType, Auditors
  <2>2. IsFiniteSet(of({"unresolved"}))
    BY RangesAreFinite
  <2>3. auditor'.unresolved = 0 => of({"unresolved"}) = {}
    BY <2>1, <2>2, FS_EmptySet
  <2>4. \A r \in Ranges : /\ part'[auditor'.gen][r].status \notin Active
                          /\ auditor'.unresolved = 0 => part'[auditor'.gen][r].status # "unresolved"
    BY <1>2, <1>4, <2>1, <2>3
  <2>5. \A h \in Generations : HasParts(h)' <=> HasParts(h)
    BY <1>2 DEF HasParts
  <2>6. \A h : Auditable(h)' <=> Auditable(h)
    BY <1>2 DEF Auditable
  <2>7. Auditable(g) /\ HasParts(g)
    BY <1>1 DEF CountPartitions, OrderInv
  <2>8. Auditable(auditor.gen)' /\ HasParts(auditor.gen)'
    BY <1>2, <2>1, <2>7 DEF Auditable, HasParts
  <2> QED BY <1>2, <2>4, <2>5, <2>6, <2>8 DEF OrderInv
<1> QED BY <1>3, <1>4

\* Every step keeps the order of the audits.
LEMMA OrderStep ==
  ASSUME TypeInv, TilingInv, GenerationsInv, OrderInv, [Next]_vars
  PROVE  OrderInv'
<1>1. PartType /\ RestType /\ AuditorType
  BY Parts
<1>2. CASE WorkerStep
  <2>1. ASSUME NEW row \in AllRows, Resolve(row), status' = status, auditor' = auditor
        PROVE  OrderInv'
    BY <2>1, OrderOfSettled
  <2> QED BY <1>2, <2>1, OrderStill DEF WorkerStep, CompleteAccount, MoveToOverflow,
            CompleteInaccessible, CompleteOverflow, AllRows, partitions
<1>3. CASE AuditorStep
  <2> USE DEF PartStatuses
  <2>1. ASSUME NEW r \in Ranges, ClaimCoveragePartition(r) PROVE OrderInv'
    <3>1. auditor.phase # "idle" /\ status' = status
          /\ auditor'.gen = auditor.gen /\ auditor'.phase # "finalizing"
      BY <1>1, <2>1 DEF ClaimCoveragePartition, AuditorType, Auditors
    <3> QED BY <2>1, <3>1, OtherChanges, OrderOfHeld
  <2>2. ASSUME Held, auditor' = Idle, NEW s \in PartStatuses \ {"none"}, NEW R,
               Changes(auditor.gen, auditor.range, s, R),
               \/ status' = status
               \/ status' = [status EXCEPT ![auditor.gen] = "repairing"]
        PROVE  OrderInv'
    <3>1. auditor.gen \in Generations /\ auditor.range \in Ranges /\ auditor.phase # "idle"
      BY <2>2, HeldChanges DEF Held
    <3>2. /\ status'[auditor.gen] \in {"repairing", status[auditor.gen]}
          /\ \A h \in Generations : h # auditor.gen => status'[h] = status[h]
      BY <1>1, <2>2, <3>1 DEF RestType
    <3> QED BY <2>2, <3>1, <3>2, OrderOfHeld DEF Idle
  <2>3. ASSUME RetryCoveragePartition PROVE OrderInv'
    BY <2>2, <2>3, HeldChanges DEF RetryCoveragePartition
  <2>4. ASSUME MarkCoverageCountConsistent PROVE OrderInv'
    BY <2>2, <2>4, HeldChanges DEF MarkCoverageCountConsistent, Held
  <2>5. ASSUME NEW incomplete \in BOOLEAN, SplitCoveragePartition(incomplete) PROVE OrderInv'
    BY <2>2, <2>5, HeldChanges DEF SplitCoveragePartition, Held
  <2>6. ASSUME StageCoveragePartition PROVE OrderInv'
    BY <2>2, <2>6, HeldChanges DEF StageCoveragePartition, Held
  <2>7. ASSUME CountDiffers \/ EnumerateSearchPartition PROVE OrderInv'
    <3>1. auditor.phase # "idle" /\ auditor'.gen = auditor.gen /\ auditor'.phase # "finalizing"
      BY <1>1, <2>7 DEF CountDiffers, EnumerateSearchPartition, AuditorType, Auditors
    <3> QED BY <2>7, <3>1, OrderStill DEF CountDiffers, EnumerateSearchPartition, partitions
  <2> QED BY <1>3, <2>1, <2>3, <2>4, <2>5, <2>6, <2>7, OrderOfDays, OrderOfFinal, OrderOfCount
          DEF AuditorStep
<1>4. CASE Abandon \/ (\E u \in Users : Vanish(u)) \/ UNCHANGED vars
  BY <1>4, OrderStill DEF Abandon, Vanish, vars, partitions, Idle
<1> QED BY <1>2, <1>3, <1>4, OrderOfRun DEF Next
-----------------------------------------------------------------------------
(* Repairs are tracked *)

\* A row that is no main run's is of a partition and in one queue; what a
\* partition staged was created in it.
RowsInv ==
  /\ \A row \in AllRows : row.range # NoRange <=> row.source = "reconcile"
  /\ \A row \in queue \cap overflow : row.range = NoRange
  /\ \A g \in Generations, r \in Ranges :
       staged[g][r] \subseteq CreatedIn(r) /\ settled[g][r] \subseteq staged[g][r]
  /\ \A g \in Generations, r \in Ranges :
       staged[g][r] # {} => part[g][r].status \in {"repairing", "resolved"}
  /\ auditor.phase = "listed" => auditor.found \subseteq CreatedIn(auditor.range)

TrackingInv == RowsInv /\ RepairsAreTracked

\* A range is not the range of a main run's row.
LEMMA RangeIsRange == \A r \in Ranges : r # NoRange
<1> SUFFICES ASSUME NEW r \in Ranges PROVE r # <<>>
  BY DEF NoRange
<1>1. r = <<r[1], r[2]>>
  BY DEF Ranges
<1>2. \A a, b : <<a, b>> # <<>>
  OBVIOUS
<1> QED BY <1>1, <1>2

Done(s) == s \in {"repairing", "resolved"}

\* Steps that leave the rows of partitions and what these staged alone.
LEMMA TrackingStill ==
  ASSUME TypeInv, TrackingInv, staged' = staged, settled' = settled,
         \A g \in Generations : /\ bits[g]["successful"] \subseteq bits'[g]["successful"]
                                /\ bits[g]["inaccessible"] \subseteq bits'[g]["inaccessible"],
         \A row \in AllRows' : row \in AllRows \/ (row.range = NoRange /\ row.source = "global"),
         \A row \in AllRows : row.range # NoRange => row \in AllRows',
         \A row \in (queue \cap overflow)' : row.range = NoRange \/ row \in queue \cap overflow,
         \A g \in Generations, r \in Ranges :
           \/ part'[g][r].status = part[g][r].status
           \/ ~Done(part[g][r].status) /\ ~Done(part'[g][r].status),
         auditor'.phase = "listed" => auditor'.found \subseteq CreatedIn(auditor'.range)
  PROVE  TrackingInv'
<1>1. ASSUME NEW g \in Generations, NEW r \in Ranges
      PROVE  RowsOf(g, r)' = RowsOf(g, r)
  <2>1. r # NoRange
    BY RangeIsRange
  <2> QED BY <2>1 DEF RowsOf, AllRows
<1>2. RepairsAreTracked'
  <2> SUFFICES ASSUME NEW g \in Generations, NEW r \in Ranges
               PROVE  /\ {row.user : row \in RowsOf(g, r)'} = staged'[g][r] \ settled'[g][r]
                      /\ (part'[g][r].status = "repairing") <=> (RowsOf(g, r)' # {})
                      /\ settled'[g][r] \subseteq bits'[g]["successful"] \cup bits'[g]["inaccessible"]
    BY DEF RepairsAreTracked
  <2>1. /\ {row.user : row \in RowsOf(g, r)} = staged[g][r] \ settled[g][r]
        /\ (part[g][r].status = "repairing") <=> (RowsOf(g, r) # {})
        /\ settled[g][r] \subseteq bits[g]["successful"] \cup bits[g]["inaccessible"]
    BY DEF TrackingInv, RepairsAreTracked
  <2>2. RowsOf(g, r)' = RowsOf(g, r)
    BY <1>1
  <2>3. part'[g][r].status = "repairing" <=> part[g][r].status = "repairing"
    BY DEF Done
  <2> QED BY <2>1, <2>2, <2>3
<1>3. RowsInv'
  <2>1. \A g \in Generations, r \in Ranges : Done(part[g][r].status) => Done(part'[g][r].status)
    OBVIOUS
  <2>2. /\ \A row \in AllRows' : row.range # NoRange <=> row.source = "reconcile"
        /\ \A row \in (queue \cap overflow)' : row.range = NoRange
    BY DEF TrackingInv, RowsInv
  <2>3. \A g \in Generations, r \in Ranges :
          /\ staged'[g][r] \subseteq CreatedIn(r) /\ settled'[g][r] \subseteq staged'[g][r]
          /\ staged'[g][r] # {} => part'[g][r].status \in {"repairing", "resolved"}
    BY <2>1 DEF TrackingInv, RowsInv, Done
  <2> QED BY <2>2, <2>3 DEF RowsInv, AllRows
<1> QED BY <1>2, <1>3 DEF TrackingInv

\* A marked bitmap grows.
LEMMA MarkGrows ==
  ASSUME TypeInv, NEW g \in Generations, NEW map \in Bitmaps, NEW us, Mark(g, map, us)
  PROVE  /\ \A h \in Generations : \A m \in Bitmaps : bits[h][m] \subseteq bits'[h][m]
         /\ us \subseteq bits'[g][map]
<1>1. bits' = [bits EXCEPT ![g][map] = bits[g][map] \cup us]
  BY DEF Mark
<1>2. bits \in [Generations -> [Bitmaps -> SUBSET Users]]
  BY Parts DEF LedgerType
<1> QED BY <1>1, <1>2

\* The row of a partition is known by three of its fields.
LEMMA RowOfPartition ==
  ASSUME TypeInv, RowsInv, NEW row \in AllRows, row.range # NoRange
  PROVE  row = ReconcileRow(row.gen, row.range, row.user)
<1>1. row \in Rows /\ row.source = "reconcile"
  BY AllRowsType DEF RowsInv
<1> QED BY <1>1 DEF Rows, ReconcileRow

\* A row of a partition is settled, for one of its bitmaps, and deleted.
LEMMA TrackingOfSettled ==
  ASSUME TypeInv, TrackingInv, NEW row \in AllRows, row.range # NoRange,
         NEW map \in {"successful", "inaccessible"},
         Mark(row.gen, map, {row.user}), Resolve(row),
         AllRows' = AllRows \ {row}, (queue \cap overflow)' \subseteq queue \cap overflow,
         auditor' = auditor
  PROVE  TrackingInv'
<1> DEFINE g == row.gen
           r == row.range
           u == row.user
           done == settled[g][r] \cup ({u} \cap staged[g][r])
<1>1. g \in Generations /\ r \in Ranges /\ u \in Users
  BY AllRowsType
<1>2. row = ReconcileRow(g, r, u)
  BY RowOfPartition DEF TrackingInv
<1>3. row \in RowsOf(g, r)
  BY DEF RowsOf, AllRows
<1>4. /\ settled' = [settled EXCEPT ![g][r] = done]
      /\ part' = IF staged[g][r] \subseteq done
                 THEN [part EXCEPT ![g][r].status = "resolved"] ELSE part
      /\ staged' = staged
  BY DEF Resolve
<1>5. PartType /\ "resolved" \in PartStatuses
  BY Parts DEF PartStatuses
<1>6. Mark(g, map, {u}) /\ map \in Bitmaps
  BY DEF Bitmaps
<1> HIDE DEF g, r, u, done
<1>7. /\ {x.user : x \in RowsOf(g, r)} = staged[g][r] \ settled[g][r]
      /\ part[g][r].status = "repairing"
      /\ settled[g][r] \subseteq staged[g][r]
  BY <1>1, <1>3 DEF TrackingInv, RepairsAreTracked, RowsInv
<1>8. u \in staged[g][r] \ settled[g][r]
  BY <1>3, <1>7 DEF u
<1>9. done = settled[g][r] \cup {u}
  BY <1>8 DEF done
<1>10. ASSUME NEW x \in RowsOf(g, r), x.user = u PROVE x = row
  <2>1. x \in AllRows /\ x.gen = g /\ x.range = r
    BY DEF RowsOf, AllRows
  <2>2. x = ReconcileRow(g, r, u)
    BY <1>1, <1>10, <2>1, RangeIsRange, RowOfPartition DEF TrackingInv
  <2> QED BY <1>2, <2>2
<1>11. \A h \in Generations, q \in Ranges : RowsOf(h, q)' = RowsOf(h, q) \ {row}
  BY DEF RowsOf, AllRows
<1>12. \A h \in Generations, q \in Ranges :
         settled'[h][q] = IF h = g /\ q = r THEN done ELSE settled[h][q]
  BY <1>1, <1>4, <1>5 DEF PartType
<1>13. \A h \in Generations, q \in Ranges :
         part'[h][q].status = IF h = g /\ q = r /\ staged[g][r] \subseteq done THEN "resolved"
                              ELSE part[h][q].status
  <2>1. CASE staged[g][r] \subseteq done
    <3>1. part' = [part EXCEPT ![g][r].status = "resolved"]
      BY <1>4, <2>1
    <3>2. Changes(g, r, "resolved", {})
      BY <1>1, <1>5, <3>1, MoveChanges
    <3> QED BY <2>1, <3>2 DEF Changes
  <2>2. CASE ~(staged[g][r] \subseteq done)
    BY <1>4, <2>2
  <2> QED BY <2>1, <2>2
<1>14. \A h \in Generations : /\ bits[h]["successful"] \subseteq bits'[h]["successful"]
                              /\ bits[h]["inaccessible"] \subseteq bits'[h]["inaccessible"]
       /\ u \in bits'[g]["successful"] \cup bits'[g]["inaccessible"]
  <2>1. "successful" \in Bitmaps /\ "inaccessible" \in Bitmaps
    BY DEF Bitmaps
  <2>2. /\ \A h \in Generations : \A m \in Bitmaps : bits[h][m] \subseteq bits'[h][m]
        /\ {u} \subseteq bits'[g][map]
    BY <1>1, <1>6, MarkGrows
  <2>3. u \in bits'[g]["successful"] \cup bits'[g]["inaccessible"]
    BY <2>2
  <2> QED BY <2>1, <2>2, <2>3
<1>15. ASSUME NEW h \in Generations, NEW q \in Ranges
       PROVE  /\ {x.user : x \in RowsOf(h, q)'} = staged'[h][q] \ settled'[h][q]
              /\ (part'[h][q].status = "repairing") <=> (RowsOf(h, q)' # {})
              /\ settled'[h][q] \subseteq bits'[h]["successful"] \cup bits'[h]["inaccessible"]
  <2>1. /\ {x.user : x \in RowsOf(h, q)} = staged[h][q] \ settled[h][q]
        /\ (part[h][q].status = "repairing") <=> (RowsOf(h, q) # {})
        /\ settled[h][q] \subseteq bits[h]["successful"] \cup bits[h]["inaccessible"]
    BY DEF TrackingInv, RepairsAreTracked
  <2>2. CASE h = g /\ q = r
    <3>1. {x.user : x \in RowsOf(g, r) \ {row}} = {x.user : x \in RowsOf(g, r)} \ {u}
      BY <1>10 DEF u
    <3>2. {x.user : x \in RowsOf(g, r)'} = staged[g][r] \ done
      BY <1>1, <1>7, <1>9, <1>11, <3>1
    <3>3. (staged[g][r] \subseteq done) <=> (RowsOf(g, r)' = {})
      BY <3>2
    <3>4. part'[g][r].status = "repairing" <=> RowsOf(g, r)' # {}
      BY <1>1, <1>7, <1>13, <3>3
    <3>5. done \subseteq bits'[g]["successful"] \cup bits'[g]["inaccessible"]
      BY <1>1, <1>9, <1>14, <2>1, <2>2
    <3> QED BY <1>1, <1>4, <1>12, <2>2, <3>2, <3>4, <3>5
  <2>3. CASE ~(h = g /\ q = r)
    <3>1. row \notin RowsOf(h, q)
      BY <2>3 DEF RowsOf, g, r
    <3>2. RowsOf(h, q)' = RowsOf(h, q)
      BY <1>11, <3>1
    <3> QED BY <1>4, <1>12, <1>13, <1>14, <2>1, <2>3, <3>2
  <2> QED BY <2>2, <2>3
<1>16. RepairsAreTracked'
  BY <1>15 DEF RepairsAreTracked
<1>17. RowsInv'
  <2>1. /\ \A x \in AllRows' : x.range # NoRange <=> x.source = "reconcile"
        /\ \A x \in (queue \cap overflow)' : x.range = NoRange
    BY DEF TrackingInv, RowsInv
  <2>2. \A h \in Generations, q \in Ranges :
          /\ staged'[h][q] \subseteq CreatedIn(q) /\ settled'[h][q] \subseteq staged'[h][q]
          /\ staged'[h][q] # {} => part'[h][q].status \in {"repairing", "resolved"}
    BY <1>4, <1>8, <1>9, <1>12, <1>13 DEF TrackingInv, RowsInv
  <2>3. auditor'.phase = "listed" => auditor'.found \subseteq CreatedIn(auditor'.range)
    BY DEF TrackingInv, RowsInv
  <2> QED BY <2>1, <2>2, <2>3 DEF RowsInv, AllRows
<1> QED BY <1>16, <1>17 DEF TrackingInv
\* Two partitions that are claimed or under repair share no second, samples or
\* not.
LEMMA SharedSecond ==
  ASSUME NEW P, Tiled(P), NEW q \in Ranges, NEW r \in Ranges, NEW s \in 0 .. Cutoff,
         s \in Seconds(q), s \in Seconds(r),
         P[q].status \in {"enumerating", "repairing"}, P[r].status \in {"enumerating", "repairing"}
  PROVE  q = r
<1>1. ASSUME NEW x \in Ranges, P[x].sample, s \in Seconds(x)
      PROVE  /\ x = <<s, s>>
             /\ \E l \in Ranges : Leaf(P, l) /\ P[l].status = "count_consistent" /\ s \in Seconds(l)
  <2>1. x[1] = x[2] /\ x = <<x[1], x[2]>> /\ x[1] \in Int
    BY <1>1 DEF Tiled, Sampling, Ranges
  <2>2. s = x[1]
    BY <1>1, <2>1 DEF Seconds
  <2> QED BY <1>1, <2>1, <2>2 DEF Tiled, Sampling
<1>2. ASSUME NEW x \in Ranges, NEW y \in Ranges, P[x].sample, ~P[y].sample,
             s \in Seconds(x), s \in Seconds(y), P[y].status \in {"enumerating", "repairing"}
      PROVE  FALSE
  <2>1. PICK l \in Ranges : Leaf(P, l) /\ P[l].status = "count_consistent" /\ s \in Seconds(l)
    BY <1>1, <1>2
  <2>2. Leaf(P, y)
    BY <1>2 DEF Leaf
  <2>3. l = y
    BY <1>2, <2>1, <2>2 DEF Tiled, Disjoint
  <2> QED BY <1>2, <2>1, <2>3
<1>3. CASE P[q].sample /\ P[r].sample
  BY <1>1, <1>3
<1>4. CASE ~P[q].sample /\ ~P[r].sample
  <2>1. Leaf(P, q) /\ Leaf(P, r)
    BY <1>4 DEF Leaf
  <2> QED BY <2>1 DEF Tiled, Disjoint
<1> QED BY <1>2, <1>3, <1>4

\* The accounts that a partition misses have no row of another partition: it
\* would be of the same generation and share their second.
LEMMA MissingHaveNoRow ==
  ASSUME TypeInv, TilingInv, OrderInv, TrackingInv, auditor.phase = "listed",
         NEW row \in AllRows, row.source = "reconcile"
  PROVE  row.user \notin auditor.found
<1> SUFFICES ASSUME row.user \in auditor.found PROVE FALSE
  OBVIOUS
<1>1. PICK g \in Generations, r \in Ranges : g = auditor.gen /\ r = auditor.range
  BY HeldChanges DEF Held
<1>2. PICK h \in Generations, q \in Ranges : h = row.gen /\ q = row.range
  BY AllRowsType DEF TrackingInv, RowsInv
<1>3. PICK u \in Users : u = row.user
  BY AllRowsType
<1>4. row \in RowsOf(h, q)
  BY <1>2 DEF RowsOf, AllRows
<1>5. u \in staged[h][q] /\ part[h][q].status = "repairing"
  BY <1>2, <1>3, <1>4 DEF TrackingInv, RepairsAreTracked
<1>6. Created[u] \in Seconds(q) /\ Created[u] \in Seconds(r)
  <2>1. u \in CreatedIn(q)
    BY <1>5 DEF TrackingInv, RowsInv
  <2>2. u \in CreatedIn(r)
    BY <1>1, <1>3 DEF TrackingInv, RowsInv
  <2> QED BY <2>1, <2>2 DEF CreatedIn
<1>7. Created[u] \in 0 .. Cutoff
  BY <1>6, ConstantsAssumption DEF Ranges, Seconds
<1>8. part[g][r].status = "enumerating"
  BY <1>1 DEF TilingInv, HeldInv, Held
<1>9. HasParts(g) /\ HasParts(h) /\ Auditable(g) /\ Auditable(h)
  BY <1>5, <1>8 DEF OrderInv, HasParts, Active
<1>10. g = h
  BY <1>9, OneAudited
<1>11. Tiled(part[g])
  BY <1>8 DEF TilingInv, DaysInv, Fresh
<1>12. q = r
  BY <1>5, <1>6, <1>7, <1>8, <1>10, <1>11, SharedSecond
<1> QED BY <1>5, <1>8, <1>10, <1>12

\* A partition is staged, and a row inserted for each account it misses.
LEMMA TrackingOfStaged ==
  ASSUME TypeInv, TilingInv, OrderInv, TrackingInv, StageCoveragePartition
  PROVE  TrackingInv'
<1>1. PICK g \in Generations, r \in Ranges : g = auditor.gen /\ r = auditor.range
  BY HeldChanges DEF StageCoveragePartition, Held
<1> DEFINE found == auditor.found
           missing == Missing(g)
           new == Inserted(g, r)
           s == IF new # {} THEN "repairing" ELSE "resolved"
<1>2. missing = found \ bits[g]["successful"] /\ found \in SUBSET Users
  BY Parts, AuditorTyped DEF Missing, StageCoveragePartition
<1>3. new = {ReconcileRow(g, r, u) : u \in missing}
  <2>1. \A u \in missing : \A row \in queue : row.source = "reconcile" => row.user # u
    BY MissingHaveNoRow DEF StageCoveragePartition, AllRows, Missing
  <2>2. {v \in Missing(g) : \A row \in queue : row.source = "reconcile" => row.user # v} = missing
    BY <2>1
  <2> HIDE DEF missing
  <2> QED BY <2>2 DEF Inserted
<1>4. /\ staged' = [staged EXCEPT ![g][r] = found]
      /\ settled' = [settled EXCEPT ![g][r] = found \ missing]
      /\ Mark(g, "discovered", found)
      /\ queue' = queue \cup new /\ overflow' = overflow /\ auditor' = Idle
  BY <1>1 DEF StageCoveragePartition
<1>5. Changes(g, r, s, {})
  BY <1>1, HeldChanges DEF StageCoveragePartition
<1>6. part[g][r].status = "enumerating"
  BY <1>1 DEF TilingInv, HeldInv, Held, StageCoveragePartition
<1>7. found \subseteq CreatedIn(r)
  BY <1>1 DEF TrackingInv, RowsInv, StageCoveragePartition
<1> HIDE DEF found, missing, new, s
<1>8. PartType
  BY Parts
<1>9. /\ \A h \in Generations, q \in Ranges :
           staged'[h][q] = IF h = g /\ q = r THEN found ELSE staged[h][q]
      /\ \A h \in Generations, q \in Ranges :
           settled'[h][q] = IF h = g /\ q = r THEN found \ missing ELSE settled[h][q]
  BY <1>4, <1>8 DEF PartType
<1>10. \A h \in Generations, q \in Ranges :
         part'[h][q].status = IF h = g /\ q = r THEN s ELSE part[h][q].status
  BY <1>5 DEF Changes
<1>11. /\ \A row \in new : /\ row.source = "reconcile" /\ row.range = r /\ row.gen = g
                           /\ row.user \in missing
       /\ \A u \in missing : ReconcileRow(g, r, u) \in new /\ ReconcileRow(g, r, u).user = u
  BY <1>3 DEF ReconcileRow
<1>12. RowsOf(g, r) = {}
  BY <1>6 DEF TrackingInv, RepairsAreTracked
<1>13. ASSUME NEW h \in Generations, NEW q \in Ranges
       PROVE  RowsOf(h, q)' = IF h = g /\ q = r THEN new ELSE RowsOf(h, q)
  <2>1. CASE h = g /\ q = r
    BY <1>4, <1>11, <1>12, <2>1 DEF RowsOf
  <2>2. CASE ~(h = g /\ q = r)
    BY <1>4, <1>11, <2>2 DEF RowsOf
  <2> QED BY <2>1, <2>2
<1>14. \A h \in Generations : /\ bits[h]["successful"] \subseteq bits'[h]["successful"]
                              /\ bits[h]["inaccessible"] \subseteq bits'[h]["inaccessible"]
  <2>1. "successful" \in Bitmaps /\ "inaccessible" \in Bitmaps /\ "discovered" \in Bitmaps
    BY DEF Bitmaps
  <2>2. \A h \in Generations : \A m \in Bitmaps : bits[h][m] \subseteq bits'[h][m]
    BY <1>4, <2>1, MarkGrows
  <2> QED BY <2>1, <2>2
<1>15. ASSUME NEW h \in Generations, NEW q \in Ranges
       PROVE  /\ {row.user : row \in RowsOf(h, q)'} = staged'[h][q] \ settled'[h][q]
              /\ (part'[h][q].status = "repairing") <=> (RowsOf(h, q)' # {})
              /\ settled'[h][q] \subseteq bits'[h]["successful"] \cup bits'[h]["inaccessible"]
  <2>1. CASE h = g /\ q = r
    <3>1. {row.user : row \in new} = missing
      BY <1>11
    <3>2. missing \subseteq found /\ found \ missing \subseteq bits[g]["successful"]
      BY <1>2 DEF found
    <3>3. (s = "repairing") <=> (new # {})
      BY DEF s
    <3>4. found \ (found \ missing) = missing
      BY <3>2
    <3> QED BY <1>9, <1>10, <1>13, <1>14, <2>1, <3>1, <3>2, <3>3, <3>4
  <2>2. CASE ~(h = g /\ q = r)
    <3>1. /\ {row.user : row \in RowsOf(h, q)} = staged[h][q] \ settled[h][q]
          /\ (part[h][q].status = "repairing") <=> (RowsOf(h, q) # {})
          /\ settled[h][q] \subseteq bits[h]["successful"] \cup bits[h]["inaccessible"]
      BY DEF TrackingInv, RepairsAreTracked
    <3>2. /\ RowsOf(h, q)' = RowsOf(h, q) /\ staged'[h][q] = staged[h][q]
          /\ settled'[h][q] = settled[h][q] /\ part'[h][q].status = part[h][q].status
      BY <1>9, <1>10, <1>13, <2>2
    <3> QED BY <1>14, <3>1, <3>2
  <2> QED BY <2>1, <2>2
<1>16. RepairsAreTracked'
  BY <1>15 DEF RepairsAreTracked
<1>17. RowsInv'
  <2>1. \A row \in AllRows' : row.range # NoRange <=> row.source = "reconcile"
    BY <1>4, <1>11, RangeIsRange DEF TrackingInv, RowsInv, AllRows
  <2>2. \A row \in (queue \cap overflow)' : row.range = NoRange
    <3>1. \A row \in new : row \notin overflow
      BY <1>11, <1>12 DEF RowsOf
    <3> QED BY <1>4, <3>1 DEF TrackingInv, RowsInv
  <2>3. \A h \in Generations, q \in Ranges :
          /\ staged'[h][q] \subseteq CreatedIn(q) /\ settled'[h][q] \subseteq staged'[h][q]
          /\ staged'[h][q] # {} => part'[h][q].status \in {"repairing", "resolved"}
    BY <1>7, <1>9, <1>10 DEF TrackingInv, RowsInv, s
  <2>4. auditor'.phase # "listed"
    BY <1>4 DEF Idle
  <2> QED BY <2>1, <2>2, <2>3, <2>4 DEF RowsInv, AllRows
<1> QED BY <1>16, <1>17 DEF TrackingInv
\* Steps that leave the ledger and the rows alone.
LEMMA TrackingOfParts ==
  ASSUME TypeInv, TrackingInv, staged' = staged, settled' = settled,
         bits' = bits, AllRows' = AllRows, (queue \cap overflow)' \subseteq queue \cap overflow,
         \A g \in Generations, r \in Ranges :
           \/ part'[g][r].status = part[g][r].status
           \/ ~Done(part[g][r].status) /\ ~Done(part'[g][r].status),
         auditor'.phase # "listed" \/ auditor' = auditor
  PROVE  TrackingInv'
<1>1. auditor'.phase = "listed" => auditor'.found \subseteq CreatedIn(auditor'.range)
  BY DEF TrackingInv, RowsInv
<1> QED BY <1>1, TrackingStill

\* Steps of a run.
LEMMA TrackingOfRun ==
  ASSUME TypeInv, TrackingInv, RunStep
  PROVE  TrackingInv'
<1>1. RestType
  BY Parts
<1>2. ASSUME NEW us \in SUBSET Users, ApplyEnumerationShardPage(us) PROVE TrackingInv'
  <2>1. /\ staged' = staged /\ settled' = settled /\ part' = part /\ auditor' = auditor
        /\ overflow' = overflow /\ queue' = queue \cup {GlobalRow(run, u) : u \in us}
        /\ Mark(run, "discovered", us) /\ run \in Generations
    BY <1>1, <1>2 DEF ApplyEnumerationShardPage, partitions, RestType
  <2>2. \A row \in {GlobalRow(run, u) : u \in us} : row.range = NoRange /\ row.source = "global"
    BY DEF GlobalRow
  <2>3. "successful" \in Bitmaps /\ "inaccessible" \in Bitmaps /\ "discovered" \in Bitmaps
    BY DEF Bitmaps
  <2>4. \A h \in Generations : \A m \in Bitmaps : bits[h][m] \subseteq bits'[h][m]
    BY <2>1, <2>3, MarkGrows
  <2>5. /\ \A row \in AllRows' : row \in AllRows \/ (row.range = NoRange /\ row.source = "global")
        /\ \A row \in AllRows : row \in AllRows'
        /\ \A row \in (queue \cap overflow)' : row.range = NoRange \/ row \in queue \cap overflow
    BY <2>1, <2>2 DEF AllRows
  <2>6. auditor'.phase = "listed" => auditor'.found \subseteq CreatedIn(auditor'.range)
    BY <2>1 DEF TrackingInv, RowsInv
  <2> QED BY <2>1, <2>3, <2>4, <2>5, <2>6, TrackingStill
<1>3. ASSUME EnumerationEnds \/ MaybeCompleteMain \/ \E g \in Generations : EnsureMainRun(g)
      PROVE  TrackingInv'
  BY <1>3, TrackingOfParts DEF EnumerationEnds, MaybeCompleteMain, EnsureMainRun, partitions,
                               ledger, AllRows
<1> QED BY <1>2, <1>3 DEF RunStep

\* Steps of the workers.
LEMMA TrackingOfWorkers ==
  ASSUME TypeInv, TrackingInv, WorkerStep
  PROVE  TrackingInv'
<1>1. ASSUME NEW row \in AllRows, NEW map \in {"successful", "inaccessible"},
             Mark(row.gen, map, {row.user}), Resolve(row), auditor' = auditor,
             \/ row \in queue /\ queue' = queue \ {row} /\ overflow' = overflow
             \/ row \in overflow /\ overflow' = overflow \ {row} /\ queue' = queue
      PROVE  TrackingInv'
  <2>1. (queue \cap overflow)' \subseteq queue \cap overflow
    BY <1>1
  <2>2. CASE row.range = NoRange
    <3>1. staged' = staged /\ settled' = settled /\ part' = part
      BY <1>1, <2>2 DEF Resolve, partitions
    <3>2. "successful" \in Bitmaps /\ "inaccessible" \in Bitmaps /\ map \in Bitmaps
      BY DEF Bitmaps
    <3>3. \A h \in Generations : \A m \in Bitmaps : bits[h][m] \subseteq bits'[h][m]
      BY <1>1, <3>2, AllRowsType, MarkGrows
    <3>4. /\ \A x \in AllRows' : x \in AllRows
          /\ \A x \in AllRows : x.range # NoRange => x \in AllRows'
      BY <1>1, <2>2 DEF AllRows
    <3>5. auditor'.phase = "listed" => auditor'.found \subseteq CreatedIn(auditor'.range)
      BY <1>1 DEF TrackingInv, RowsInv
    <3> QED BY <2>1, <3>1, <3>2, <3>3, <3>4, <3>5, TrackingStill
  <2>3. CASE row.range # NoRange
    <3>1. AllRows' = AllRows \ {row}
      BY <1>1, <2>3 DEF AllRows, TrackingInv, RowsInv
    <3> QED BY <1>1, <2>1, <2>3, <3>1, TrackingOfSettled
  <2> QED BY <2>2, <2>3
<1>2. ASSUME NEW row \in queue, CompleteAccount(row) \/ CompleteInaccessible(row) PROVE TrackingInv'
  BY <1>1, <1>2 DEF CompleteAccount, CompleteInaccessible, AllRows
<1>3. ASSUME NEW row \in overflow, CompleteOverflow(row) PROVE TrackingInv'
  BY <1>1, <1>3 DEF CompleteOverflow, AllRows
<1>4. ASSUME NEW row \in queue, MoveToOverflow(row) PROVE TrackingInv'
  <2>1. /\ bits' = bits /\ staged' = staged /\ settled' = settled /\ part' = part
        /\ auditor' = auditor /\ queue' = queue \ {row} /\ overflow' = overflow \cup {row}
    BY <1>4 DEF MoveToOverflow, partitions, ledger
  <2>2. AllRows' = AllRows /\ (queue \cap overflow)' \subseteq queue \cap overflow
    BY <2>1 DEF AllRows
  <2> QED BY <2>1, <2>2, TrackingOfParts
<1> QED BY <1>2, <1>3, <1>4 DEF WorkerStep

\* Steps of the auditor.
LEMMA TrackingOfAuditor ==
  ASSUME TypeInv, TilingInv, OrderInv, TrackingInv, AuditorStep
  PROVE  TrackingInv'
<1>1. ASSUME StageCoveragePartition PROVE TrackingInv'
  BY <1>1, TrackingOfStaged
<1>2. CASE ~StageCoveragePartition
  <2>1. /\ staged' = staged /\ settled' = settled /\ bits' = bits
        /\ AllRows' = AllRows /\ (queue \cap overflow)' \subseteq queue \cap overflow
    BY <1>2 DEF AuditorStep, EnsureCoveragePartitions, ClaimCoveragePartition, CountPartitions,
         FinalizeCoverageGeneration, RetryCoveragePartition, MarkCoverageCountConsistent,
         SplitCoveragePartition, CountDiffers, EnumerateSearchPartition, AllRows, ledger, partitions
  <2>2. ASSUME EnumerateSearchPartition PROVE TrackingInv'
    <3>1. auditor'.range = auditor.range /\ auditor'.found = SearchUsers(auditor.range) /\ part' = part
      BY <2>2, Parts DEF EnumerateSearchPartition, partitions, AuditorType, Auditors
    <3>2. auditor'.found \subseteq CreatedIn(auditor'.range)
      BY <3>1 DEF SearchUsers
    <3> QED BY <2>1, <3>1, <3>2, TrackingStill
  <2>3. ASSUME CountDiffers \/ CountPartitions \/ FinalizeCoverageGeneration PROVE TrackingInv'
    <3>1. part' = part
      BY <2>3 DEF CountDiffers, CountPartitions, FinalizeCoverageGeneration, partitions
    <3>2. auditor'.phase # "listed"
      <4>1. CASE CountDiffers
        BY <4>1, Parts DEF CountDiffers, AuditorType, Auditors
      <4>2. CASE CountPartitions
        BY <4>2, Parts DEF CountPartitions, Idle, AuditorType, Auditors
      <4>3. CASE FinalizeCoverageGeneration
        BY <4>3 DEF FinalizeCoverageGeneration, Idle
      <4> QED BY <2>3, <4>1, <4>2, <4>3
    <3> QED BY <2>1, <3>1, <3>2, TrackingOfParts
  <2>4. ASSUME NEW g \in Generations, EnsureCoveragePartitions(g) PROVE TrackingInv'
    <3>1. auditor'.phase # "listed"
      BY <2>4, Parts DEF EnsureCoveragePartitions, AuditorType, Auditors
    <3>2. \A h \in Generations, r \in Ranges :
            \/ part'[h][r].status = part[h][r].status
            \/ ~Done(part[h][r].status) /\ ~Done(part'[h][r].status)
      BY <2>4, OtherChanges DEF Done
    <3> QED BY <2>1, <3>1, <3>2, TrackingOfParts
  <2>5. ASSUME NEW r \in Ranges, ClaimCoveragePartition(r) PROVE TrackingInv'
    <3>1. auditor'.phase # "listed" /\ part[auditor.gen][r].status = "pending"
      BY <2>5, Parts DEF ClaimCoveragePartition, AuditorType, Auditors
    <3>2. Changes(auditor.gen, r, "enumerating", {})
      BY <2>5, OtherChanges
    <3>3. \A h \in Generations, q \in Ranges :
            \/ part'[h][q].status = part[h][q].status
            \/ ~Done(part[h][q].status) /\ ~Done(part'[h][q].status)
      BY <3>1, <3>2 DEF Done, Changes
    <3> QED BY <2>1, <3>1, <3>3, TrackingOfParts
  <2>6. ASSUME Held, auditor' = Idle, NEW s, ~Done(s), NEW R,
               Changes(auditor.gen, auditor.range, s, R)
        PROVE  TrackingInv'
    <3>1. auditor'.phase # "listed" /\ part[auditor.gen][auditor.range].status = "enumerating"
      BY <2>6 DEF TilingInv, HeldInv, Idle
    <3>2. \A h \in Generations, q \in Ranges :
            \/ part'[h][q].status = part[h][q].status
            \/ ~Done(part[h][q].status) /\ ~Done(part'[h][q].status)
      BY <2>6, <3>1 DEF Done, Changes
    <3> QED BY <2>1, <3>1, <3>2, TrackingOfParts
  <2>7. ASSUME RetryCoveragePartition PROVE TrackingInv'
    BY <2>6, <2>7, HeldChanges DEF RetryCoveragePartition, Done
  <2>8. ASSUME MarkCoverageCountConsistent PROVE TrackingInv'
    BY <2>6, <2>8, HeldChanges DEF MarkCoverageCountConsistent, Held, Done
  <2>9. ASSUME NEW incomplete \in BOOLEAN, SplitCoveragePartition(incomplete) PROVE TrackingInv'
    BY <2>6, <2>9, HeldChanges DEF SplitCoveragePartition, Held, Done
  <2> QED BY <1>2, <2>2, <2>3, <2>4, <2>5, <2>7, <2>8, <2>9 DEF AuditorStep
<1> QED BY <1>1, <1>2

\* Every step keeps the repairs tracked.
LEMMA TrackingStep ==
  ASSUME TypeInv, TilingInv, OrderInv, TrackingInv, [Next]_vars
  PROVE  TrackingInv'
<1>1. ASSUME Abandon \/ (\E u \in Users : Vanish(u)) \/ UNCHANGED vars PROVE TrackingInv'
  BY <1>1, TrackingOfParts DEF Abandon, Vanish, vars, ledger, partitions, AllRows, Idle
<1> QED BY <1>1, TrackingOfRun, TrackingOfWorkers, TrackingOfAuditor DEF Next

CoreInv == TypeInv /\ TilingInv /\ GenerationsInv /\ OrderInv /\ TrackingInv

\* It holds at the start and is kept.
LEMMA CoreInvariant == Spec => []CoreInv
<1>1. Init => CoreInv
  <2> SUFFICES ASSUME Init PROVE CoreInv
    OBVIOUS
  <2>1. TypeInv
    BY TypeInit
  <2>2. TilingInv
    BY DEF Init, TilingInv, HeldInv, RowInv, DaysInv, Held, Idle, Fresh
  <2>3. /\ \A g \in Generations : status[g] = "none" /\ run # g
        /\ \A g \in Generations, r \in Ranges :
             part[g][r].status = "none" /\ staged[g][r] = {} /\ settled[g][r] = {}
        /\ queue = {} /\ overflow = {} /\ auditor.phase = "idle"
    BY GenerationOrder DEF Init, Idle
  <2>4. GenerationsInv /\ OrderInv
    BY <2>3 DEF GenerationsInv, OrderInv, AllRows, HasParts, Active
  <2>5. TrackingInv
    BY <2>3 DEF TrackingInv, RowsInv, RepairsAreTracked, AllRows, RowsOf
  <2> QED BY <2>1, <2>2, <2>4, <2>5 DEF CoreInv
<1>2. CoreInv /\ [Next]_vars => CoreInv'
  BY TypeStep, TilingStep, GenerationsStep, OrderStep, TrackingStep DEF CoreInv
<1> QED BY <1>1, <1>2, PTL DEF Spec

\* The identities of a partition that are not settled are those that a row in a
\* queue will settle, and the partition is under repair as long as there is one:
\* for any number of generations and accounts, over crashes of the auditor and
\* accounts that vanish.
THEOREM RepairsStayTracked == Spec => []RepairsAreTracked
<1>1. CoreInv => RepairsAreTracked
  BY DEF CoreInv, TrackingInv
<1> QED BY <1>1, CoreInvariant, PTL
-----------------------------------------------------------------------------
(* A final generation is left alone *)

\* It has no row left, is not that of the run, and the auditor is elsewhere.
LEMMA FinalIsIdle ==
  ASSUME CoreInv, NEW g \in Generations, status[g] \in Final
  PROVE  /\ run # g /\ status[g] # "none" /\ ~Auditable(g)
         /\ \A row \in AllRows : row.gen # g
         /\ auditor.phase # "idle" => auditor.gen # g
<1> USE DEF CoreInv
<1>1. status[g] \notin {"none", "building"} /\ ~Auditable(g)
  BY DEF Final, Auditable
<1>2. run # g
  BY <1>1 DEF GenerationsInv
<1>3. ASSUME NEW row \in AllRows, row.gen = g PROVE FALSE
  <2>1. row \in Rows
    BY AllRowsType
  <2>2. CASE row.range = NoRange
    <3>1. row.source = "global"
      BY <1>3, <2>1, <2>2 DEF TrackingInv, RowsInv, Rows
    <3> QED BY <1>2, <1>3, <3>1 DEF GenerationsInv
  <2>3. CASE row.range # NoRange
    <3>1. PICK r \in Ranges : r = row.range
      BY <2>3, AllRowsType
    <3>2. row \in RowsOf(g, r)
      BY <1>3, <3>1 DEF RowsOf, AllRows
    <3>3. part[g][r].status \in Active
      BY <3>2 DEF TrackingInv, RepairsAreTracked, Active
    <3> QED BY <1>1, <3>3 DEF OrderInv
  <2> QED BY <2>2, <2>3
<1>4. auditor.phase # "idle" => auditor.gen # g
  BY <1>1 DEF OrderInv
<1> QED BY <1>1, <1>2, <1>3, <1>4

Same(g) == status'[g] = status[g] /\ bits'[g] = bits[g] /\ part'[g] = part[g]

\* Marks of another generation.
LEMMA MarksElsewhere ==
  ASSUME TypeInv, NEW g \in Generations, NEW h, g # h, NEW map, NEW us, Mark(h, map, us)
  PROVE  bits'[g] = bits[g]
BY Parts DEF Mark, LedgerType

\* No step changes it.
LEMMA FinalStep ==
  ASSUME CoreInv, [Next]_vars, NEW g \in Generations, status[g] \in Final
  PROVE  Same(g)
<1>1. TypeInv /\ PartType /\ RestType
  BY Parts DEF CoreInv
<1>2. /\ run # g /\ status[g] # "none" /\ ~Auditable(g)
      /\ \A row \in AllRows : row.gen # g
      /\ auditor.phase # "idle" => auditor.gen # g
  BY FinalIsIdle
<1>3. CASE RunStep
  <2>1. ASSUME NEW h \in Generations, EnsureMainRun(h) PROVE Same(g)
    BY <1>1, <1>2, <2>1 DEF EnsureMainRun, Same, ledger, partitions, RestType
  <2>2. ASSUME NEW us \in SUBSET Users, ApplyEnumerationShardPage(us) PROVE Same(g)
    BY <1>1, <1>2, <2>2, MarksElsewhere DEF ApplyEnumerationShardPage, Same, partitions
  <2>3. ASSUME EnumerationEnds PROVE Same(g)
    BY <2>3 DEF EnumerationEnds, Same, ledger, partitions
  <2>4. ASSUME MaybeCompleteMain PROVE Same(g)
    BY <1>1, <1>2, <2>4 DEF MaybeCompleteMain, Same, ledger, partitions, RestType
  <2> QED BY <1>3, <2>1, <2>2, <2>3, <2>4 DEF RunStep
<1>4. CASE WorkerStep
  <2>1. ASSUME NEW row \in AllRows, Resolve(row) PROVE part'[g] = part[g]
    <3>1. part' = part \/ \E P : part' = [part EXCEPT ![row.gen] = P]
      BY <2>1 DEF Resolve, partitions
    <3> QED BY <1>1, <1>2, <2>1, <3>1 DEF PartType
  <2>2. ASSUME NEW row \in AllRows, Resolve(row), NEW map, Mark(row.gen, map, {row.user}),
               status' = status
        PROVE  Same(g)
    <3>1. bits'[g] = bits[g]
      BY <1>1, <1>2, <2>2, MarksElsewhere
    <3> QED BY <2>1, <2>2, <3>1 DEF Same
  <2>3. ASSUME NEW row \in queue, CompleteAccount(row) \/ CompleteInaccessible(row) PROVE Same(g)
    BY <2>2, <2>3 DEF CompleteAccount, CompleteInaccessible, AllRows
  <2>4. ASSUME NEW row \in overflow, CompleteOverflow(row) PROVE Same(g)
    BY <2>2, <2>4 DEF CompleteOverflow, AllRows
  <2>5. ASSUME NEW row \in queue, MoveToOverflow(row) PROVE Same(g)
    BY <2>5 DEF MoveToOverflow, Same, ledger, partitions
  <2> QED BY <1>4, <2>3, <2>4, <2>5 DEF WorkerStep
<1>5. CASE AuditorStep
  <2>1. ASSUME NEW h, h # g, bits' = bits \/ \E map, us : Mark(h, map, us),
               part' = part \/ \E P : part' = [part EXCEPT ![h] = P],
               status' = status \/ \E s : status' = [status EXCEPT ![h] = s]
        PROVE  Same(g)
    <3>1. bits'[g] = bits[g]
      BY <1>1, <2>1, MarksElsewhere
    <3>2. part'[g] = part[g]
      BY <1>1, <2>1 DEF PartType
    <3>3. status'[g] = status[g]
      BY <1>1, <2>1 DEF RestType
    <3> QED BY <3>1, <3>2, <3>3 DEF Same
  <2>2. ASSUME NEW h \in Generations, EnsureCoveragePartitions(h) PROVE Same(g)
    BY <1>2, <2>1, <2>2 DEF EnsureCoveragePartitions, ledger
  <2>3. ASSUME auditor.phase # "idle", \E r \in Ranges : ClaimCoveragePartition(r) PROVE Same(g)
    BY <1>2, <2>1, <2>3 DEF ClaimCoveragePartition, ledger
  <2>4. ASSUME CountPartitions \/ CountDiffers \/ EnumerateSearchPartition PROVE Same(g)
    BY <2>4 DEF CountPartitions, CountDiffers, EnumerateSearchPartition, ledger, partitions, Same
  <2>5. ASSUME FinalizeCoverageGeneration PROVE Same(g)
    BY <1>2, <2>1, <2>5 DEF FinalizeCoverageGeneration, ledger, partitions
  <2>6. ASSUME RetryCoveragePartition PROVE Same(g)
    BY <1>2, <2>1, <2>6 DEF RetryCoveragePartition, ledger, Held
  <2>7. ASSUME MarkCoverageCountConsistent PROVE Same(g)
    BY <1>2, <2>1, <2>7 DEF MarkCoverageCountConsistent, ledger
  <2>8. ASSUME NEW incomplete \in BOOLEAN, SplitCoveragePartition(incomplete) PROVE Same(g)
    BY <1>2, <2>1, <2>8 DEF SplitCoveragePartition
  <2>9. ASSUME StageCoveragePartition PROVE Same(g)
    BY <1>2, <2>1, <2>9 DEF StageCoveragePartition
  <2> QED BY <1>5, <2>2, <2>3, <2>4, <2>5, <2>6, <2>7, <2>8, <2>9
          DEF AuditorStep, ClaimCoveragePartition
<1>6. CASE Abandon \/ (\E u \in Users : Vanish(u)) \/ UNCHANGED vars
  BY <1>6 DEF Abandon, Vanish, vars, ledger, partitions, Same
<1> QED BY <1>3, <1>4, <1>5, <1>6 DEF Next

\* A generation that is final is not changed by any step: not by the row of a
\* repair that is late, nor by an auditor that was at work on it.
THEOREM FinalStaysFinal == Spec => FinalIsFinal
<1> DEFINE Kept == \A g \in Generations : status[g] \in Final =>
                     /\ status'[g] = status[g]
                     /\ bits'[g] = bits[g] /\ part'[g] = part[g]
<1>1. CoreInv /\ [Next]_vars => [Kept]_vars
  BY FinalStep DEF Same
<1>2. Spec => [][Kept]_vars
  BY <1>1, CoreInvariant, PTL DEF Spec
<1> QED BY <1>2 DEF FinalIsFinal
-----------------------------------------------------------------------------
(* Reconciled means audited *)

\* Only accounts that GitHub no longer lists are inaccessible.
GoneInv == \A g \in Generations : bits[g]["inaccessible"] \cap listed = {}

\* A partition that was staged holds all that search still returns; one whose
\* count agreed is a day.
StagedInv ==
  \A g \in Generations, r \in Ranges :
    /\ Done(part[g][r].status) => SearchUsers(r) \subseteq staged[g][r]
    /\ part[g][r].status = "count_consistent" => r = WholeDay(Day(r[1]))

\* So does the auditor's listing, and only a day has a local count.
ListingInv ==
  /\ auditor.phase = "claimed" /\ auditor.local # NoCount =>
       auditor.range = WholeDay(Day(auditor.range[1]))
  /\ auditor.phase = "listed" => SearchUsers(auditor.range) \subseteq auditor.found

\* A reconciled generation had partitions, none of which was given up.
GivenUpInv ==
  \A g \in Generations : status[g] = "count_reconciled" =>
    HasParts(g) /\ \A r \in Ranges : part[g][r].status # "unresolved"

\* What was staged is discovered.
KnownInv == \A g \in Generations, r \in Ranges : staged[g][r] \subseteq bits[g]["discovered"]

\* Where counts agreed the ledger still has as many as search lists, and it has
\* no less than the auditor read.
CountedInv ==
  /\ \A g \in Generations, r \in Ranges : part[g][r].status = "count_consistent" =>
       SearchCount(r) <= dayCount[g][Day(r[1])]
  /\ auditor.phase = "claimed" /\ auditor.local # NoCount =>
       auditor.local <= dayCount[auditor.gen][Day(auditor.range[1])]

AuditInv == GoneInv /\ StagedInv /\ ListingInv /\ GivenUpInv /\ KnownInv /\ CountedInv

\* Search returns less, never more.
LEMMA SearchShrinks ==
  ASSUME [Next]_vars
  PROVE  listed' \subseteq listed /\ \A r : SearchUsers(r)' \subseteq SearchUsers(r)
<1>1. listed' \subseteq listed
  BY DEF Next, RunStep, WorkerStep, AuditorStep, Abandon, Vanish, vars,
         EnsureMainRun, ApplyEnumerationShardPage, EnumerationEnds, MaybeCompleteMain,
         CompleteAccount, MoveToOverflow, CompleteInaccessible, CompleteOverflow,
         EnsureCoveragePartitions, ClaimCoveragePartition, CountPartitions,
         FinalizeCoverageGeneration, RetryCoveragePartition, MarkCoverageCountConsistent,
         SplitCoveragePartition, CountDiffers, EnumerateSearchPartition, StageCoveragePartition
<1> QED BY <1>1 DEF SearchUsers, CreatedIn

\* What search lists is never marked inaccessible: the mark comes of asking for the account.
LEMMA GoneStep ==
  ASSUME TypeInv, GoneInv, [Next]_vars
  PROVE  GoneInv'
<1>1. listed' \subseteq listed
  BY SearchShrinks
<1>2. RestType
  BY Parts
<1>3. ASSUME bits' = bits PROVE GoneInv'
  BY <1>1, <1>3 DEF GoneInv
<1>4. ASSUME NEW g \in Generations, NEW map \in Bitmaps, NEW us, Mark(g, map, us),
             map = "inaccessible" => us \cap listed = {}
      PROVE  GoneInv'
  <2>1. "inaccessible" \in Bitmaps
    BY DEF Bitmaps
  <2>2. \A h \in Generations :
          bits'[h]["inaccessible"] = IF h = g /\ "inaccessible" = map
                                     THEN bits[g][map] \cup us ELSE bits[h]["inaccessible"]
    <3>1. bits' = [bits EXCEPT ![g][map] = bits[g][map] \cup us]
      BY <1>4 DEF Mark
    <3>2. bits \in [Generations -> [Bitmaps -> SUBSET Users]]
      BY Parts DEF LedgerType
    <3> QED BY <2>1, <3>1, <3>2
  <2> QED BY <1>1, <1>4, <2>2 DEF GoneInv
<1>5. CASE RunStep
  <2>1. ASSUME NEW us \in SUBSET Users, ApplyEnumerationShardPage(us) PROVE GoneInv'
    BY <1>2, <1>4, <2>1 DEF ApplyEnumerationShardPage, Bitmaps, RestType
  <2> QED BY <1>3, <1>5, <2>1 DEF RunStep, EnsureMainRun, EnumerationEnds, MaybeCompleteMain, ledger
<1>6. CASE WorkerStep
  <2>1. ASSUME NEW row \in AllRows PROVE row.gen \in Generations
    BY AllRowsType
  <2>2. ASSUME NEW row \in queue, CompleteAccount(row) PROVE GoneInv'
    BY <1>4, <2>1, <2>2 DEF CompleteAccount, Bitmaps, AllRows
  <2>3. ASSUME NEW row \in queue, CompleteInaccessible(row) PROVE GoneInv'
    BY <1>4, <2>1, <2>3 DEF CompleteInaccessible, Bitmaps, AllRows
  <2>4. ASSUME NEW row \in overflow, CompleteOverflow(row) PROVE GoneInv'
    BY <1>4, <2>1, <2>4 DEF CompleteOverflow, Bitmaps, AllRows
  <2>5. ASSUME NEW row \in queue, MoveToOverflow(row) PROVE GoneInv'
    BY <1>3, <2>5 DEF MoveToOverflow, ledger
  <2> QED BY <1>6, <2>2, <2>3, <2>4, <2>5 DEF WorkerStep
<1>7. CASE AuditorStep
  <2>1. ASSUME StageCoveragePartition PROVE GoneInv'
    <3>1. auditor.gen \in Generations
      BY <2>1, HeldChanges DEF StageCoveragePartition, Held
    <3> QED BY <1>4, <2>1, <3>1 DEF StageCoveragePartition, Bitmaps
  <2>2. ASSUME ~StageCoveragePartition PROVE bits' = bits
    BY <1>7, <2>2 DEF AuditorStep, EnsureCoveragePartitions, ClaimCoveragePartition,
       CountPartitions, FinalizeCoverageGeneration, RetryCoveragePartition,
       MarkCoverageCountConsistent, SplitCoveragePartition, CountDiffers,
       EnumerateSearchPartition, ledger
  <2> QED BY <1>3, <2>1, <2>2
<1>8. CASE Abandon \/ (\E u \in Users : Vanish(u)) \/ UNCHANGED vars
  BY <1>3, <1>8 DEF Abandon, Vanish, vars, ledger
<1> QED BY <1>5, <1>6, <1>7, <1>8 DEF Next

\* The auditor claims, lists, or does neither.
LEMMA ListingStep ==
  ASSUME TypeInv, ListingInv, [Next]_vars
  PROVE  ListingInv'
<1>1. ASSUME auditor' = auditor \/ auditor'.phase \notin {"claimed", "listed"}
      PROVE  ListingInv'
  <2>1. \A r : SearchUsers(r)' \subseteq SearchUsers(r)
    BY SearchShrinks
  <2>2. CASE auditor' = auditor
    <3>1. PICK r : r = auditor.range
      OBVIOUS
    <3>2. SearchUsers(r)' \subseteq SearchUsers(r)
      BY <2>1
    <3>3. SearchUsers(auditor.range)' = SearchUsers(r)'
      BY <2>2, <3>1 DEF SearchUsers, CreatedIn
    <3> QED BY <2>2, <3>1, <3>2, <3>3 DEF ListingInv
  <2>3. CASE auditor'.phase \notin {"claimed", "listed"}
    BY <2>3 DEF ListingInv
  <2> QED BY <1>1, <2>2, <2>3
<1>2. CASE RunStep
  BY <1>1, <1>2 DEF RunStep, EnsureMainRun, ApplyEnumerationShardPage, EnumerationEnds,
                    MaybeCompleteMain
<1>3. CASE WorkerStep
  BY <1>1, <1>3 DEF WorkerStep, CompleteAccount, MoveToOverflow, CompleteInaccessible,
                    CompleteOverflow
<1>4. CASE AuditorStep
  <2> USE Parts DEF AuditorType, Auditors
  <2>1. ASSUME NEW r \in Ranges, ClaimCoveragePartition(r) PROVE ListingInv'
    <3>1. /\ auditor'.phase = "claimed" /\ auditor'.range = r
          /\ auditor'.local = LocalCount(auditor.gen, r)
      BY <2>1 DEF ClaimCoveragePartition
    <3> QED BY <3>1 DEF ListingInv, LocalCount
  <2>2. ASSUME EnumerateSearchPartition PROVE ListingInv'
    <3>1. /\ auditor'.phase = "listed" /\ auditor'.range = auditor.range /\ listed' = listed
          /\ auditor'.found = SearchUsers(auditor.range)
      BY <2>2 DEF EnumerateSearchPartition
    <3> QED BY <3>1 DEF ListingInv, SearchUsers, CreatedIn
  <2>3. ASSUME NEW g \in Generations, EnsureCoveragePartitions(g) PROVE ListingInv'
    BY <1>1, <2>3 DEF EnsureCoveragePartitions
  <2>4. ASSUME CountPartitions PROVE ListingInv'
    BY <1>1, <2>4 DEF CountPartitions, Idle
  <2>5. ASSUME CountDiffers PROVE ListingInv'
    BY <1>1, <2>5 DEF CountDiffers
  <2>6. ASSUME \/ FinalizeCoverageGeneration \/ RetryCoveragePartition \/ MarkCoverageCountConsistent
               \/ StageCoveragePartition \/ \E i \in BOOLEAN : SplitCoveragePartition(i)
        PROVE  auditor' = Idle
    BY <2>6 DEF FinalizeCoverageGeneration, RetryCoveragePartition, MarkCoverageCountConsistent,
                StageCoveragePartition, SplitCoveragePartition
  <2>7. auditor' = Idle => ListingInv'
    BY <1>1 DEF Idle
  <2> QED BY <1>4, <2>1, <2>2, <2>3, <2>4, <2>5, <2>6, <2>7 DEF AuditorStep
<1>5. CASE Abandon \/ (\E u \in Users : Vanish(u)) \/ UNCHANGED vars
  BY <1>1, <1>5 DEF Abandon, Vanish, vars, Idle
<1> QED BY <1>2, <1>3, <1>4, <1>5 DEF Next

\* A generation is reconciled by the auditor, when it counted no partition that
\* was given up.
LEMMA GivenUpStep ==
  ASSUME CoreInv, GivenUpInv, [Next]_vars
  PROVE  GivenUpInv'
<1>1. /\ TypeInv /\ RestType /\ OrderInv
  BY Parts DEF CoreInv
<1> SUFFICES ASSUME NEW g \in Generations, status'[g] = "count_reconciled"
             PROVE  (\E r \in Ranges : part'[g][r].status # "none")
                    /\ \A r \in Ranges : part'[g][r].status # "unresolved"
  BY DEF GivenUpInv, HasParts
<1>2. CASE status[g] = "count_reconciled"
  <2>1. part'[g] = part[g]
    BY <1>2, FinalStep DEF Final, Same
  <2> QED BY <1>2, <2>1 DEF GivenUpInv, HasParts
<1>3. CASE status[g] # "count_reconciled"
  <2>1. ASSUME NEW h, NEW s, status' = status \/ status' = [status EXCEPT ![h] = s],
               s # "count_reconciled"
        PROVE  FALSE
    BY <1>1, <1>3, <2>1 DEF RestType
  <2>2. CASE RunStep
    BY <2>1, <2>2 DEF RunStep, EnsureMainRun, ApplyEnumerationShardPage, EnumerationEnds,
                      MaybeCompleteMain
  <2>3. CASE WorkerStep
    BY <2>1, <2>3 DEF WorkerStep, CompleteAccount, MoveToOverflow, CompleteInaccessible,
                      CompleteOverflow
  <2>4. CASE AuditorStep
    <3>1. ASSUME ~FinalizeCoverageGeneration PROVE FALSE
      BY <2>1, <2>4, <3>1 DEF AuditorStep, EnsureCoveragePartitions, ClaimCoveragePartition,
         CountPartitions, RetryCoveragePartition, MarkCoverageCountConsistent,
         SplitCoveragePartition, CountDiffers, EnumerateSearchPartition, StageCoveragePartition
    <3>2. FinalizeCoverageGeneration
      BY <3>1
    <3>3. status' = [status EXCEPT ![auditor.gen] =
                       IF auditor.unresolved > 0 THEN "unresolved" ELSE "count_reconciled"]
          /\ auditor.phase = "finalizing" /\ part' = part
      BY <3>2 DEF FinalizeCoverageGeneration, partitions
    <3>4. g = auditor.gen /\ ~(auditor.unresolved > 0)
      BY <1>1, <1>3, <3>3 DEF RestType
    <3>5. auditor.unresolved \in Nat
      BY <1>1, Parts DEF AuditorType, Auditors
    <3>6. auditor.unresolved = 0
      BY <3>4, <3>5
    <3> QED BY <1>1, <3>3, <3>4, <3>6 DEF OrderInv, HasParts
  <2>5. CASE Abandon \/ (\E u \in Users : Vanish(u)) \/ UNCHANGED vars
    BY <1>3, <2>5 DEF Abandon, Vanish, vars
  <2> QED BY <2>2, <2>3, <2>4, <2>5 DEF Next
<1> QED BY <1>2, <1>3
\* A step that lets partitions be done that were done.
LEMMA StagedStill ==
  ASSUME StagedInv, staged' = staged, \A r : SearchUsers(r)' \subseteq SearchUsers(r),
         \A g \in Generations, r \in Ranges :
           \/ part'[g][r].status = part[g][r].status
           \/ ~Done(part'[g][r].status) /\ part'[g][r].status # "count_consistent"
           \/ Done(part[g][r].status) /\ Done(part'[g][r].status)
  PROVE  StagedInv'
<1> SUFFICES ASSUME NEW g \in Generations, NEW r \in Ranges
             PROVE  /\ Done(part'[g][r].status) => SearchUsers(r)' \subseteq staged'[g][r]
                    /\ part'[g][r].status = "count_consistent" => r = WholeDay(Day(r[1]))
  BY DEF StagedInv, Done
<1>1. Done(part'[g][r].status) => Done(part[g][r].status)
  OBVIOUS
<1>2. part'[g][r].status = "count_consistent" => part[g][r].status = "count_consistent"
  BY DEF Done
<1> QED BY <1>1, <1>2 DEF StagedInv

\* A staged listing keeps all that search lists of its partition.
LEMMA StagedStep ==
  ASSUME CoreInv, StagedInv, ListingInv, [Next]_vars
  PROVE  StagedInv'
<1>1. /\ TypeInv /\ TilingInv /\ PartType /\ RestType /\ AuditorType
      /\ \A r : SearchUsers(r)' \subseteq SearchUsers(r)
  BY Parts, SearchShrinks DEF CoreInv
<1>2. CASE RunStep
  <2>1. staged' = staged /\ part' = part
    BY <1>2 DEF RunStep, EnsureMainRun, ApplyEnumerationShardPage, EnumerationEnds,
                MaybeCompleteMain, partitions
  <2> QED BY <1>1, <2>1, StagedStill
<1>3. CASE WorkerStep
  <2>1. ASSUME NEW row \in AllRows, Resolve(row) PROVE StagedInv'
    <3>1. staged' = staged
      BY <2>1 DEF Resolve, partitions
    <3>2. CASE part' = part
      BY <1>1, <3>1, <3>2, StagedStill
    <3>3. CASE part' # part
      <4>1. /\ row.range # NoRange /\ row.gen \in Generations /\ row.range \in Ranges
            /\ Changes(row.gen, row.range, "resolved", {})
        BY <1>1, <2>1, <3>3, OtherChanges
      <4>2. Done(part[row.gen][row.range].status)
        BY <1>1, <4>1 DEF TilingInv, RowInv, AllRows, Done
      <4>3. \A g \in Generations, r \in Ranges :
              \/ part'[g][r].status = part[g][r].status
              \/ Done(part[g][r].status) /\ Done(part'[g][r].status)
        BY <4>1, <4>2 DEF Changes, Done
      <4> QED BY <1>1, <3>1, <4>3, StagedStill
    <3> QED BY <3>2, <3>3
  <2>2. ASSUME NEW row \in queue, MoveToOverflow(row) PROVE StagedInv'
    BY <1>1, <2>2, StagedStill DEF MoveToOverflow, partitions
  <2> QED BY <1>3, <2>1, <2>2 DEF WorkerStep, CompleteAccount, CompleteInaccessible,
            CompleteOverflow, AllRows
<1>4. CASE AuditorStep
  <2>1. ASSUME StageCoveragePartition PROVE StagedInv'
    <3>1. PICK g \in Generations, r \in Ranges : g = auditor.gen /\ r = auditor.range
      BY <1>1, <2>1, HeldChanges DEF StageCoveragePartition, Held
    <3> DEFINE s == IF Inserted(g, r) # {} THEN "repairing" ELSE "resolved"
    <3>2. Changes(g, r, s, {})
      BY <1>1, <2>1, <3>1, HeldChanges
    <3>3. staged' = [staged EXCEPT ![g][r] = auditor.found] /\ listed' = listed
      BY <2>1, <3>1 DEF StageCoveragePartition
    <3>4. SearchUsers(r) \subseteq auditor.found
      BY <2>1, <3>1 DEF ListingInv, StageCoveragePartition
    <3>5. s # "count_consistent"
      OBVIOUS
    <3> HIDE DEF s
    <3> SUFFICES ASSUME NEW h \in Generations, NEW q \in Ranges
                 PROVE  /\ Done(part'[h][q].status) => SearchUsers(q)' \subseteq staged'[h][q]
                        /\ part'[h][q].status = "count_consistent" => q = WholeDay(Day(q[1]))
      BY DEF StagedInv, Done
    <3>6. SearchUsers(q)' \subseteq SearchUsers(q)
      BY <1>1
    <3>7. CASE h = g /\ q = r
      <4>1. staged'[h][q] = auditor.found /\ part'[h][q].status = s
        BY <1>1, <3>2, <3>3, <3>7 DEF PartType, Changes
      <4> QED BY <3>4, <3>5, <3>6, <3>7, <4>1
    <3>8. CASE ~(h = g /\ q = r)
      <4>1. staged'[h][q] = staged[h][q] /\ part'[h][q].status = part[h][q].status
        BY <1>1, <3>2, <3>3, <3>8 DEF PartType, Changes
      <4> QED BY <3>6, <4>1 DEF StagedInv
    <3> QED BY <3>7, <3>8
  <2>2. ASSUME MarkCoverageCountConsistent PROVE StagedInv'
    <3>1. PICK g \in Generations, r \in Ranges : g = auditor.gen /\ r = auditor.range
      BY <1>1, <2>2, HeldChanges DEF MarkCoverageCountConsistent, Held
    <3>2. PICK R : Changes(g, r, "count_consistent", R)
      BY <1>1, <2>2, <3>1, HeldChanges
    <3>3. r = WholeDay(Day(r[1]))
      <4>1. auditor.local = SearchCount(r) /\ auditor.phase = "claimed"
        BY <2>2, <3>1 DEF MarkCoverageCountConsistent
      <4>2. auditor.local # NoCount
        BY <4>1, SearchType DEF NoCount
      <4> QED BY <3>1, <4>1, <4>2 DEF ListingInv
    <3>4. staged' = staged
      BY <2>2 DEF MarkCoverageCountConsistent
    <3> SUFFICES ASSUME NEW h \in Generations, NEW q \in Ranges
                 PROVE  /\ Done(part'[h][q].status) => SearchUsers(q)' \subseteq staged'[h][q]
                        /\ part'[h][q].status = "count_consistent" => q = WholeDay(Day(q[1]))
      BY DEF StagedInv, Done
    <3>5. SearchUsers(q)' \subseteq SearchUsers(q)
      BY <1>1
    <3>6. Done(part'[h][q].status) => Done(part[h][q].status)
      BY <3>2 DEF Changes, Done
    <3>7. part'[h][q].status = "count_consistent" => q = r \/ part[h][q].status = "count_consistent"
      BY <3>2 DEF Changes
    <3> QED BY <3>3, <3>4, <3>5, <3>6, <3>7 DEF StagedInv
  <2>3. CASE ~StageCoveragePartition /\ ~MarkCoverageCountConsistent
    <3>1. staged' = staged
      BY <1>4, <2>3 DEF AuditorStep, EnsureCoveragePartitions, ClaimCoveragePartition,
         CountPartitions, FinalizeCoverageGeneration, RetryCoveragePartition,
         SplitCoveragePartition, CountDiffers, EnumerateSearchPartition, partitions
    <3>2. ASSUME NEW g, NEW r, NEW s, NEW R, Changes(g, r, s, R),
                 s \in {"pending", "enumerating", "splitting", "unresolved"}
          PROVE  StagedInv'
      <4>1. \A h \in Generations, q \in Ranges :
              \/ part'[h][q].status = part[h][q].status
              \/ ~Done(part'[h][q].status) /\ part'[h][q].status # "count_consistent"
        BY <3>2 DEF Changes, Done
      <4> QED BY <1>1, <3>1, <4>1, StagedStill
    <3>3. ASSUME NEW g \in Generations, EnsureCoveragePartitions(g) PROVE StagedInv'
      <4>1. \A h \in Generations, q \in Ranges :
              \/ part'[h][q].status = part[h][q].status
              \/ ~Done(part'[h][q].status) /\ part'[h][q].status # "count_consistent"
        BY <1>1, <3>3, OtherChanges DEF Done
      <4> QED BY <1>1, <3>1, <4>1, StagedStill
    <3>4. ASSUME NEW r \in Ranges, ClaimCoveragePartition(r) PROVE StagedInv'
      BY <1>1, <3>2, <3>4, OtherChanges
    <3>5. ASSUME RetryCoveragePartition PROVE StagedInv'
      BY <1>1, <3>2, <3>5, HeldChanges
    <3>6. ASSUME NEW i \in BOOLEAN, SplitCoveragePartition(i) PROVE StagedInv'
      BY <1>1, <3>2, <3>6, HeldChanges
    <3>7. ASSUME \/ CountPartitions \/ FinalizeCoverageGeneration \/ CountDiffers
                 \/ EnumerateSearchPartition
          PROVE  StagedInv'
      <4>1. part' = part
        BY <3>7 DEF CountPartitions, FinalizeCoverageGeneration, CountDiffers,
                    EnumerateSearchPartition, partitions
      <4> QED BY <1>1, <3>1, <4>1, StagedStill
    <3> QED BY <1>4, <2>3, <3>3, <3>4, <3>5, <3>6, <3>7 DEF AuditorStep
  <2> QED BY <2>1, <2>2, <2>3
<1>5. CASE Abandon \/ (\E u \in Users : Vanish(u)) \/ UNCHANGED vars
  BY <1>1, <1>5, StagedStill DEF Abandon, Vanish, vars, partitions
<1> QED BY <1>2, <1>3, <1>4, <1>5 DEF Next

\* Bitmaps grow.
LEMMA BitsGrow ==
  ASSUME TypeInv, [Next]_vars
  PROVE  \A g \in Generations : \A m \in Bitmaps : bits[g][m] \subseteq bits'[g][m]
BY LedgerStep, MarkGrows

\* So do the counts of the days, and what search counts falls.
LEMMA CountsDrift ==
  ASSUME TypeInv, [Next]_vars
  PROVE  /\ \A g \in Generations : \A d \in LedgerDays :
              /\ dayCount[g][d] \in Nat /\ dayCount'[g][d] \in Nat
              /\ dayCount[g][d] <= dayCount'[g][d]
         /\ \A r : SearchCount(r)' \in Nat /\ SearchCount(r)' <= SearchCount(r)
<1>1. LedgerType /\ LedgerType'
  BY Parts, TypesAfter
<1>2. ASSUME NEW g \in Generations, NEW d \in LedgerDays
      PROVE  /\ dayCount[g][d] \in Nat /\ dayCount'[g][d] \in Nat
             /\ dayCount[g][d] <= dayCount'[g][d]
  <2>1. dayCount[g][d] \in Nat /\ dayCount'[g][d] \in Nat
    BY <1>1 DEF LedgerType
  <2>2. ASSUME NEW h \in Generations, NEW map \in Bitmaps, NEW us \in SUBSET Users,
               Mark(h, map, us)
        PROVE  dayCount[g][d] <= dayCount'[g][d]
    <3> DEFINE more == OfDay(us \ bits[h][map], d)
               byDay == [e \in LedgerDays |->
                 dayCount[h][e] + Cardinality(OfDay(us \ bits[h][map], e))]
    <3>1. dayCount' = IF map # "successful" THEN dayCount ELSE [dayCount EXCEPT ![h] = byDay]
      BY <2>2 DEF Mark, OfDay
    <3>2. Cardinality(more) \in Nat
      BY UsersFinite DEF OfDay
    <3>3. byDay[d] = dayCount[h][d] + Cardinality(more)
      OBVIOUS
    <3> HIDE DEF more, byDay
    <3>4. \/ dayCount'[g][d] = dayCount[g][d]
          \/ g = h /\ dayCount'[g][d] = byDay[d]
      BY <1>1, <3>1 DEF LedgerType
    <3> QED BY <2>1, <3>2, <3>3, <3>4
  <2>3. CASE dayCount' = dayCount
    BY <2>1, <2>3
  <2> QED BY <2>1, <2>2, <2>3, LedgerStep
<1>3. ASSUME NEW r PROVE SearchCount(r)' \in Nat /\ SearchCount(r)' <= SearchCount(r)
  <2>1. SearchUsers(r)' \subseteq SearchUsers(r)
    BY SearchShrinks
  <2>2. IsFiniteSet(SearchUsers(r)) /\ SearchUsers(r)' \in SUBSET Users
    BY <2>1, SearchType, UsersFinite
  <2>3. Cardinality(SearchUsers(r)') <= Cardinality(SearchUsers(r))
    BY <2>1, <2>2, FS_Subset
  <2> QED BY <2>2, <2>3, UsersFinite DEF SearchCount
<1> QED BY <1>2, <1>3

\* A listing is staged and marked in one step.
LEMMA KnownStep ==
  ASSUME TypeInv, KnownInv, [Next]_vars
  PROVE  KnownInv'
<1>1. \A g \in Generations : bits[g]["discovered"] \subseteq bits'[g]["discovered"]
  BY BitsGrow DEF Bitmaps
<1>2. CASE StageCoveragePartition
  <2>1. PICK g \in Generations, r \in Ranges : g = auditor.gen /\ r = auditor.range
    BY <1>2, HeldChanges DEF StageCoveragePartition, Held
  <2>2. staged' = [staged EXCEPT ![g][r] = auditor.found]
        /\ Mark(g, "discovered", auditor.found)
    BY <1>2, <2>1 DEF StageCoveragePartition
  <2>3. auditor.found \subseteq bits'[g]["discovered"]
    BY <2>2, MarkGrows DEF Bitmaps
  <2>4. \A h \in Generations, q \in Ranges :
          staged'[h][q] = IF h = g /\ q = r THEN auditor.found ELSE staged[h][q]
    BY <2>2, Parts DEF PartType
  <2> QED BY <1>1, <2>3, <2>4 DEF KnownInv
<1>3. CASE ~StageCoveragePartition
  <2>1. staged' = staged
    <3>1. CASE RunStep
      BY <3>1 DEF RunStep, EnsureMainRun, ApplyEnumerationShardPage, EnumerationEnds,
                  MaybeCompleteMain, partitions
    <3>2. CASE WorkerStep
      BY <3>2 DEF WorkerStep, CompleteAccount, MoveToOverflow, CompleteInaccessible,
                  CompleteOverflow, Resolve, partitions
    <3>3. CASE AuditorStep
      BY <1>3, <3>3 DEF AuditorStep, EnsureCoveragePartitions, ClaimCoveragePartition,
         CountPartitions, FinalizeCoverageGeneration, RetryCoveragePartition,
         MarkCoverageCountConsistent, SplitCoveragePartition, CountDiffers,
         EnumerateSearchPartition, partitions
    <3>4. CASE Abandon \/ (\E u \in Users : Vanish(u)) \/ UNCHANGED vars
      BY <3>4 DEF Abandon, Vanish, vars, partitions
    <3> QED BY <3>1, <3>2, <3>3, <3>4 DEF Next
  <2> QED BY <1>1, <2>1 DEF KnownInv
<1> QED BY <1>2, <1>3

\* A partition whose counts agree, and did not before, is one that the auditor
\* has just compared.
LEMMA ConsistentBefore ==
  ASSUME TypeInv, [Next]_vars, NEW g \in Generations, NEW r \in Ranges,
         part'[g][r].status = "count_consistent", part[g][r].status # "count_consistent"
  PROVE  MarkCoverageCountConsistent /\ g = auditor.gen /\ r = auditor.range
<1>1. part' # part
  OBVIOUS
<1>2. ASSUME NEW h, NEW q, NEW s, NEW R, Changes(h, q, s, R)
      PROVE  s = "count_consistent" /\ g = h /\ r = q
  BY <1>2 DEF Changes
<1>3. ASSUME NEW row \in AllRows, Resolve(row) PROVE FALSE
  BY <1>1, <1>2, <1>3, OtherChanges
<1>4. CASE RunStep
  BY <1>1, <1>4 DEF RunStep, EnsureMainRun, ApplyEnumerationShardPage, EnumerationEnds,
                    MaybeCompleteMain, partitions
<1>5. CASE WorkerStep
  BY <1>1, <1>3, <1>5 DEF WorkerStep, CompleteAccount, MoveToOverflow, CompleteInaccessible,
                          CompleteOverflow, partitions, AllRows
<1>6. CASE AuditorStep
  <2>1. ASSUME NEW h \in Generations, EnsureCoveragePartitions(h) PROVE FALSE
    BY <2>1, OtherChanges
  <2>2. ASSUME NEW q \in Ranges, ClaimCoveragePartition(q) PROVE FALSE
    BY <1>2, <2>2, OtherChanges
  <2>3. ASSUME RetryCoveragePartition PROVE FALSE
    BY <1>2, <2>3, HeldChanges
  <2>4. ASSUME NEW i \in BOOLEAN, SplitCoveragePartition(i) PROVE FALSE
    BY <1>2, <2>4, HeldChanges
  <2>5. ASSUME StageCoveragePartition PROVE FALSE
    BY <1>2, <2>5, HeldChanges
  <2>6. ASSUME MarkCoverageCountConsistent PROVE g = auditor.gen /\ r = auditor.range
    BY <1>2, <2>6, HeldChanges
  <2>7. CountPartitions \/ FinalizeCoverageGeneration \/ CountDiffers
          \/ EnumerateSearchPartition => part' = part
    BY DEF CountPartitions, FinalizeCoverageGeneration, CountDiffers,
           EnumerateSearchPartition, partitions
  <2> QED BY <1>1, <1>6, <2>1, <2>2, <2>3, <2>4, <2>5, <2>6, <2>7 DEF AuditorStep
<1>7. CASE Abandon \/ (\E u \in Users : Vanish(u)) \/ UNCHANGED vars
  BY <1>1, <1>7 DEF Abandon, Vanish, vars, partitions
<1> QED BY <1>4, <1>5, <1>6, <1>7 DEF Next

\* An auditor that changes and has a claimed partition has just claimed it.
LEMMA ClaimedBefore ==
  ASSUME TypeInv, [Next]_vars, auditor'.phase = "claimed", auditor' # auditor
  PROVE  \E r \in Ranges : ClaimCoveragePartition(r)
<1>1. Idle.phase # "claimed"
  BY DEF Idle
<1>2. CASE RunStep
  BY <1>2 DEF RunStep, EnsureMainRun, ApplyEnumerationShardPage, EnumerationEnds,
              MaybeCompleteMain
<1>3. CASE WorkerStep
  BY <1>3 DEF WorkerStep, CompleteAccount, MoveToOverflow, CompleteInaccessible,
              CompleteOverflow
<1>4. CASE AuditorStep
  <2> USE Parts DEF AuditorType, Auditors
  <2>1. ASSUME NEW g \in Generations, EnsureCoveragePartitions(g) PROVE FALSE
    BY <2>1 DEF EnsureCoveragePartitions
  <2>2. ASSUME CountPartitions PROVE FALSE
    BY <1>1, <2>2 DEF CountPartitions
  <2>3. ASSUME CountDiffers \/ EnumerateSearchPartition PROVE FALSE
    BY <2>3 DEF CountDiffers, EnumerateSearchPartition
  <2>4. ASSUME \/ FinalizeCoverageGeneration \/ RetryCoveragePartition \/ MarkCoverageCountConsistent
               \/ StageCoveragePartition \/ \E i \in BOOLEAN : SplitCoveragePartition(i)
        PROVE  FALSE
    BY <1>1, <2>4 DEF FinalizeCoverageGeneration, RetryCoveragePartition,
       MarkCoverageCountConsistent, StageCoveragePartition, SplitCoveragePartition
  <2> QED BY <1>4, <2>1, <2>2, <2>3, <2>4 DEF AuditorStep
<1>5. CASE Abandon \/ (\E u \in Users : Vanish(u)) \/ UNCHANGED vars
  BY <1>1, <1>5 DEF Abandon, Vanish, vars
<1> QED BY <1>2, <1>3, <1>4, <1>5 DEF Next

\* The counts are read by the claim, agree when they are compared, and drift
\* apart in one direction.
LEMMA CountedStep ==
  ASSUME TypeInv, CountedInv, [Next]_vars
  PROVE  CountedInv'
<1>1. LedgerType /\ AuditorType /\ AuditorType'
  BY Parts, TypesAfter
<1>2. ASSUME NEW r \in Ranges PROVE Day(r[1]) \in LedgerDays
  BY DayCounted DEF Ranges
<1>3. ASSUME NEW g \in Generations, NEW r \in Ranges, part'[g][r].status = "count_consistent"
      PROVE  SearchCount(r)' <= dayCount'[g][Day(r[1])]
  <2>1. SearchCount(r) \in Nat /\ SearchCount(r)' \in Nat /\ SearchCount(r)' <= SearchCount(r)
    BY SearchType, CountsDrift
  <2>2. dayCount[g][Day(r[1])] \in Nat /\ dayCount'[g][Day(r[1])] \in Nat
        /\ dayCount[g][Day(r[1])] <= dayCount'[g][Day(r[1])]
    BY <1>2, CountsDrift
  <2>3. SearchCount(r) <= dayCount[g][Day(r[1])]
    <3>1. CASE part[g][r].status = "count_consistent"
      BY <3>1 DEF CountedInv
    <3>2. CASE part[g][r].status # "count_consistent"
      <4>1. MarkCoverageCountConsistent /\ g = auditor.gen /\ r = auditor.range
        BY <1>3, <3>2, ConsistentBefore
      <4>2. auditor.phase = "claimed" /\ auditor.local = SearchCount(r)
        BY <4>1 DEF MarkCoverageCountConsistent
      <4>3. auditor.local # NoCount
        BY <2>1, <4>2 DEF NoCount
      <4> QED BY <4>1, <4>2, <4>3 DEF CountedInv
    <3> QED BY <3>1, <3>2
  <2> QED BY <2>1, <2>2, <2>3
<1>4. ASSUME auditor'.phase = "claimed", auditor'.local # NoCount
      PROVE  auditor'.local <= dayCount'[auditor'.gen][Day(auditor'.range[1])]
  <2>1. PICK g \in Generations, r \in Ranges, n \in Nat :
          g = auditor'.gen /\ r = auditor'.range /\ n = auditor'.local
    BY <1>1, <1>4 DEF AuditorType, AuditorInv, Auditors, Held
  <2>2. dayCount[g][Day(r[1])] \in Nat /\ dayCount'[g][Day(r[1])] \in Nat
        /\ dayCount[g][Day(r[1])] <= dayCount'[g][Day(r[1])]
    BY <1>2, CountsDrift
  <2>3. n <= dayCount[g][Day(r[1])]
    <3>1. CASE auditor' = auditor
      BY <1>4, <2>1, <3>1 DEF CountedInv
    <3>2. CASE auditor' # auditor
      <4>1. PICK q \in Ranges : ClaimCoveragePartition(q)
        BY <1>4, <3>2, ClaimedBefore
      <4>2. auditor' = [auditor EXCEPT !.phase = "claimed", !.range = q,
                                       !.local = LocalCount(auditor.gen, q)]
        BY <4>1 DEF ClaimCoveragePartition
      <4>3. r = q /\ g = auditor.gen /\ n = LocalCount(g, q)
        BY <1>1, <2>1, <4>2 DEF AuditorType, Auditors
      <4>4. n = dayCount[g][Day(r[1])]
        BY <1>4, <2>1, <4>3 DEF LocalCount
      <4> QED BY <2>2, <4>4
    <3> QED BY <3>1, <3>2
  <2> QED BY <2>1, <2>2, <2>3
<1> QED BY <1>3, <1>4 DEF CountedInv

\* When a generation is reconciled, every account that search still lists is
\* discovered and settled in it, except in days whose counts agreed: of those
\* the ledger holds at least as many settled accounts as search lists.  For any
\* limit, any counts that changed while they were read, and any order of repairs
\* and crashes.
THEOREM ReconciledIsAudited == Spec => []ReconciledMeansAudited
<1>1. Init => AuditInv
  <2> SUFFICES ASSUME Init PROVE AuditInv
    OBVIOUS
  <2>1. /\ \A g \in Generations : status[g] = "none" /\ bits[g]["inaccessible"] = {}
        /\ \A g \in Generations, r \in Ranges : part[g][r].status = "none" /\ staged[g][r] = {}
        /\ auditor.phase = "idle"
    BY DEF Init, Idle, Bitmaps
  <2> QED BY <2>1 DEF AuditInv, GoneInv, StagedInv, ListingInv, GivenUpInv, KnownInv,
                      CountedInv, Done
<1>2. CoreInv /\ AuditInv /\ [Next]_vars => AuditInv'
  BY GoneStep, StagedStep, ListingStep, GivenUpStep, KnownStep, CountedStep DEF AuditInv, CoreInv
<1>3. CoreInv /\ AuditInv /\ LedgerIsExact => ReconciledMeansAudited
  <2> SUFFICES ASSUME CoreInv, AuditInv, LedgerIsExact,
                      NEW g \in Generations, status[g] = "count_reconciled"
               PROVE  /\ \A u \in listed : Created[u] <= Cutoff =>
                           \/ u \in bits[g]["discovered"] \cap bits[g]["successful"]
                           \/ part[g][WholeDay(Day(Created[u]))].status = "count_consistent"
                      /\ \A d \in Days : part[g][WholeDay(d)].status = "count_consistent" =>
                           SearchCount(WholeDay(d))
                             <= Cardinality({u \in bits[g]["successful"] : Day(Created[u]) = d})
    BY DEF ReconciledMeansAudited
  <2>1. ASSUME NEW u \in listed, Created[u] <= Cutoff
        PROVE  \/ u \in bits[g]["discovered"] \cap bits[g]["successful"]
               \/ part[g][WholeDay(Day(Created[u]))].status = "count_consistent"
    <3>1. PICK s \in 0 .. Cutoff : s = Created[u]
      <4>1. u \in Users
        BY Parts DEF CoreInv, RestType
      <4> QED BY <2>1, <4>1, ConstantsAssumption
    <3>2. Tiled(part[g])
      <4>1. HasParts(g)
        BY DEF AuditInv, GivenUpInv
      <4> QED BY <4>1 DEF HasParts, CoreInv, TilingInv, DaysInv, Fresh
    <3>3. PICK r \in Ranges : Leaf(part[g], r) /\ s \in Seconds(r)
      BY <3>2 DEF Tiled, Covered
    <3>4. part[g][r].status \in {"count_consistent", "resolved"}
      <4>1. part[g][r].status \notin {"none", "splitting"} /\ part[g][r].status # "unresolved"
        BY <3>3 DEF Leaf, AuditInv, GivenUpInv
      <4>2. part[g][r].status \notin Active
        BY DEF CoreInv, OrderInv, Auditable
      <4>3. part[g][r].status \in PartStatuses
        BY Parts DEF CoreInv, PartType, Partitions
      <4> QED BY <4>1, <4>2, <4>3 DEF PartStatuses, Active
    <3>5. CASE part[g][r].status = "count_consistent"
      <4>1. r = WholeDay(Day(r[1]))
        BY <3>5 DEF AuditInv, StagedInv
      <4>2. PICK d \in Days : d = Day(r[1])
        BY DayIn DEF Ranges
      <4>3. d = Day(s)
        BY <3>3, <4>1, <4>2, DayOf
      <4> QED BY <3>1, <3>5, <4>1, <4>2, <4>3
    <3>6. CASE part[g][r].status = "resolved"
      <4>1. u \in staged[g][r]
        BY <3>1, <3>3, <3>6, Parts DEF AuditInv, StagedInv, Done, SearchUsers, CreatedIn,
                                       CoreInv, RestType
      <4>2. RowsOf(g, r) = {}
        BY <3>6 DEF CoreInv, TrackingInv, RepairsAreTracked
      <4>3. u \in settled[g][r]
        BY <4>1, <4>2 DEF CoreInv, TrackingInv, RepairsAreTracked
      <4>4. u \in bits[g]["successful"] \cup bits[g]["inaccessible"]
        BY <4>3 DEF CoreInv, TrackingInv, RepairsAreTracked
      <4> QED BY <4>1, <4>4 DEF AuditInv, GoneInv, KnownInv
    <3> QED BY <3>4, <3>5, <3>6
  <2>2. ASSUME NEW d \in Days, part[g][WholeDay(d)].status = "count_consistent"
        PROVE  SearchCount(WholeDay(d))
                 <= Cardinality({u \in bits[g]["successful"] : Day(Created[u]) = d})
    <3>1. PICK r \in Ranges : r = WholeDay(d)
      BY DayOf
    <3>2. SearchCount(r) <= dayCount[g][Day(r[1])]
      BY <2>2, <3>1 DEF AuditInv, CountedInv
    <3>3. Day(r[1]) = d
      <4>1. r[1] \in 0 .. Cutoff /\ r[1] \in Seconds(r)
        BY DEF Ranges, Seconds
      <4> QED BY <3>1, <4>1, DayOf
    <3>4. d \in LedgerDays
      BY DEF LedgerDays
    <3> QED BY <3>1, <3>2, <3>3, <3>4 DEF LedgerIsExact
  <2> QED BY <2>1, <2>2
<1> QED BY <1>1, <1>2, <1>3, CoreInvariant, LedgerStaysExact, PTL DEF Spec

=============================================================================
