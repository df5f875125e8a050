------------------------- MODULE AccountQueueProofs -------------------------
(* Theorems about AccountQueue. *)
EXTENDS AccountQueue, FiniteSetTheorems, TLAPS

USE ConstantsAssumption

-----------------------------------------------------------------------------
(* Finite sets of jobs *)

\* There are finitely many jobs, so that any set of them can be counted.
LEMMA JobsFinite == IsFiniteSet(Jobs)
<1>1. IsFiniteSet(Runs)
  BY FS_Interval DEF Runs
<1>2. IsFiniteSet(Runs \X Accounts)
  BY <1>1, FS_Product
<1>3. IsFiniteSet(Known)
  BY FS_Subset
<1>4. IsFiniteSet({NoRun})
  BY FS_Singleton
<1>5. IsFiniteSet({NoRun} \X Known)
  BY <1>3, <1>4, FS_Product
<1> QED BY <1>2, <1>5, FS_Union DEF Jobs

\* The size of a set of jobs is a number.
LEMMA JobsCounted ==
  ASSUME NEW S \in SUBSET Jobs
  PROVE  IsFiniteSet(S) /\ Cardinality(S) \in Nat
BY JobsFinite, FS_Subset, FS_CardinalityType

-----------------------------------------------------------------------------
(* Types *)

\* The statements on the queue keep its columns typed.
LEMMA RowStatementsTyped ==
  ASSUME RowsTyped, NEW w \in Workers, NEW S
  PROVE  /\ \A st \in Statuses : Release(w, S, st) => RowsTyped'
         /\ DeleteRows(S) => RowsTyped'
         /\ InsertRows(S) => RowsTyped'
         /\ \A st \in Statuses : \A tried : ClaimRows(w, S, st, tried) => RowsTyped'
<1> USE DEF RowsTyped
<1>1. ASSUME NEW st \in Statuses, Release(w, S, st) PROVE RowsTyped'
  BY <1>1 DEF Release
<1>2. ASSUME DeleteRows(S) PROVE RowsTyped'
  BY <1>2 DEF DeleteRows, Statuses
<1>3. ASSUME InsertRows(S) PROVE RowsTyped'
  BY <1>3 DEF InsertRows, Statuses
<1>4. ASSUME NEW st \in Statuses, NEW tried, ClaimRows(w, S, st, tried)
      PROVE  RowsTyped'
  BY <1>4 DEF ClaimRows
<1> QED BY <1>1, <1>2, <1>3, <1>4

\* How a worker's loop goes on keeps its variables typed.
LEMMA LoopTyped ==
  ASSUME WorkersTyped, up \in BOOLEAN, NEW w \in Workers,
         NEW S, NEW rest \in SUBSET Jobs, NEW p \in Phases
  PROVE  /\ GoOn(w, rest, p) => WorkersTyped' /\ up' \in BOOLEAN
         /\ Fail => WorkersTyped' /\ up' \in BOOLEAN
         /\ Checked(w, S, rest, p) => WorkersTyped' /\ up' \in BOOLEAN
<1> USE DEF WorkersTyped
<1>1. ASSUME GoOn(w, rest, p) PROVE WorkersTyped' /\ up' \in BOOLEAN
  BY <1>1 DEF GoOn, Phases
<1>2. ASSUME Fail PROVE WorkersTyped' /\ up' \in BOOLEAN
  BY <1>2 DEF Fail, workerVars
<1> QED BY <1>1, <1>2 DEF Checked

\* The statements that leave a claim, with what the worker does next.
LEMMA ReleaseTyped ==
  ASSUME RowsTyped, WorkersTyped, up \in BOOLEAN, NEW w \in Workers,
         NEW S, NEW rest \in SUBSET Jobs, NEW p \in Phases
  PROVE  /\ Requeue(w, S, rest, p) => RowsTyped' /\ WorkersTyped' /\ up' \in BOOLEAN
         /\ MoveToFallback(w, S, rest, p) => RowsTyped' /\ WorkersTyped' /\ up' \in BOOLEAN
         /\ \A st \in Statuses :
              GiveUp(w, S, st) => RowsTyped' /\ WorkersTyped' /\ up' \in BOOLEAN
BY RowStatementsTyped, LoopTyped DEF Requeue, MoveToFallback, GiveUp, Statuses

\* Settling rows keeps the rows and the run counters typed.
LEMMA SettleTyped ==
  ASSUME RowsTyped, RunsTyped, NEW w \in Workers,
         NEW S \in SUBSET Jobs, NEW more \in SUBSET Jobs, Settle(S, more)
  PROVE  RowsTyped' /\ RunsTyped'
<1>1. RowsTyped'
  BY RowStatementsTyped DEF Settle
<1>2. \A r : /\ Cardinality(OfRun(S, r)) \in Nat
             /\ Cardinality(OfRun(more, r)) \in Nat
  BY JobsCounted DEF OfRun
<1>3. RunsTyped'
  BY <1>2 DEF Settle, RunsTyped
<1> QED BY <1>1, <1>3

\* A key worker's step keeps the types.
LEMMA KeyStepTyped ==
  ASSUME TypeOK, NEW w \in KeyWorkers, KeyStep(w)
  PROVE  TypeOK'
<1> w \in Workers
  BY DEF Workers
<1> USE DEF TypeOK, QueueOnly, WorkerFrame
<1>0. /\ batch[w] \in SUBSET Jobs /\ tired[w] \in SUBSET Jobs /\ valid[w] \in SUBSET Jobs
      /\ up \in BOOLEAN
  BY DEF WorkersTyped, ControlTyped
<1>1. CASE KeyClaim(w)
  <2>1. PICK S \in SUBSET Jobs : ClaimRows(w, S, "running", TRUE)
    BY <1>1 DEF KeyClaim
  <2>2. RowsTyped'
    BY <2>1, RowStatementsTyped DEF Statuses
  <2>3. WorkersTyped'
    BY <2>1 DEF ClaimRows, WorkersTyped, Phases
  <2>4. RunsTyped' /\ ControlTyped'
    BY <1>1 DEF KeyClaim, runVars, enumVars, budgets, RunsTyped, ControlTyped
  <2> QED BY <2>2, <2>3, <2>4
<1>2. CASE KeyRequeue(w)
  <2>1. RowsTyped' /\ WorkersTyped' /\ up' \in BOOLEAN
    BY <1>0, <1>2, ReleaseTyped DEF KeyRequeue, Phases
  <2>2. RunsTyped' /\ ControlTyped'
    BY <1>2, <2>1 DEF KeyRequeue, runVars, enumVars, budgets, RunsTyped, ControlTyped
  <2> QED BY <2>1, <2>2
<1>3. CASE KeyBatchFailed(w)
  <2>1. RowsTyped' /\ WorkersTyped' /\ up' \in BOOLEAN
    BY <1>0, <1>3, ReleaseTyped DEF KeyBatchFailed, Phases
  <2>2. RunsTyped' /\ ControlTyped'
    BY <1>3, <2>1 DEF KeyBatchFailed, runVars, enumVars, budgets, RunsTyped, ControlTyped
  <2> QED BY <2>1, <2>2
<1>4. CASE KeyBatchInvalid(w)
  <2>1. RowsTyped' /\ WorkersTyped' /\ up' \in BOOLEAN
    BY <1>0, <1>4, ReleaseTyped DEF KeyBatchInvalid, Phases
  <2>2. RunsTyped' /\ ControlTyped'
    BY <1>4, <2>1 DEF KeyBatchInvalid, runVars, enumVars, budgets, RunsTyped, ControlTyped
  <2> QED BY <2>1, <2>2
<1>5. CASE KeyBatchFetched(w)
  BY <1>5 DEF KeyBatchFetched, rowVars, runVars, enumVars, budgets,
              RowsTyped, RunsTyped, WorkersTyped, ControlTyped, Phases
<1>6. CASE MarkAttempted(w)
  <2>1. RunsTyped' /\ (up' \in BOOLEAN => ControlTyped')
    BY <1>6 DEF MarkAttempted, runVars, enumVars, budgets, RunsTyped, ControlTyped
  <2>2. CASE batch[w] \subseteq Owned(w)
    BY <1>0, <1>6, <2>1, <2>2 DEF MarkAttempted, RowsTyped, WorkersTyped, Phases
  <2>3. CASE ~(batch[w] \subseteq Owned(w))
    <3>1. GiveUp(w, batch[w], "retry")
      BY <1>6, <2>3 DEF MarkAttempted
    <3>2. RowsTyped' /\ WorkersTyped' /\ up' \in BOOLEAN
      BY <1>0, <3>1, ReleaseTyped DEF Statuses, Phases
    <3> QED BY <2>1, <3>2
  <2> QED BY <2>2, <2>3
<1>7. CASE CountAttempts(w)
  <2>1. \A r : Cardinality(OfRun(Uncounted(w), r)) \in Nat
    BY <1>0, JobsCounted DEF OfRun, Uncounted
  <2>2. CASE batch[w] \subseteq Owned(w)
    <3>1. RowsTyped' /\ WorkersTyped' /\ ControlTyped'
      BY <1>0, <1>7, <2>2 DEF CountAttempts, enumVars, budgets, RowsTyped,
                              WorkersTyped, ControlTyped, Phases, Uncounted
    <3>2. RunsTyped'
      BY <1>7, <2>1, <2>2 DEF CountAttempts, RunsTyped
    <3> QED BY <3>1, <3>2
  <2>3. CASE ~(batch[w] \subseteq Owned(w))
    <3>1. GiveUp(w, batch[w], "retry") /\ RunsTyped' /\ UNCHANGED <<enumVars, monitor, budgets>>
      BY <1>7, <2>3 DEF CountAttempts, RunsTyped
    <3>2. RowsTyped' /\ WorkersTyped' /\ up' \in BOOLEAN
      BY <1>0, <3>1, ReleaseTyped DEF Statuses, Phases
    <3> QED BY <3>1, <3>2 DEF ControlTyped, enumVars, budgets
  <2> QED BY <2>2, <2>3
<1>8. CASE KeyComplete(w)
  <2>1. ControlTyped' \/ up' \notin BOOLEAN
    BY <1>8 DEF KeyComplete, enumVars, budgets, ControlTyped
  <2>2. CASE valid[w] \subseteq Owned(w)
    <3>1. PICK more \in SUBSET valid[w] : Settle(valid[w], more)
      BY <1>8, <2>2 DEF KeyComplete
    <3>2. RowsTyped' /\ RunsTyped'
      BY <1>0, <3>1, SettleTyped
    <3>3. WorkersTyped' /\ up' \in BOOLEAN
      BY <1>0, <1>8, <2>2, LoopTyped DEF KeyComplete, Phases
    <3> QED BY <2>1, <3>2, <3>3
  <2>3. CASE ~(valid[w] \subseteq Owned(w))
    <3>1. GiveUp(w, valid[w], "retry") /\ UNCHANGED <<overflow, runVars>>
      BY <1>8, <2>3 DEF KeyComplete
    <3>2. RowsTyped' /\ WorkersTyped' /\ up' \in BOOLEAN
      BY <1>0, <3>1, ReleaseTyped DEF Statuses, Phases
    <3> QED BY <2>1, <3>1, <3>2 DEF RunsTyped, runVars
  <2> QED BY <2>2, <2>3
<1>9. CASE KeyMoveMissing(w)
  <2>1. RowsTyped' /\ WorkersTyped' /\ up' \in BOOLEAN
    BY <1>0, <1>9, ReleaseTyped DEF KeyMoveMissing, Phases
  <2>2. RunsTyped' /\ ControlTyped'
    BY <1>9, <2>1 DEF KeyMoveMissing, runVars, enumVars, budgets, RunsTyped, ControlTyped
  <2> QED BY <2>1, <2>2
<1> QED BY <1>1, <1>2, <1>3, <1>4, <1>5, <1>6, <1>7, <1>8, <1>9 DEF KeyStep

\* A repair worker's step keeps the types.
LEMMA RepairStepTyped ==
  ASSUME TypeOK, NEW w \in Repairers, RepairStep(w)
  PROVE  TypeOK'
<1> w \in Workers
  BY DEF Workers
<1> USE DEF TypeOK, QueueOnly, WorkerFrame
<1>0. /\ batch[w] \in SUBSET Jobs /\ tired[w] \in SUBSET Jobs /\ valid[w] \in SUBSET Jobs
      /\ up \in BOOLEAN
  BY DEF WorkersTyped, ControlTyped
<1>1. CASE RepairClaim(w)
  <2>1. PICK S \in SUBSET Jobs : ClaimRows(w, S, "rest_fallback_running", FALSE)
    BY <1>1 DEF RepairClaim
  <2>2. RowsTyped'
    BY <2>1, RowStatementsTyped DEF Statuses
  <2>3. WorkersTyped'
    BY <2>1 DEF ClaimRows, WorkersTyped, Phases
  <2>4. RunsTyped' /\ ControlTyped'
    BY <1>1 DEF RepairClaim, runVars, enumVars, budgets, RunsTyped, ControlTyped
  <2> QED BY <2>2, <2>3, <2>4
<1>2. CASE RepairRequeue(w)
  <2>1. RowsTyped' /\ WorkersTyped' /\ up' \in BOOLEAN
    BY <1>0, <1>2, ReleaseTyped DEF RepairRequeue, Phases
  <2>2. RunsTyped' /\ ControlTyped'
    BY <1>2, <2>1 DEF RepairRequeue, runVars, enumVars, budgets, RunsTyped, ControlTyped
  <2> QED BY <2>1, <2>2
<1>3. CASE RepairFetched(w)
  BY <1>3 DEF RepairFetched, rowVars, runVars, enumVars, budgets,
              RowsTyped, RunsTyped, WorkersTyped, ControlTyped, Phases
<1>4. CASE RepairComplete(w)
  <2>1. up' \in BOOLEAN => ControlTyped'
    BY <1>4 DEF RepairComplete, enumVars, budgets, ControlTyped
  <2>2. CASE valid[w] \subseteq Owned(w)
    <3>1. PICK more \in SUBSET valid[w] : Settle(valid[w], more)
      BY <1>4, <2>2 DEF RepairComplete
    <3>2. RowsTyped' /\ RunsTyped'
      BY <1>0, <3>1, SettleTyped
    <3>3. WorkersTyped' /\ up' \in BOOLEAN
      BY <1>0, <1>4, <2>2, LoopTyped DEF RepairComplete, Phases
    <3> QED BY <2>1, <3>2, <3>3
  <2>3. CASE ~(valid[w] \subseteq Owned(w))
    <3>1. GiveUp(w, batch[w], "rest_fallback") /\ UNCHANGED <<overflow, runVars>>
      BY <1>4, <2>3 DEF RepairComplete
    <3>2. RowsTyped' /\ WorkersTyped' /\ up' \in BOOLEAN
      BY <1>0, <3>1, ReleaseTyped DEF Statuses, Phases
    <3> QED BY <2>1, <3>1, <3>2 DEF RunsTyped, runVars
  <2> QED BY <2>2, <2>3
<1>5. CASE RESTSettle(w)
  <2>1. up' \in BOOLEAN => ControlTyped'
    BY <1>5 DEF RESTSettle, enumVars, budgets, ControlTyped
  <2>2. PICK k \in batch[w] :
          IF k \in Owned(w)
          THEN Settle({k}, {}) /\ GoOn(w, batch[w] \ {k}, "rest")
          ELSE GiveUp(w, batch[w] \ {k}, "rest_fallback") /\ UNCHANGED <<overflow, runVars>>
    BY <1>5 DEF RESTSettle
  <2>3. {k} \in SUBSET Jobs /\ {} \in SUBSET Jobs /\ batch[w] \ {k} \in SUBSET Jobs
    BY <1>0
  <2>4. CASE k \in Owned(w)
    <3>1. RowsTyped' /\ RunsTyped'
      BY <2>2, <2>3, <2>4, SettleTyped
    <3>2. WorkersTyped' /\ up' \in BOOLEAN
      BY <1>0, <2>2, <2>3, <2>4, LoopTyped DEF Phases
    <3> QED BY <2>1, <3>1, <3>2
  <2>5. CASE k \notin Owned(w)
    <3>1. RowsTyped' /\ WorkersTyped' /\ up' \in BOOLEAN
      BY <1>0, <2>2, <2>5, ReleaseTyped DEF Statuses, Phases
    <3> QED BY <2>1, <2>2, <2>5, <3>1 DEF RunsTyped, runVars
  <2> QED BY <2>4, <2>5
<1>6. CASE RESTFailed(w)
  <2>1. RunsTyped' /\ (up' \in BOOLEAN => ControlTyped')
    BY <1>6 DEF RESTFailed, runVars, enumVars, budgets, RunsTyped, ControlTyped
  <2>2. PICK k \in batch[w] :
          IF k \in Owned(w)
          THEN Release(w, {k}, "rest_fallback") /\ GoOn(w, batch[w] \ {k}, "rest")
          ELSE GiveUp(w, batch[w] \ {k}, "rest_fallback")
    BY <1>6 DEF RESTFailed
  <2>3. RowsTyped' /\ WorkersTyped' /\ up' \in BOOLEAN
    <3>1. batch[w] \ {k} \in SUBSET Jobs
      BY <1>0
    <3>2. CASE k \in Owned(w)
      BY <1>0, <2>2, <3>1, <3>2, LoopTyped, RowStatementsTyped DEF Statuses, Phases
    <3>3. CASE k \notin Owned(w)
      BY <1>0, <2>2, <3>3, ReleaseTyped DEF Statuses, Phases
    <3> QED BY <3>2, <3>3
  <2> QED BY <2>1, <2>3
<1> QED BY <1>1, <1>2, <1>3, <1>4, <1>5, <1>6 DEF RepairStep

\* A step of enumeration, of the other sources or of the monitor keeps the types.
LEMMA RunStepTyped ==
  ASSUME TypeOK, RunStep
  PROVE  TypeOK'
<1> USE DEF TypeOK, rowVars, runVars, workerVars, enumVars, budgets
<1>1. ASSUME NEW r \in Runs, AdmitPage(r) PROVE TypeOK'
  BY <1>1 DEF AdmitPage, PausedNext, RowsTyped, RunsTyped, WorkersTyped, ControlTyped
<1>2. ASSUME NEW r \in Runs, EnsureMainRun(r) PROVE TypeOK'
  BY <1>2 DEF EnsureMainRun, RowsTyped, RunsTyped, WorkersTyped, ControlTyped
<1>3. ASSUME NEW r \in Runs, MonitorRead(r) PROVE TypeOK'
  BY <1>3 DEF MonitorRead, RowsTyped, RunsTyped, WorkersTyped, ControlTyped
<1>4. ASSUME NEW r \in Runs, SeedEnumerationRepair(r) PROVE TypeOK'
  BY <1>4 DEF SeedEnumerationRepair, RowsTyped, RunsTyped, WorkersTyped, ControlTyped
<1>5. ASSUME NEW r \in Runs, OverflowDone(r) PROVE TypeOK'
  BY <1>5 DEF OverflowDone, RowsTyped, RunsTyped, WorkersTyped, ControlTyped
<1>6. ASSUME NEW S \in SUBSET Known, Enqueue(S) PROVE TypeOK'
  <2>1. RowsTyped'
    BY <1>6 DEF Enqueue, InsertRows, RowsTyped, Statuses
  <2> QED BY <1>6, <2>1 DEF Enqueue, QueueOnly, RunsTyped, WorkersTyped, ControlTyped
<1>7. ASSUME NEW S \in SUBSET Accounts, NEW last \in BOOLEAN, EnumeratePage(S, last)
      PROVE  TypeOK'
  <2>1. RowsTyped'
    BY <1>7 DEF EnumeratePage, InsertRows, RowsTyped, Statuses
  <2>2. admitted \in Runs
    BY <1>7 DEF EnumeratePage, ControlTyped
  <2>3. Cardinality(NewRows(admitted, S)) \in Nat
    BY <2>2, JobsCounted DEF NewRows, Jobs
  <2>4. RunsTyped'
    BY <1>7, <2>2, <2>3 DEF EnumeratePage, RunsTyped
  <2> QED BY <1>7, <2>1, <2>4 DEF EnumeratePage, WorkersTyped, ControlTyped
<1>8. CASE MonitorCheck
  BY <1>8 DEF MonitorCheck, RowsTyped, RunsTyped, WorkersTyped, ControlTyped
<1>9. CASE MonitorCommit
  BY <1>9 DEF MonitorCommit, RowsTyped, RunsTyped, WorkersTyped, ControlTyped
<1> QED BY <1>1, <1>2, <1>3, <1>4, <1>5, <1>6, <1>7, <1>8, <1>9 DEF RunStep

\* Type correctness: the queue, the run counters and the workers keep their
\* types over every interleaving, fault and restart.
THEOREM TypeCorrect == Spec => []TypeOK
<1>1. Init => TypeOK
  <2> SUFFICES ASSUME Init PROVE TypeOK
    OBVIOUS
  <2>1. RowsTyped
    BY DEF Init, RowsTyped, Statuses
  <2>2. RunsTyped
    BY DEF Init, RunsTyped
  <2>3. WorkersTyped
    BY DEF Init, WorkersTyped, Phases
  <2>4. ControlTyped
    BY DEF Init, ControlTyped
  <2> QED BY <2>1, <2>2, <2>3, <2>4 DEF TypeOK
<1>2. TypeOK /\ [Next]_vars => TypeOK'
  <2> SUFFICES ASSUME TypeOK, [Next]_vars PROVE TypeOK'
    OBVIOUS
  <2>1. ASSUME NEW w \in KeyWorkers, KeyStep(w) PROVE TypeOK'
    BY <2>1, KeyStepTyped
  <2>2. ASSUME NEW w \in Repairers, RepairStep(w) PROVE TypeOK'
    BY <2>2, RepairStepTyped
  <2>3. CASE RunStep
    BY <2>3, RunStepTyped
  <2> USE DEF TypeOK, runVars, workerVars, enumVars, budgets, RunsTyped, WorkersTyped,
              ControlTyped
  <2>4. ASSUME NEW t \in Tokens, ReapExpiredLeases(t) PROVE TypeOK'
    BY <2>4 DEF ReapExpiredLeases, LaneOf, RowsTyped, Statuses
  <2>5. CASE Crash
    <3>1. ControlTyped'
      <4>1. up' \in BOOLEAN
        BY <2>5 DEF Crash
      <4>2. faults' \in Nat
        BY <2>5 DEF Crash
      <4>3. UNCHANGED <<enumVars, monitor, repairs>>
        BY <2>5 DEF Crash
      <4> QED BY <4>1, <4>2, <4>3
    <3>2. RowsTyped' /\ RunsTyped' /\ WorkersTyped'
      BY <2>5 DEF Crash, RowsTyped, rowVars
    <3> QED BY <3>1, <3>2
  <2>6. CASE Recover
    BY <2>6 DEF Recover, LaneOf, RowsTyped, Statuses, Phases, NoRun
  <2>7. CASE UNCHANGED vars
    BY <2>7 DEF vars, rowVars, RowsTyped
  <2> QED BY <2>1, <2>2, <2>3, <2>4, <2>5, <2>6, <2>7 DEF Next
<1> QED BY <1>1, <1>2, PTL DEF Spec

-----------------------------------------------------------------------------
(* What a step does to the queue: every step is of one of these kinds *)

Counters == <<enumerated, attempted, processed>>

\* Claims end or lose jobs, and none is made.
ClaimsShrink ==
  \A w \in Workers : /\ batch'[w] \subseteq batch[w]
                     /\ claim'[w] = claim[w] \/ (batch'[w] = {} /\ claim'[w] = NoToken)

KeepsRows == UNCHANGED <<status, token, firstCounted, Counters>> /\ ClaimsShrink

Counts == \E w \in KeyWorkers : CountAttempts(w) /\ batch[w] \subseteq Owned(w)

Releases ==
  /\ \E w \in Workers, S \in SUBSET Jobs, st \in {"retry", "rest_fallback"} :
       /\ Release(w, S, st)
       /\ w \in KeyWorkers \/ st = "rest_fallback"
  /\ ClaimsShrink
  /\ UNCHANGED Counters

Settles ==
  /\ \E w \in Workers : phase[w] \in {"complete", "rest"} /\
       \E S \in SUBSET Owned(w) : \E more \in SUBSET S : Settle(S, more)
  /\ ClaimsShrink

Claims ==
  /\ \/ \E w \in KeyWorkers, S \in SUBSET {k \in Jobs : status[k] \in {"pending", "retry"}} :
          ClaimRows(w, S, "running", TRUE)
     \/ \E w \in Repairers, S \in SUBSET {k \in Jobs : status[k] = "rest_fallback"} :
          ClaimRows(w, S, "rest_fallback_running", FALSE)
  /\ UNCHANGED Counters

Inserts ==
  /\ \/ \E S \in SUBSET Known : Enqueue(S)
     \/ \E S \in SUBSET Accounts, last \in BOOLEAN : EnumeratePage(S, last)
  /\ ClaimsShrink

StepKinds ==
  \/ KeepsRows \/ Counts \/ Releases \/ Settles \/ Claims \/ Inserts
  \/ \E t \in Tokens : ReapExpiredLeases(t)
  \/ Recover

\* A worker that goes on, or fails, makes no claim.
LEMMA LoopShrinks ==
  ASSUME WorkersTyped, NEW w \in Workers, NEW S, NEW rest \in SUBSET batch[w], NEW p
  PROVE  /\ GoOn(w, rest, p) => ClaimsShrink
         /\ Fail => ClaimsShrink
         /\ Checked(w, S, rest, p) => ClaimsShrink
<1>1. ASSUME GoOn(w, rest, p) PROVE ClaimsShrink
  BY <1>1 DEF GoOn, ClaimsShrink, WorkersTyped
<1>2. ASSUME Fail PROVE ClaimsShrink
  BY <1>2 DEF Fail, ClaimsShrink, workerVars
<1> QED BY <1>1, <1>2 DEF Checked

\* The statements that leave a claim are releases.
LEMMA ReleaseKinds ==
  ASSUME TypeOK, NEW w \in Workers, NEW S \in SUBSET Jobs,
         NEW rest \in SUBSET batch[w], NEW p, UNCHANGED Counters
  PROVE  /\ w \in KeyWorkers /\ Requeue(w, S, rest, p) => Releases
         /\ MoveToFallback(w, S, rest, p) => Releases
         /\ w \in KeyWorkers /\ GiveUp(w, S, "retry") => Releases
         /\ GiveUp(w, S, "rest_fallback") => Releases
<1>0. /\ Fail => ClaimsShrink
      /\ Checked(w, S, rest, p) => ClaimsShrink
  BY LoopShrinks DEF TypeOK
<1> USE <1>0
<1>1. ASSUME w \in KeyWorkers, Requeue(w, S, rest, p) PROVE Releases
  BY <1>1 DEF Requeue, Releases
<1>2. ASSUME MoveToFallback(w, S, rest, p) PROVE Releases
  BY <1>2 DEF MoveToFallback, Releases
<1>3. ASSUME w \in KeyWorkers, GiveUp(w, S, "retry") PROVE Releases
  BY <1>3 DEF GiveUp, Releases
<1>4. ASSUME GiveUp(w, S, "rest_fallback") PROVE Releases
  BY <1>4 DEF GiveUp, Releases
<1> QED BY <1>1, <1>2, <1>3, <1>4

\* Every step of the system is of one of the kinds.
LEMMA WorkerStepKinds ==
  ASSUME TypeOK, NEW w \in Workers,
         (w \in KeyWorkers /\ KeyStep(w)) \/ (w \in Repairers /\ RepairStep(w))
  PROVE  StepKinds
<1>0. /\ batch[w] \in SUBSET Jobs /\ tired[w] \in SUBSET Jobs /\ valid[w] \in SUBSET Jobs
      /\ {} \in SUBSET batch[w] /\ batch[w] \ tired[w] \in SUBSET batch[w]
      /\ WorkersTyped
  BY DEF TypeOK, WorkersTyped
<1>1. CASE KeyClaim(w) /\ w \in KeyWorkers
  <2>1. PICK S \in SUBSET {k \in Jobs : status[k] \in {"pending", "retry"}} :
          ClaimRows(w, S, "running", TRUE)
    BY <1>1 DEF KeyClaim
  <2>2. UNCHANGED Counters
    BY <1>1 DEF KeyClaim, QueueOnly, runVars, Counters
  <2> QED BY <1>1, <2>1, <2>2 DEF Claims, StepKinds
<1>2. CASE RepairClaim(w) /\ w \in Repairers
  <2>1. PICK S \in SUBSET {k \in Jobs : status[k] = "rest_fallback"} :
          ClaimRows(w, S, "rest_fallback_running", FALSE)
    BY <1>2 DEF RepairClaim
  <2>2. UNCHANGED Counters
    BY <1>2 DEF RepairClaim, QueueOnly, runVars, Counters
  <2> QED BY <1>2, <2>1, <2>2 DEF Claims, StepKinds
<1>3. CASE \/ w \in KeyWorkers /\ KeyRequeue(w)
           \/ KeyBatchFailed(w) \/ KeyBatchInvalid(w) \/ KeyMoveMissing(w) \/ RepairRequeue(w)
  <2>1. UNCHANGED Counters
    BY <1>3 DEF KeyRequeue, KeyBatchFailed, KeyBatchInvalid, KeyMoveMissing,
                RepairRequeue, QueueOnly, runVars, Counters
  <2>2. Releases
    BY <1>0, <1>3, <2>1, ReleaseKinds
       DEF KeyRequeue, KeyBatchFailed, KeyBatchInvalid, KeyMoveMissing, RepairRequeue
  <2> QED BY <2>2 DEF StepKinds
<1>4. CASE KeyBatchFetched(w) \/ RepairFetched(w)
  BY <1>0, <1>4 DEF KeyBatchFetched, RepairFetched, rowVars, QueueOnly, runVars,
                    StepKinds, KeepsRows, ClaimsShrink, Counters
<1>5. CASE w \in KeyWorkers /\ MarkAttempted(w)
  <2>1. UNCHANGED Counters
    BY <1>5 DEF MarkAttempted, QueueOnly, runVars, Counters
  <2>2. CASE batch[w] \subseteq Owned(w)
    BY <1>0, <1>5, <2>1, <2>2 DEF MarkAttempted, StepKinds, KeepsRows, ClaimsShrink
  <2>3. CASE ~(batch[w] \subseteq Owned(w))
    BY <1>0, <1>5, <2>1, <2>3, ReleaseKinds DEF MarkAttempted, StepKinds
  <2> QED BY <2>2, <2>3
<1>6. CASE w \in KeyWorkers /\ CountAttempts(w)
  <2>1. CASE batch[w] \subseteq Owned(w)
    BY <1>6, <2>1 DEF StepKinds, Counts
  <2>2. CASE ~(batch[w] \subseteq Owned(w))
    <3>1. GiveUp(w, batch[w], "retry") /\ UNCHANGED Counters
      BY <1>6, <2>2 DEF CountAttempts, Counters
    <3> QED BY <1>0, <1>6, <3>1, ReleaseKinds DEF StepKinds
  <2> QED BY <2>1, <2>2
<1>7. CASE w \in KeyWorkers /\ KeyComplete(w)
  <2>1. CASE valid[w] \subseteq Owned(w)
    <3>1. ClaimsShrink
      BY <1>0, <1>7, <2>1, LoopShrinks DEF KeyComplete
    <3>2. PICK more \in SUBSET valid[w] : Settle(valid[w], more)
      BY <1>7, <2>1 DEF KeyComplete
    <3> QED BY <1>0, <1>7, <2>1, <3>1, <3>2 DEF KeyComplete, StepKinds, Settles
  <2>2. CASE ~(valid[w] \subseteq Owned(w))
    <3>1. GiveUp(w, valid[w], "retry") /\ UNCHANGED Counters
      BY <1>7, <2>2 DEF KeyComplete, runVars, Counters
    <3> QED BY <1>0, <1>7, <3>1, ReleaseKinds DEF StepKinds
  <2> QED BY <2>1, <2>2
<1>8. CASE RepairComplete(w)
  <2>1. CASE valid[w] \subseteq Owned(w)
    <3>1. ClaimsShrink
      BY <1>0, <1>8, <2>1, LoopShrinks DEF RepairComplete
    <3>2. PICK more \in SUBSET valid[w] : Settle(valid[w], more)
      BY <1>8, <2>1 DEF RepairComplete
    <3> QED BY <1>0, <1>8, <2>1, <3>1, <3>2 DEF RepairComplete, StepKinds, Settles
  <2>2. CASE ~(valid[w] \subseteq Owned(w))
    <3>1. GiveUp(w, batch[w], "rest_fallback") /\ UNCHANGED Counters
      BY <1>8, <2>2 DEF RepairComplete, runVars, Counters
    <3> QED BY <1>0, <3>1, ReleaseKinds DEF StepKinds
  <2> QED BY <2>1, <2>2
<1>9. CASE RESTSettle(w)
  <2>1. PICK k \in batch[w] :
          IF k \in Owned(w)
          THEN Settle({k}, {}) /\ GoOn(w, batch[w] \ {k}, "rest")
          ELSE GiveUp(w, batch[w] \ {k}, "rest_fallback") /\ UNCHANGED <<overflow, runVars>>
    BY <1>9 DEF RESTSettle
  <2>2. phase[w] = "rest" /\ {k} \in SUBSET Jobs /\ {} \in SUBSET Jobs
        /\ batch[w] \ {k} \in SUBSET batch[w] /\ batch[w] \ {k} \in SUBSET Jobs
    BY <1>0, <1>9 DEF RESTSettle
  <2>3. CASE k \in Owned(w)
    <3>1. ClaimsShrink
      BY <1>0, <2>1, <2>2, <2>3, LoopShrinks
    <3>2. {k} \in SUBSET Owned(w)
      BY <2>3
    <3> QED BY <2>1, <2>2, <2>3, <3>1, <3>2 DEF StepKinds, Settles
  <2>4. CASE k \notin Owned(w)
    <3>1. GiveUp(w, batch[w] \ {k}, "rest_fallback") /\ UNCHANGED Counters
      BY <2>1, <2>4 DEF runVars, Counters
    <3> QED BY <2>2, <3>1, ReleaseKinds DEF StepKinds
  <2> QED BY <2>3, <2>4
<1>10. CASE RESTFailed(w)
  <2>1. PICK k \in batch[w] :
          IF k \in Owned(w)
          THEN Release(w, {k}, "rest_fallback") /\ GoOn(w, batch[w] \ {k}, "rest")
          ELSE GiveUp(w, batch[w] \ {k}, "rest_fallback")
    BY <1>10 DEF RESTFailed
  <2>2. {k} \in SUBSET Jobs /\ batch[w] \ {k} \in SUBSET batch[w]
        /\ batch[w] \ {k} \in SUBSET Jobs
    BY <1>0
  <2>3. UNCHANGED Counters
    BY <1>10 DEF RESTFailed, QueueOnly, runVars, Counters
  <2>4. CASE k \in Owned(w)
    <3>1. ClaimsShrink
      BY <1>0, <2>1, <2>2, <2>4, LoopShrinks
    <3> QED BY <2>1, <2>2, <2>3, <2>4, <3>1 DEF StepKinds, Releases
  <2>5. CASE k \notin Owned(w)
    BY <2>1, <2>2, <2>3, <2>5, ReleaseKinds DEF StepKinds
  <2> QED BY <2>4, <2>5
<1> QED BY <1>1, <1>2, <1>3, <1>4, <1>5, <1>6, <1>7, <1>8, <1>9, <1>10 DEF KeyStep, RepairStep

\* Every step of the system, faults and restarts included, is of one of the kinds.
LEMMA StepIsOfAKind ==
  ASSUME TypeOK, [Next]_vars
  PROVE  StepKinds
<1>1. ASSUME NEW w \in KeyWorkers, KeyStep(w) PROVE StepKinds
  BY <1>1, WorkerStepKinds DEF Workers
<1>2. ASSUME NEW w \in Repairers, RepairStep(w) PROVE StepKinds
  BY <1>2, WorkerStepKinds DEF Workers
<1>3. CASE RunStep
  <2>1. CASE \E S \in SUBSET Known : Enqueue(S)
    BY <2>1 DEF Enqueue, workerVars, Inserts, ClaimsShrink, StepKinds
  <2>2. CASE \E S \in SUBSET Accounts, last \in BOOLEAN : EnumeratePage(S, last)
    BY <2>2 DEF EnumeratePage, workerVars, Inserts, ClaimsShrink, StepKinds
  <2>3. CASE \/ \E r \in Runs : \/ AdmitPage(r) \/ EnsureMainRun(r) \/ MonitorRead(r)
                                \/ SeedEnumerationRepair(r) \/ OverflowDone(r)
             \/ MonitorCheck \/ MonitorCommit
    <3>1. UNCHANGED <<rowVars, workerVars, Counters>>
      BY <2>3 DEF AdmitPage, EnsureMainRun, MonitorRead, SeedEnumerationRepair,
                  OverflowDone, MonitorCheck, MonitorCommit, runVars, Counters
    <3> QED BY <3>1 DEF rowVars, workerVars, KeepsRows, ClaimsShrink, StepKinds
  <2> QED BY <1>3, <2>1, <2>2, <2>3 DEF RunStep
<1>4. CASE Crash \/ UNCHANGED vars
  BY <1>4 DEF Crash, vars, rowVars, runVars, workerVars, Counters, KeepsRows,
              ClaimsShrink, StepKinds
<1> QED BY <1>1, <1>2, <1>3, <1>4 DEF Next, StepKinds

-----------------------------------------------------------------------------
(* Claims *)

\* What keeps claims apart: a row is leased exactly while it carries a token,
\* a token is held by one worker, and a worker with jobs holds one.
LeasesInv ==
  /\ \A k \in Jobs : status[k] \in Leased <=> token[k] # NoToken
  /\ \A v, w \in Workers : v # w /\ claim[v] # NoToken => claim[v] # claim[w]
  /\ \A w \in Workers : batch[w] # {} => claim[w] # NoToken

\* A key worker owns rows of the GraphQL lane only.
LanesInv == \A w \in KeyWorkers : \A k \in Owned(w) : status[k] = "running"

ClaimsInv == LeasesInv /\ LanesInv

\* Owned rows are leased, and to one worker.
LEMMA OwnedRows ==
  ASSUME TypeOK, LeasesInv, NEW w \in Workers
  PROVE  /\ Owned(w) \subseteq {k \in Jobs : status[k] \in Leased /\ token[k] = claim[w]}
         /\ Owned(w) # {} => claim[w] # NoToken
BY DEF TypeOK, WorkersTyped, LeasesInv, Owned

\* Steps that make no claim keep the workers' side of the invariant.
LEMMA ShrinkKeepsClaims ==
  ASSUME LeasesInv, ClaimsShrink
  PROVE  /\ \A v, w \in Workers : v # w /\ claim'[v] # NoToken => claim'[v] # claim'[w]
         /\ \A w \in Workers : batch'[w] # {} => claim'[w] # NoToken
         /\ \A w \in Workers : batch'[w] # {} => claim'[w] = claim[w]
BY DEF LeasesInv, ClaimsShrink

\* Every kind of step keeps the invariant of the claims.
LEMMA ClaimsStep ==
  ASSUME TypeOK, TypeOK', ClaimsInv, StepKinds
  PROVE  ClaimsInv'
<1> USE DEF ClaimsInv
<1> DEFINE Rows == \A k \in Jobs : status[k] \in Leased <=> token[k] # NoToken
<1>0. /\ KeyWorkers \subseteq Workers /\ Repairers \subseteq Workers
      /\ status \in [Jobs -> Statuses] /\ token \in [Jobs -> Tokens \cup {NoToken}]
      /\ claim \in [Workers -> Tokens \cup {NoToken}] /\ batch \in [Workers -> SUBSET Jobs]
      /\ claim' \in [Workers -> Tokens \cup {NoToken}] /\ batch' \in [Workers -> SUBSET Jobs]
  BY DEF Workers, TypeOK, RowsTyped, WorkersTyped
\* Rows a step leaves alone stay owned by their worker, in their lane.
<1>1. ASSUME Rows', ClaimsShrink,
             \A k \in Jobs : token'[k] # NoToken => token'[k] = token[k] /\ status'[k] = status[k]
      PROVE  ClaimsInv'
  <2>1. LeasesInv'
    BY <1>1, ShrinkKeepsClaims DEF LeasesInv
  <2>2. ASSUME NEW w \in KeyWorkers, NEW k \in Owned(w)' PROVE status'[k] = "running"
    <3>1. k \in batch'[w] /\ token'[k] = claim'[w]
      BY <2>2 DEF Owned
    <3>2. claim'[w] = claim[w] /\ claim'[w] # NoToken /\ k \in batch[w] /\ k \in Jobs
      BY <1>0, <1>1, <3>1, ShrinkKeepsClaims DEF ClaimsShrink
    <3>3. k \in Owned(w) /\ status'[k] = status[k]
      BY <1>1, <3>1, <3>2 DEF Owned
    <3> QED BY <3>3 DEF LanesInv
  <2> QED BY <2>1, <2>2 DEF LanesInv
<1>2. CASE KeepsRows
  BY <1>1, <1>2 DEF KeepsRows, LeasesInv
<1>3. CASE Counts
  <2>1. UNCHANGED <<status, token, claim, batch>>
    BY <1>3 DEF Counts, CountAttempts
  <2> QED BY <2>1 DEF LeasesInv, LanesInv, Owned
<1>4. CASE Releases
  <2>1. PICK w \in Workers, S \in SUBSET Jobs, st \in {"retry", "rest_fallback"} :
          Release(w, S, st)
    BY <1>4 DEF Releases
  <2>2. st \notin Leased
    BY DEF Leased
  <2>3. Rows'
    BY <1>0, <2>1, <2>2 DEF Release, LeasesInv
  <2>4. \A k \in Jobs : token'[k] # NoToken => token'[k] = token[k] /\ status'[k] = status[k]
    BY <1>0, <2>1 DEF Release
  <2> QED BY <1>1, <1>4, <2>3, <2>4 DEF Releases
<1>5. CASE Settles
  <2>1. PICK S : DeleteRows(S)
    BY <1>5 DEF Settles, Settle
  <2>2. Rows'
    BY <1>0, <2>1 DEF DeleteRows, LeasesInv, Leased
  <2>3. \A k \in Jobs : token'[k] # NoToken => token'[k] = token[k] /\ status'[k] = status[k]
    BY <1>0, <2>1 DEF DeleteRows
  <2> QED BY <1>1, <1>5, <2>2, <2>3 DEF Settles
<1>6. CASE Inserts
  <2>1. PICK S : InsertRows(S)
    BY <1>6 DEF Inserts, Enqueue, EnumeratePage
  <2>2. Rows'
    BY <1>0, <2>1 DEF InsertRows, LeasesInv, Leased
  <2>3. \A k \in Jobs : token'[k] # NoToken => token'[k] = token[k] /\ status'[k] = status[k]
    BY <1>0, <2>1 DEF InsertRows, LeasesInv, Leased
  <2> QED BY <1>1, <1>6, <2>2, <2>3 DEF Inserts
<1>7. CASE \E t \in Tokens : ReapExpiredLeases(t)
  <2>1. PICK t \in Tokens : ReapExpiredLeases(t)
    BY <1>7
  <2>2. Rows'
    BY <1>0, <2>1 DEF ReapExpiredLeases, LeasesInv, Leased, LaneOf
  <2>3. \A k \in Jobs : token'[k] # NoToken => token'[k] = token[k] /\ status'[k] = status[k]
    BY <1>0, <2>1 DEF ReapExpiredLeases
  <2>4. ClaimsShrink
    BY <2>1 DEF ReapExpiredLeases, workerVars, ClaimsShrink
  <2> QED BY <1>1, <2>2, <2>3, <2>4
<1>8. CASE Recover
  <2>1. Rows' /\ \A w \in Workers : batch'[w] = {} /\ claim'[w] = NoToken
    BY <1>0, <1>8 DEF Recover, LeasesInv, Leased, LaneOf
  <2> QED BY <1>0, <2>1 DEF LeasesInv, LanesInv, Owned
<1>9. CASE Claims
  <2>1. PICK w \in Workers, S \in SUBSET Jobs, st \in Leased, tried \in BOOLEAN :
          /\ ClaimRows(w, S, st, tried)
          /\ w \in KeyWorkers => st = "running"
          /\ \A k \in S : status[k] \notin Leased
    BY <1>0, <1>9 DEF Claims, Leased
  <2>2. PICK t \in Tokens :
          /\ Fresh(t)
          /\ status' = [k \in Jobs |-> IF k \in S THEN st ELSE status[k]]
          /\ token' = [k \in Jobs |-> IF k \in S THEN t ELSE token[k]]
          /\ claim' = [claim EXCEPT ![w] = t]
          /\ batch' = [batch EXCEPT ![w] = S]
    BY <2>1 DEF ClaimRows
  <2>3. LeasesInv'
    BY <1>0, <2>2, ConstantsAssumption DEF LeasesInv, Fresh
  <2>4. ASSUME NEW v \in KeyWorkers, NEW k \in Owned(v)' PROVE status'[k] = "running"
    <3>1. k \in Jobs /\ k \in batch'[v] /\ token'[k] = claim'[v]
      BY <1>0, <2>4 DEF Owned
    <3>2. CASE v = w
      BY <1>0, <2>1, <2>2, <3>1, <3>2
    <3>3. CASE v # w
      <4>1. k \notin S /\ k \in Owned(v) /\ status'[k] = status[k]
        BY <1>0, <2>2, <3>1, <3>3 DEF Owned, Fresh
      <4> QED BY <4>1 DEF LanesInv
    <3> QED BY <3>2, <3>3
  <2> QED BY <2>3, <2>4 DEF LanesInv
<1> QED BY <1>2, <1>3, <1>4, <1>5, <1>6, <1>7, <1>8, <1>9 DEF StepKinds

\* The inductive invariant of the claims holds in every state.
LEMMA ClaimsInvariant == Spec => []ClaimsInv
<1>1. Init => ClaimsInv
  BY DEF Init, ClaimsInv, LeasesInv, LanesInv, Owned, Leased, Workers
<1>2. TypeOK /\ TypeOK' /\ ClaimsInv /\ [Next]_vars => ClaimsInv'
  BY StepIsOfAKind, ClaimsStep
<1> QED BY <1>1, <1>2, TypeCorrect, PTL DEF Spec

\* ClaimsAreExclusive, for any number of workers, jobs and tokens: no two
\* workers own a job, whatever was reaped, recovered and claimed again.
THEOREM ExclusiveClaims == Spec => []ClaimsAreExclusive
<1>1. TypeOK /\ ClaimsInv => ClaimsAreExclusive
  <2> SUFFICES ASSUME TypeOK, ClaimsInv PROVE ClaimsAreExclusive
    OBVIOUS
  <2>1. ASSUME NEW v \in Workers, NEW w \in Workers, v # w,
               NEW k \in Owned(v) \cap Owned(w)
        PROVE  FALSE
    BY <2>1, OwnedRows DEF ClaimsInv, LeasesInv
  <2> QED BY <2>1 DEF ClaimsInv, LeasesInv, ClaimsAreExclusive
<1> QED BY <1>1, TypeCorrect, ClaimsInvariant, PTL

\* OnlyTheClaimantSettles: a row is deleted by the worker that holds its
\* token, while it commits a result, and by nothing else.
THEOREM ClaimantSettles == Spec => OnlyTheClaimantSettles
<1> DEFINE SettledByClaimant ==
      \A k \in Jobs : status[k] # "absent" /\ status'[k] = "absent"
        => \E w \in Workers : /\ k \in batch[w] /\ token[k] = claim[w]
                              /\ phase[w] \in {"complete", "rest"}
<1>1. TypeOK /\ ClaimsInv /\ [Next]_vars => SettledByClaimant
  <2> SUFFICES ASSUME TypeOK, ClaimsInv, StepKinds,
                      NEW k \in Jobs, status[k] # "absent", status'[k] = "absent"
               PROVE  \E w \in Workers : /\ k \in batch[w] /\ token[k] = claim[w]
                                         /\ phase[w] \in {"complete", "rest"}
    BY StepIsOfAKind
  <2>0. status \in [Jobs -> Statuses]
    BY DEF TypeOK, RowsTyped
  <2>1. CASE KeepsRows \/ Counts
    BY <2>1 DEF KeepsRows, Counts, CountAttempts
  <2>2. CASE Releases
    BY <2>0, <2>2 DEF Releases, Release
  <2>3. CASE Settles
    <3>1. PICK w \in Workers : /\ phase[w] \in {"complete", "rest"}
                              /\ \E S \in SUBSET Owned(w) : DeleteRows(S)
      BY <2>3 DEF Settles, Settle
    <3>2. k \in Owned(w)
      BY <2>0, <3>1 DEF DeleteRows
    <3> QED BY <3>1, <3>2 DEF Owned
  <2>4. CASE Claims
    BY <2>0, <2>4 DEF Claims, ClaimRows
  <2>5. CASE Inserts
    BY <2>0, <2>5 DEF Inserts, Enqueue, EnumeratePage, InsertRows
  <2>6. CASE (\E t \in Tokens : ReapExpiredLeases(t)) \/ Recover
    BY <2>0, <2>6 DEF ReapExpiredLeases, Recover, LaneOf
  <2> QED BY <2>1, <2>2, <2>3, <2>4, <2>5, <2>6 DEF StepKinds
<1>2. TypeOK /\ ClaimsInv /\ [Next]_vars => [SettledByClaimant]_vars
  BY <1>1
<1> QED BY <1>2, TypeCorrect, ClaimsInvariant, PTL DEF Spec, OnlyTheClaimantSettles

\* FallbackLaneIsKept: a row that failed often enough for the fallback lane
\* stays in it until it is settled.
THEOREM LaneKept == Spec => FallbackLaneIsKept
<1> DEFINE StaysInLane ==
      \A k \in Jobs : status[k] \in FallbackLane => status'[k] \in FallbackLane \cup {"absent"}
<1>1. TypeOK /\ ClaimsInv /\ [Next]_vars => StaysInLane
  <2> SUFFICES ASSUME TypeOK, ClaimsInv, StepKinds, NEW k \in Jobs, status[k] \in FallbackLane
               PROVE  status'[k] \in FallbackLane \cup {"absent"}
    BY StepIsOfAKind
  <2> USE DEF FallbackLane
  <2>0. status \in [Jobs -> Statuses]
    BY DEF TypeOK, RowsTyped
  <2>1. CASE KeepsRows \/ Counts
    BY <2>1 DEF KeepsRows, Counts, CountAttempts
  <2>2. CASE Releases
    <3>1. PICK w \in Workers, S \in SUBSET Jobs, st \in {"retry", "rest_fallback"} :
            Release(w, S, st) /\ (w \in KeyWorkers \/ st = "rest_fallback")
      BY <2>2 DEF Releases
    <3>2. w \in KeyWorkers => k \notin Owned(w)
      BY DEF ClaimsInv, LanesInv
    <3> QED BY <2>0, <3>1, <3>2 DEF Release
  <2>3. CASE Settles
    BY <2>0, <2>3 DEF Settles, Settle, DeleteRows
  <2>4. CASE Claims
    BY <2>0, <2>4 DEF Claims, ClaimRows
  <2>5. CASE Inserts
    BY <2>0, <2>5 DEF Inserts, Enqueue, EnumeratePage, InsertRows
  <2>6. CASE (\E t \in Tokens : ReapExpiredLeases(t)) \/ Recover
    BY <2>0, <2>6 DEF ReapExpiredLeases, Recover, LaneOf, Leased
  <2> QED BY <2>1, <2>2, <2>3, <2>4, <2>5, <2>6 DEF StepKinds
<1>2. TypeOK /\ ClaimsInv /\ [Next]_vars => [StaysInLane]_vars
  BY <1>1
<1> QED BY <1>2, TypeCorrect, ClaimsInvariant, PTL DEF Spec, FallbackLaneIsKept

-----------------------------------------------------------------------------
(* Counting *)

\* Taking jobs out of a set of jobs takes their number from its size.
LEMMA CountRemoved ==
  ASSUME NEW S \in SUBSET Jobs, NEW T \in SUBSET S
  PROVE  Cardinality(S \ T) = Cardinality(S) - Cardinality(T)
<1>1. S \cap T = T
  OBVIOUS
<1> QED BY <1>1, JobsCounted, FS_Difference

\* Adding jobs that are not in a set adds their number to its size.
LEMMA CountAdded ==
  ASSUME NEW S \in SUBSET Jobs, NEW T \in SUBSET Jobs, S \cap T = {}
  PROVE  Cardinality(S \cup T) = Cardinality(S) + Cardinality(T)
<1>1. Cardinality(S \cup T) = Cardinality(S) + Cardinality(T) - Cardinality(S \cap T)
  BY JobsCounted, FS_Union
<1>2. Cardinality(S \cap T) = 0
  BY FS_EmptySet
<1>3. Cardinality(S) \in Nat /\ Cardinality(T) \in Nat
  BY JobsCounted
<1> QED BY <1>1, <1>2, <1>3

\* A part of a set of jobs is no larger than the set.
LEMMA CountSmaller ==
  ASSUME NEW S \in SUBSET Jobs, NEW T \in SUBSET S
  PROVE  Cardinality(T) <= Cardinality(S)
BY JobsCounted, FS_Subset

\* The accounts of every run add up, and its attempts; only queued rows are
\* marked as counted, which makes the second part inductive.
AccountingInv ==
  /\ ExactAccounting
  /\ AttemptsCountedOnce
  /\ firstCounted \subseteq Live

\* Steps that add and remove no row of a run, and count nothing.
LEMMA AccountsUnmoved ==
  ASSUME AccountingInv, UNCHANGED <<firstCounted, Counters>>,
         \A r \in Runs : LiveOf(r)' = LiveOf(r), Live \subseteq Live'
  PROVE  AccountingInv'
BY DEF AccountingInv, ExactAccounting, AttemptsCountedOnce, Counters

\* Settled rows are taken out of the queue and counted as processed.
LEMMA AccountsSettled ==
  ASSUME TypeOK, AccountingInv, NEW S \in SUBSET Live, NEW more, Settle(S, more)
  PROVE  AccountingInv'
<1>0. Live \in SUBSET Jobs /\ Live' = Live \ S /\ firstCounted' = firstCounted \ S
  BY DEF Settle, DeleteRows, Live
<1> SUFFICES ASSUME NEW r \in Runs
             PROVE  /\ processed'[r] + Cardinality(LiveOf(r)') = enumerated'[r]
                    /\ attempted'[r] + Cardinality(LiveOf(r)' \ firstCounted') <= enumerated'[r]
                    /\ Cardinality(LiveOf(r)' \cap firstCounted') <= attempted'[r]
  BY <1>0 DEF AccountingInv, ExactAccounting, AttemptsCountedOnce
<1> DEFINE L == LiveOf(r)
           T == OfRun(S, r)
<1>1. L \in SUBSET Jobs /\ T \in SUBSET L /\ LiveOf(r)' = L \ T
  BY <1>0 DEF LiveOf, OfRun
<1>2. /\ processed'[r] = processed[r] + Cardinality(T)
      /\ enumerated' = enumerated /\ attempted' = attempted
  BY DEF Settle, TypeOK, RunsTyped
<1>3. /\ processed[r] \in Nat /\ attempted[r] \in Nat /\ enumerated[r] \in Nat
      /\ Cardinality(L) \in Nat /\ Cardinality(T) \in Nat
      /\ Cardinality(L \ firstCounted) \in Nat /\ Cardinality(L \cap firstCounted) \in Nat
      /\ Cardinality(LiveOf(r)' \ firstCounted') \in Nat
      /\ Cardinality(LiveOf(r)' \cap firstCounted') \in Nat
  BY <1>1, JobsCounted DEF TypeOK, RunsTyped
<1>4. /\ processed[r] + Cardinality(L) = enumerated[r]
      /\ attempted[r] + Cardinality(L \ firstCounted) <= enumerated[r]
      /\ Cardinality(L \cap firstCounted) <= attempted[r]
  BY DEF AccountingInv, ExactAccounting, AttemptsCountedOnce
<1>5. Cardinality(L \ T) = Cardinality(L) - Cardinality(T)
  BY <1>1, CountRemoved
<1>6. /\ LiveOf(r)' \ firstCounted' \in SUBSET (L \ firstCounted)
      /\ LiveOf(r)' \cap firstCounted' \in SUBSET (L \cap firstCounted)
  BY <1>0, <1>1 DEF OfRun, LiveOf
<1>7. /\ Cardinality(LiveOf(r)' \ firstCounted') <= Cardinality(L \ firstCounted)
      /\ Cardinality(LiveOf(r)' \cap firstCounted') <= Cardinality(L \cap firstCounted)
  BY <1>1, <1>6, CountSmaller
<1> HIDE DEF L, T
<1> QED BY <1>1, <1>2, <1>3, <1>4, <1>5, <1>7

\* Rows enumerated for the first time in a run are added to queue and counter.
LEMMA AccountsEnumerated ==
  ASSUME TypeOK, AccountingInv, NEW S \in SUBSET Accounts, NEW last, EnumeratePage(S, last)
  PROVE  AccountingInv'
<1> DEFINE new == NewRows(admitted, S)
<1>0. /\ admitted \in Runs /\ new \in SUBSET Jobs /\ status \in [Jobs -> Statuses]
      /\ {admitted} \X S \in SUBSET Jobs
  BY DEF EnumeratePage, NewRows, TypeOK, RowsTyped, ControlTyped, Jobs
<1>1. /\ Live \in SUBSET Jobs /\ Live' = Live \cup new /\ Live \cap new = {}
      /\ firstCounted' = firstCounted
      /\ processed' = processed /\ attempted' = attempted
  BY <1>0 DEF EnumeratePage, InsertRows, NewRows, Live
<1> SUFFICES ASSUME NEW r \in Runs
             PROVE  /\ processed'[r] + Cardinality(LiveOf(r)') = enumerated'[r]
                    /\ attempted'[r] + Cardinality(LiveOf(r)' \ firstCounted') <= enumerated'[r]
                    /\ Cardinality(LiveOf(r)' \cap firstCounted') <= attempted'[r]
  BY <1>1 DEF AccountingInv, ExactAccounting, AttemptsCountedOnce
<1>2. /\ processed[r] + Cardinality(LiveOf(r)) = enumerated[r]
      /\ attempted[r] + Cardinality(LiveOf(r) \ firstCounted) <= enumerated[r]
      /\ Cardinality(LiveOf(r) \cap firstCounted) <= attempted[r]
  BY DEF AccountingInv, ExactAccounting, AttemptsCountedOnce
<1>3. CASE r # admitted
  <2>1. LiveOf(r)' = LiveOf(r)
    BY <1>1, <1>3 DEF LiveOf, OfRun, NewRows
  <2>2. enumerated'[r] = enumerated[r]
    BY <1>3 DEF EnumeratePage, TypeOK, RunsTyped
  <2> QED BY <1>1, <1>2, <2>1, <2>2
<1>4. CASE r = admitted
  <2>1. enumerated'[r] = enumerated[r] + Cardinality(new)
    BY <1>0, <1>4 DEF EnumeratePage, TypeOK, RunsTyped
  <2>2. /\ LiveOf(r) \in SUBSET Jobs /\ LiveOf(r)' = LiveOf(r) \cup new
        /\ LiveOf(r) \cap new = {}
    BY <1>1, <1>4 DEF LiveOf, OfRun, NewRows
  <2>3. new \cap firstCounted = {}
    BY <1>1 DEF AccountingInv
  <2>4. /\ LiveOf(r)' \ firstCounted' = (LiveOf(r) \ firstCounted) \cup new
        /\ (LiveOf(r) \ firstCounted) \cap new = {}
        /\ LiveOf(r)' \cap firstCounted' = LiveOf(r) \cap firstCounted
    BY <1>1, <2>2, <2>3
  <2> HIDE DEF new
  <2>5. /\ Cardinality(LiveOf(r)') = Cardinality(LiveOf(r)) + Cardinality(new)
        /\ Cardinality(LiveOf(r)' \ firstCounted')
             = Cardinality(LiveOf(r) \ firstCounted) + Cardinality(new)
        /\ Cardinality(LiveOf(r)' \cap firstCounted') = Cardinality(LiveOf(r) \cap firstCounted)
    BY <1>0, <2>2, <2>4, CountAdded
  <2>6. /\ processed[r] \in Nat /\ attempted[r] \in Nat /\ enumerated[r] \in Nat
        /\ Cardinality(LiveOf(r)) \in Nat /\ Cardinality(new) \in Nat
        /\ Cardinality(LiveOf(r) \ firstCounted) \in Nat
    BY <1>0, <2>2, JobsCounted DEF TypeOK, RunsTyped
  <2> QED BY <1>1, <1>2, <2>1, <2>5, <2>6
<1> QED BY <1>3, <1>4

\* Attempts of owned rows that were not counted before are counted.
LEMMA AttemptsCounted ==
  ASSUME TypeOK, AccountingInv, LeasesInv,
         NEW w \in Workers, CountAttempts(w), batch[w] \subseteq Owned(w)
  PROVE  AccountingInv'
<1> DEFINE U == Uncounted(w)
<1>1. U \subseteq Live /\ U \cap firstCounted = {} /\ Live \subseteq Jobs
  BY OwnedRows DEF Uncounted, Live, Leased
<1>2. /\ Live' = Live /\ firstCounted' = firstCounted \cup U
      /\ processed' = processed /\ enumerated' = enumerated
  BY DEF CountAttempts, Live
<1> SUFFICES ASSUME NEW r \in Runs
             PROVE  /\ processed'[r] + Cardinality(LiveOf(r)') = enumerated'[r]
                    /\ attempted'[r] + Cardinality(LiveOf(r)' \ firstCounted') <= enumerated'[r]
                    /\ Cardinality(LiveOf(r)' \cap firstCounted') <= attempted'[r]
  BY <1>1, <1>2 DEF AccountingInv, ExactAccounting, AttemptsCountedOnce
<1> DEFINE T == OfRun(U, r)
<1>3. /\ LiveOf(r)' = LiveOf(r) /\ LiveOf(r) \in SUBSET Jobs
      /\ T \in SUBSET (LiveOf(r) \ firstCounted) /\ T \in SUBSET Jobs
      /\ LiveOf(r)' \ firstCounted' = (LiveOf(r) \ firstCounted) \ T
      /\ LiveOf(r)' \cap firstCounted' = (LiveOf(r) \cap firstCounted) \cup T
      /\ (LiveOf(r) \cap firstCounted) \cap T = {}
  BY <1>1, <1>2 DEF LiveOf, OfRun
<1>4. /\ processed[r] + Cardinality(LiveOf(r)) = enumerated[r]
      /\ attempted[r] + Cardinality(LiveOf(r) \ firstCounted) <= enumerated[r]
      /\ Cardinality(LiveOf(r) \cap firstCounted) <= attempted[r]
  BY DEF AccountingInv, ExactAccounting, AttemptsCountedOnce
<1>5. attempted'[r] = IF T = {} THEN attempted[r]
                      ELSE IF attempted[r] + Cardinality(T) <= enumerated[r]
                           THEN attempted[r] + Cardinality(T) ELSE enumerated[r]
  BY DEF CountAttempts
<1> HIDE DEF U, T
<1>6. /\ processed[r] \in Nat /\ attempted[r] \in Nat /\ enumerated[r] \in Nat
      /\ Cardinality(T) \in Nat /\ Cardinality(LiveOf(r) \ firstCounted) \in Nat
      /\ Cardinality(LiveOf(r) \cap firstCounted) \in Nat
  BY <1>3, JobsCounted DEF TypeOK, RunsTyped
<1>7. /\ Cardinality((LiveOf(r) \ firstCounted) \ T)
             = Cardinality(LiveOf(r) \ firstCounted) - Cardinality(T)
      /\ Cardinality((LiveOf(r) \cap firstCounted) \cup T)
             = Cardinality(LiveOf(r) \cap firstCounted) + Cardinality(T)
      /\ Cardinality(T) <= Cardinality(LiveOf(r) \ firstCounted)
  BY <1>3, CountRemoved, CountAdded, CountSmaller
<1>8. T = {} => Cardinality(T) = 0
  BY FS_EmptySet
<1>9. attempted'[r] = attempted[r] + Cardinality(T)
  BY <1>4, <1>5, <1>6, <1>7, <1>8
<1>10. /\ Cardinality(LiveOf(r)' \ firstCounted')
              = Cardinality(LiveOf(r) \ firstCounted) - Cardinality(T)
       /\ Cardinality(LiveOf(r)' \cap firstCounted')
              = Cardinality(LiveOf(r) \cap firstCounted) + Cardinality(T)
  BY <1>3, <1>7
<1>11. processed'[r] + Cardinality(LiveOf(r)') = enumerated'[r]
  BY <1>2, <1>3, <1>4
<1>12. attempted'[r] + Cardinality(LiveOf(r)' \ firstCounted') <= enumerated'[r]
  BY <1>2, <1>4, <1>6, <1>9, <1>10
<1>13. Cardinality(LiveOf(r)' \cap firstCounted') <= attempted'[r]
  BY <1>4, <1>6, <1>9, <1>10
<1> QED BY <1>11, <1>12, <1>13

\* Every kind of step keeps the invariant of the accounting.
LEMMA AccountingStep ==
  ASSUME TypeOK, LeasesInv, AccountingInv, StepKinds
  PROVE  AccountingInv'
<1>0. status \in [Jobs -> Statuses]
  BY DEF TypeOK, RowsTyped
\* Steps after which the same rows are queued.
<1>1. ASSUME \A k \in Jobs : status'[k] = "absent" <=> status[k] = "absent",
             UNCHANGED <<firstCounted, Counters>>
      PROVE  AccountingInv'
  <2>1. Live' = Live
    BY <1>1 DEF Live
  <2>2. \A r \in Runs : LiveOf(r)' = LiveOf(r)
    BY <2>1 DEF LiveOf, OfRun
  <2> QED BY <1>1, <2>1, <2>2, AccountsUnmoved
<1>2. CASE KeepsRows
  BY <1>1, <1>2 DEF KeepsRows
<1>3. CASE Counts
  <2>1. PICK w \in KeyWorkers : CountAttempts(w) /\ batch[w] \subseteq Owned(w)
    BY <1>3 DEF Counts
  <2> QED BY <2>1, AttemptsCounted DEF Workers
<1>4. CASE Releases
  <2>1. PICK w \in Workers, S \in SUBSET Jobs, st \in {"retry", "rest_fallback"} :
          Release(w, S, st)
    BY <1>4 DEF Releases
  <2>2. Owned(w) \subseteq {k \in Jobs : status[k] # "absent"}
    BY OwnedRows DEF Leased
  <2>3. \A k \in Jobs : status'[k] = "absent" <=> status[k] = "absent"
    BY <1>0, <2>1, <2>2 DEF Release
  <2> QED BY <1>1, <1>4, <2>1, <2>3 DEF Releases, Release
<1>5. CASE Settles
  <2>1. PICK w \in Workers : \E S \in SUBSET Owned(w) : \E more \in SUBSET S : Settle(S, more)
    BY <1>5 DEF Settles
  <2>2. PICK S \in SUBSET Owned(w) : \E more \in SUBSET S : Settle(S, more)
    BY <2>1
  <2>3. S \in SUBSET Live
    BY <2>2, OwnedRows DEF Live, Leased
  <2> QED BY <2>2, <2>3, AccountsSettled
<1>6. CASE Claims
  <2>1. PICK w \in Workers, S \in SUBSET Jobs, st \in Leased, tried \in BOOLEAN :
          /\ ClaimRows(w, S, st, tried)
          /\ \A k \in S : status[k] # "absent"
    BY <1>6 DEF Claims, Leased, Workers
  <2>2. \A k \in Jobs : status'[k] = "absent" <=> status[k] = "absent"
    BY <1>0, <2>1 DEF ClaimRows, Leased
  <2> QED BY <1>1, <1>6, <2>1, <2>2 DEF Claims, ClaimRows
<1>7. CASE \E S \in SUBSET Known : Enqueue(S)
  <2>1. PICK S \in SUBSET Known : Enqueue(S)
    BY <1>7
  <2>2. Live' = Live \cup ({NoRun} \X S)
    BY <1>0, <2>1 DEF Enqueue, InsertRows, Live, Jobs
  <2>3. \A r \in Runs : LiveOf(r)' = LiveOf(r)
    BY <2>2 DEF LiveOf, OfRun, Runs, NoRun
  <2>4. UNCHANGED <<firstCounted, Counters>>
    BY <2>1 DEF Enqueue, InsertRows, QueueOnly, runVars, Counters
  <2> QED BY <2>2, <2>3, <2>4, AccountsUnmoved
<1>8. CASE \E S \in SUBSET Accounts, last \in BOOLEAN : EnumeratePage(S, last)
  BY <1>8, AccountsEnumerated
<1>9. CASE (\E t \in Tokens : ReapExpiredLeases(t)) \/ Recover
  <2>1. \A k \in Jobs : status'[k] = "absent" <=> status[k] = "absent"
    BY <1>0, <1>9 DEF ReapExpiredLeases, Recover, LaneOf, Leased
  <2>2. UNCHANGED <<firstCounted, Counters>>
    BY <1>9 DEF ReapExpiredLeases, Recover, runVars, Counters
  <2> QED BY <1>1, <2>1, <2>2
<1> QED BY <1>2, <1>3, <1>4, <1>5, <1>6, <1>7, <1>8, <1>9 DEF StepKinds, Inserts

\* The inductive invariant of the accounting holds in every state.
LEMMA AccountingInvariant == Spec => []AccountingInv
<1>1. Init => AccountingInv
  <2> SUFFICES ASSUME Init PROVE AccountingInv
    OBVIOUS
  <2>1. Live = {} /\ firstCounted = {}
    BY DEF Init, Live
  <2>2. \A r : /\ LiveOf(r) = {} /\ LiveOf(r) \ firstCounted = {}
               /\ LiveOf(r) \cap firstCounted = {}
    BY <2>1 DEF LiveOf, OfRun
  <2>3. \A r \in Runs : enumerated[r] = 0 /\ attempted[r] = 0 /\ processed[r] = 0
    BY DEF Init
  <2>4. Cardinality({}) = 0
    BY FS_EmptySet
  <2>5. \A r \in Runs : /\ Cardinality(LiveOf(r)) = 0
                       /\ Cardinality(LiveOf(r) \ firstCounted) = 0
                       /\ Cardinality(LiveOf(r) \cap firstCounted) = 0
    BY <2>2, <2>4
  <2>6. ExactAccounting
    <3> SUFFICES ASSUME NEW r \in Runs
                 PROVE  processed[r] + Cardinality(LiveOf(r)) = enumerated[r]
      BY DEF ExactAccounting
    <3>1. processed[r] = 0 /\ Cardinality(LiveOf(r)) = 0 /\ enumerated[r] = 0
      BY <2>3, <2>5
    <3> QED BY <3>1
  <2>7. AttemptsCountedOnce
    BY <2>3, <2>5 DEF AttemptsCountedOnce
  <2> QED BY <2>1, <2>6, <2>7 DEF AccountingInv
<1>2. TypeOK /\ ClaimsInv /\ AccountingInv /\ [Next]_vars => AccountingInv'
  BY StepIsOfAKind, AccountingStep DEF ClaimsInv
<1> QED BY <1>1, <1>2, TypeCorrect, ClaimsInvariant, PTL DEF Spec

\* ExactAccounting: for any accounts, workers and faults, the users a run
\* enumerated are those it processed and those still queued.
THEOREM Accounting == Spec => []ExactAccounting
BY AccountingInvariant, PTL DEF AccountingInv

\* AttemptsCountedOnce: no attempt is counted twice, and no counted row is
\* missing from the counter.
THEOREM Attempts == Spec => []AttemptsCountedOnce
BY AccountingInvariant, PTL DEF AccountingInv

=============================================================================
