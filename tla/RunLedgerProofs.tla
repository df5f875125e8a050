-------------------------- MODULE RunLedgerProofs --------------------------
(***************************************************************************)
(* AccountQueue implements RunLedger, as long as no repair-range command   *)
(* reopens a run between the first query of MaybeCompleteMain on it and    *)
(* the end of the transaction that completes it.                           *)
(***************************************************************************)
EXTENDS AccountQueueProofs

\* The hole in MaybeCompleteMain: the command reopens the run it is about.
RepairsWait ==
  \A r \in Runs : SeedEnumerationRepair(r) => ~(up /\ monitor.at # "idle" /\ monitor.run = r)

\* What a run owes: rows that are queued and key scans that go on.
Owed(r) == Cardinality(LiveOf(r)) + overflow[r]

-----------------------------------------------------------------------------
(* What a step does to the runs *)

RunState == <<runStatus, enumComplete, enumerated, admitted, monitor>>

\* A step of a worker leaves the runs alone; only a commit moves what is owed.
LEMMA WorkersLeaveRuns ==
  ASSUME TypeOK, NEW w \in Workers,
         (w \in KeyWorkers /\ KeyStep(w)) \/ (w \in Repairers /\ RepairStep(w))
  PROVE  /\ UNCHANGED RunState
         /\ up' => up
         /\ UNCHANGED overflow \/ Settles
<1>0. /\ batch[w] \in SUBSET Jobs /\ valid[w] \in SUBSET Jobs /\ up \in BOOLEAN
      /\ {} \in SUBSET batch[w] /\ WorkersTyped
  BY DEF TypeOK, WorkersTyped, ControlTyped
<1>1. UNCHANGED RunState /\ (up' => up)
  BY DEF KeyStep, KeyClaim, KeyRequeue, KeyBatchFailed, KeyBatchInvalid, KeyBatchFetched,
         MarkAttempted, CountAttempts, KeyComplete, KeyMoveMissing, RepairStep,
         RepairClaim, RepairRequeue, RepairFetched, RepairComplete, RESTSettle,
         RESTFailed, QueueOnly, WorkerFrame, Settle, enumVars, runVars, RunState
<1>2. CASE KeyComplete(w) \/ RepairComplete(w)
  <2>1. CASE valid[w] \subseteq Owned(w)
    <3>1. ClaimsShrink
      BY <1>0, <1>2, <2>1, LoopShrinks DEF KeyComplete, RepairComplete
    <3>2. PICK more \in SUBSET valid[w] : Settle(valid[w], more)
      BY <1>2, <2>1 DEF KeyComplete, RepairComplete
    <3> QED BY <1>1, <1>2, <2>1, <3>1, <3>2 DEF KeyComplete, RepairComplete, Settles
  <2>2. CASE ~(valid[w] \subseteq Owned(w))
    BY <1>1, <1>2, <2>2 DEF KeyComplete, RepairComplete
  <2> QED BY <2>1, <2>2
<1>3. CASE RESTSettle(w)
  <2>1. PICK k \in batch[w] :
          IF k \in Owned(w)
          THEN Settle({k}, {}) /\ GoOn(w, batch[w] \ {k}, "rest")
          ELSE UNCHANGED overflow
    BY <1>3 DEF RESTSettle
  <2>2. CASE k \in Owned(w)
    <3>1. ClaimsShrink
      BY <1>0, <2>1, <2>2, LoopShrinks
    <3>2. {k} \in SUBSET Owned(w) /\ {} \in SUBSET {k}
      BY <2>2
    <3> QED BY <1>1, <1>3, <2>1, <2>2, <3>1, <3>2 DEF RESTSettle, Settles
  <2> QED BY <1>1, <2>1, <2>2
<1>4. CASE ~(KeyComplete(w) \/ RepairComplete(w) \/ RESTSettle(w))
  BY <1>1, <1>4 DEF KeyStep, KeyClaim, KeyRequeue, KeyBatchFailed, KeyBatchInvalid,
         KeyBatchFetched, MarkAttempted, CountAttempts, KeyMoveMissing, RepairStep,
         RepairClaim, RepairRequeue, RepairFetched, RESTFailed, QueueOnly, WorkerFrame
<1> QED BY <1>2, <1>3, <1>4

\* Rows of a run are queued by a page of its listing and by nothing else.
LEMMA RowsComeFromPages ==
  ASSUME TypeOK, LeasesInv, StepKinds, NEW r \in Runs,
         ~ \E S \in SUBSET Accounts, last \in BOOLEAN : EnumeratePage(S, last)
  PROVE  LiveOf(r)' \subseteq LiveOf(r)
<1>0. status \in [Jobs -> Statuses]
  BY DEF TypeOK, RowsTyped
<1> SUFFICES ASSUME NEW k \in Jobs, status[k] = "absent", k[1] = r
             PROVE  status'[k] = "absent"
  BY DEF LiveOf, OfRun, Live
<1>1. CASE KeepsRows \/ Counts
  BY <1>1 DEF KeepsRows, Counts, CountAttempts
<1>2. CASE Releases
  BY <1>0, <1>2, OwnedRows DEF Releases, Release, Leased
<1>3. CASE Settles
  BY <1>0, <1>3 DEF Settles, Settle, DeleteRows
<1>4. CASE Claims
  BY <1>0, <1>4 DEF Claims, ClaimRows
<1>5. CASE \E S \in SUBSET Known : Enqueue(S)
  BY <1>0, <1>5 DEF Enqueue, InsertRows, Runs, NoRun
<1>6. CASE (\E t \in Tokens : ReapExpiredLeases(t)) \/ Recover
  BY <1>0, <1>6 DEF ReapExpiredLeases, Recover, Leased
<1> QED BY <1>1, <1>2, <1>3, <1>4, <1>5, <1>6 DEF StepKinds, Inserts

\* Settling moves what a run owes to what it settled, less the key scans that
\* go on.
LEMMA SettlingOwesLess ==
  ASSUME TypeOK, LeasesInv, Settles, NEW r \in Runs
  PROVE  Owed(r)' <= Owed(r) /\ (LiveOf(r) = {} => overflow'[r] = overflow[r])
<1>1. PICK w \in Workers : \E S \in SUBSET Owned(w) : \E more \in SUBSET S : Settle(S, more)
  BY DEF Settles
<1>2. PICK S \in SUBSET Owned(w) : \E more \in SUBSET S : Settle(S, more)
  BY <1>1
<1>3. PICK more \in SUBSET S : Settle(S, more)
  BY <1>2
<1>4. S \in SUBSET Live /\ S \in SUBSET Jobs /\ Live \in SUBSET Jobs
  BY OwnedRows DEF Live, Leased
<1>5. Live' = Live \ S
  BY <1>3, <1>4 DEF Settle, DeleteRows, Live
<1> DEFINE L == LiveOf(r)
           T == OfRun(S, r)
           M == OfRun(more, r)
<1>6. L \in SUBSET Jobs /\ T \in SUBSET L /\ M \in SUBSET T /\ LiveOf(r)' = L \ T
  BY <1>4, <1>5 DEF LiveOf, OfRun
<1>7. overflow[r] \in Nat /\ overflow'[r] = overflow[r] + Cardinality(M)
  BY <1>3 DEF Settle, TypeOK, RunsTyped
<1> HIDE DEF L, T, M
<1>8. /\ Cardinality(L \ T) = Cardinality(L) - Cardinality(T)
      /\ Cardinality(M) <= Cardinality(T)
      /\ Cardinality(L) \in Nat /\ Cardinality(T) \in Nat /\ Cardinality(M) \in Nat
  BY <1>6, CountRemoved, CountSmaller, JobsCounted
<1>9. Owed(r) = Cardinality(L) + overflow[r] /\ Owed(r)' = Cardinality(L \ T) + overflow'[r]
  BY <1>6 DEF Owed, L
<1>10. Owed(r)' <= Owed(r)
  BY <1>7, <1>8, <1>9
<1>11. L = {} => Cardinality(M) = 0
  BY <1>6, FS_EmptySet
<1> QED BY <1>7, <1>10, <1>11 DEF L

\* Steps that start, extend, examine and complete no run.
Quiet ==
  /\ UNCHANGED RunState /\ (up' => up)
  /\ \A r \in Runs : /\ LiveOf(r)' \subseteq LiveOf(r)
                     /\ Owed(r)' <= Owed(r)
                     /\ LiveOf(r) = {} => overflow'[r] <= overflow[r]

\* With the same key scans, or fewer, a run whose rows only go owes no more.
LEMMA FewerRowsOweLess ==
  ASSUME TypeOK, TypeOK', UNCHANGED RunState, up' => up,
         \A r \in Runs : LiveOf(r)' \subseteq LiveOf(r) /\ overflow'[r] <= overflow[r]
  PROVE  Quiet
<1> SUFFICES ASSUME NEW r \in Runs PROVE Owed(r)' <= Owed(r)
  BY DEF Quiet
<1>1. LiveOf(r) \in SUBSET Jobs /\ LiveOf(r)' \in SUBSET LiveOf(r)
  BY DEF LiveOf, OfRun, Live
<1>2. Cardinality(LiveOf(r)') <= Cardinality(LiveOf(r))
  BY <1>1, CountSmaller
<1>3. /\ Cardinality(LiveOf(r)) \in Nat /\ Cardinality(LiveOf(r)') \in Nat
      /\ overflow[r] \in Nat /\ overflow'[r] \in Nat
  BY <1>1, JobsCounted DEF TypeOK, RunsTyped
<1> QED BY <1>2, <1>3 DEF Owed

\* The steps that matter to the runs.
RunKinds ==
  \/ Quiet
  \/ \E r \in Runs : AdmitPage(r) \/ EnsureMainRun(r) \/ MonitorRead(r)
                     \/ SeedEnumerationRepair(r)
  \/ \E S \in SUBSET Accounts, last \in BOOLEAN : EnumeratePage(S, last)
  \/ MonitorCheck \/ MonitorCommit \/ Recover

\* Every step is one of these, faults and restarts included.
LEMMA StepOfRuns ==
  ASSUME TypeOK, TypeOK', LeasesInv, [Next]_vars
  PROVE  RunKinds
<1> SUFFICES ASSUME ~ \E S \in SUBSET Accounts, last \in BOOLEAN : EnumeratePage(S, last)
             PROVE  RunKinds
  BY DEF RunKinds
<1>0. \A r \in Runs : LiveOf(r)' \subseteq LiveOf(r)
  BY StepIsOfAKind, RowsComeFromPages
<1>1. /\ \A r \in Runs : overflow[r] \in Nat /\ overflow'[r] \in Nat
      /\ overflow \in [Runs -> Nat]
  BY DEF TypeOK, RunsTyped
<1>2. ASSUME NEW w \in Workers,
             (w \in KeyWorkers /\ KeyStep(w)) \/ (w \in Repairers /\ RepairStep(w))
      PROVE  RunKinds
  <2>1. UNCHANGED RunState /\ (up' => up) /\ (UNCHANGED overflow \/ Settles)
    BY <1>2, WorkersLeaveRuns
  <2>2. CASE UNCHANGED overflow
    BY <1>0, <1>1, <2>1, <2>2, FewerRowsOweLess DEF RunKinds
  <2>3. CASE Settles
    BY <1>0, <1>1, <2>1, <2>3, SettlingOwesLess DEF RunKinds, Quiet
  <2> QED BY <2>1, <2>2, <2>3
<1>3. CASE RunStep
  <2>1. ASSUME NEW r \in Runs, OverflowDone(r) PROVE RunKinds
    <3>1. UNCHANGED RunState /\ (up' => up)
      BY <2>1 DEF OverflowDone, runVars, enumVars, RunState
    <3>2. \A q \in Runs : overflow'[q] <= overflow[q]
      BY <1>1, <2>1 DEF OverflowDone
    <3> QED BY <1>0, <3>1, <3>2, FewerRowsOweLess DEF RunKinds
  <2>2. ASSUME NEW S \in SUBSET Known, Enqueue(S) PROVE RunKinds
    <3>1. UNCHANGED RunState /\ (up' => up) /\ UNCHANGED overflow
      BY <2>2 DEF Enqueue, QueueOnly, runVars, enumVars, RunState
    <3> QED BY <1>0, <1>1, <3>1, FewerRowsOweLess DEF RunKinds
  <2> QED BY <1>3, <2>1, <2>2 DEF RunStep, RunKinds
<1>4. CASE (\E t \in Tokens : ReapExpiredLeases(t)) \/ Crash \/ UNCHANGED vars
  <2>1. UNCHANGED RunState /\ (up' => up) /\ UNCHANGED overflow
    BY <1>4 DEF ReapExpiredLeases, Crash, vars, runVars, enumVars, RunState
  <2> QED BY <1>0, <1>1, <2>1, FewerRowsOweLess DEF RunKinds
<1> QED BY <1>2, <1>3, <1>4 DEF Next, Workers, RunKinds

-----------------------------------------------------------------------------
(* What a run that is examined, or completed, owes *)

\* A page is only fetched for a run that lists on, and a run whose completion
\* is being decided has nothing queued, and no key scan after the second query.
LedgerInv ==
  /\ CompletedRunIsSettled
  /\ admitted # NoRun => runStatus[admitted] = "running" /\ ~enumComplete[admitted]
  /\ up /\ monitor.at # "idle" =>
       /\ monitor.run \in Runs
       /\ runStatus[monitor.run] = "running" /\ enumComplete[monitor.run]
       /\ LiveOf(monitor.run) = {}
       /\ monitor.at = "checked" => overflow[monitor.run] = 0

\* The gate of the first query: by the exact accounts, no row of the run is left.
LEMMA DrainedIsEmpty ==
  ASSUME TypeOK, ExactAccounting, NEW r \in Runs, RunDrained(r)
  PROVE  LiveOf(r) = {}
<1>1. LiveOf(r) \in SUBSET Jobs
  BY DEF LiveOf, OfRun, Live
<1>2. /\ Cardinality(LiveOf(r)) \in Nat /\ IsFiniteSet(LiveOf(r))
      /\ processed[r] \in Nat /\ enumerated[r] \in Nat
  BY <1>1, JobsCounted DEF TypeOK, RunsTyped
<1>3. processed[r] + Cardinality(LiveOf(r)) = enumerated[r] /\ processed[r] >= enumerated[r]
  BY DEF ExactAccounting, RunDrained
<1>4. Cardinality(LiveOf(r)) = 0
  BY <1>2, <1>3
<1> QED BY <1>2, <1>4, FS_EmptySet

\* A page adds rows to its own run only.
LEMMA PageOfOneRun ==
  ASSUME TypeOK, NEW S \in SUBSET Accounts, NEW last \in BOOLEAN, EnumeratePage(S, last)
  PROVE  /\ admitted \in Runs
         /\ \A r \in Runs :
              /\ r # admitted => LiveOf(r)' = LiveOf(r)
              /\ r = admitted => /\ LiveOf(r)' = LiveOf(r) \cup NewRows(r, S)
                                 /\ LiveOf(r) \cap NewRows(r, S) = {}
                                 /\ NewRows(r, S) \in SUBSET Jobs
<1>1. admitted \in Runs /\ status \in [Jobs -> Statuses]
  BY DEF EnumeratePage, TypeOK, RowsTyped, ControlTyped
<1>2. PICK q \in Runs : q = admitted
  BY <1>1
<1>3. {q} \X S \in SUBSET Jobs /\ NewRows(q, S) \in SUBSET Jobs
  BY DEF Jobs, NewRows
<1>4. Live' = Live \cup NewRows(q, S)
  BY <1>1, <1>2, <1>3 DEF EnumeratePage, InsertRows, NewRows, Live
<1>5. \A k \in NewRows(q, S) : k[1] = q /\ k \notin Live
  BY DEF NewRows, Live
<1>6. /\ LiveOf(q)' = LiveOf(q) \cup NewRows(q, S)
      /\ LiveOf(q) \cap NewRows(q, S) = {}
      /\ \A r \in Runs : r # q => LiveOf(r)' = LiveOf(r)
  BY <1>4, <1>5 DEF LiveOf, OfRun
<1> QED BY <1>1, <1>2, <1>3, <1>6

\* Every step keeps the invariant, if repair commands wait for the decision.
LEMMA LedgerStep ==
  ASSUME TypeOK, TypeOK', ExactAccounting, LedgerInv, RunKinds, RepairsWait
  PROVE  LedgerInv'
<1> USE DEF LedgerInv, CompletedRunIsSettled
<1>0. /\ runStatus \in [Runs -> {"none", "running", "completed"}]
      /\ enumComplete \in [Runs -> BOOLEAN]
      /\ overflow \in [Runs -> Nat] /\ overflow' \in [Runs -> Nat]
      /\ admitted \in Runs \cup {NoRun} /\ NoRun \notin Runs
      /\ monitor \in [at : {"idle", "read", "checked"}, run : Runs \cup {NoRun}]
      /\ up \in BOOLEAN /\ up' \in BOOLEAN
  BY DEF TypeOK, RunsTyped, ControlTyped, Runs, NoRun
<1>1. CASE Quiet
  <2>1. ASSUME NEW r \in Runs, LiveOf(r) = {}
        PROVE  LiveOf(r)' = {} /\ (overflow[r] = 0 => overflow'[r] = 0)
    BY <1>0, <1>1, <2>1 DEF Quiet
  <2> QED BY <1>0, <1>1, <2>1 DEF Quiet, RunState
<1>2. ASSUME UNCHANGED <<status, overflow>> PROVE \A r \in Runs : LiveOf(r)' = LiveOf(r)
  BY <1>2 DEF LiveOf, OfRun, Live
<1>3. ASSUME NEW r \in Runs, AdmitPage(r) PROVE LedgerInv'
  <2>1. \A q \in Runs : LiveOf(q)' = LiveOf(q)
    BY <1>2, <1>3 DEF AdmitPage, rowVars
  <2> QED BY <1>0, <1>3, <2>1 DEF AdmitPage, Running, runVars
<1>4. ASSUME NEW r \in Runs, EnsureMainRun(r) PROVE LedgerInv'
  <2>1. \A q \in Runs : LiveOf(q)' = LiveOf(q)
    BY <1>2, <1>4 DEF EnsureMainRun, rowVars
  <2> QED BY <1>0, <1>4, <2>1 DEF EnsureMainRun, enumVars
<1>5. ASSUME NEW r \in Runs, MonitorRead(r) PROVE LedgerInv'
  <2>1. \A q \in Runs : LiveOf(q)' = LiveOf(q)
    BY <1>2, <1>5 DEF MonitorRead, rowVars
  <2>2. LiveOf(r) = {} /\ runStatus[r] = "running" /\ enumComplete[r]
    BY <1>5, DrainedIsEmpty DEF MonitorRead, RunDrained, Running
  <2> QED BY <1>0, <1>5, <2>1, <2>2 DEF MonitorRead, runVars, enumVars
<1>6. ASSUME NEW r \in Runs, SeedEnumerationRepair(r) PROVE LedgerInv'
  <2>1. \A q \in Runs : LiveOf(q)' = LiveOf(q)
    BY <1>2, <1>6 DEF SeedEnumerationRepair, rowVars
  <2>2. runStatus[r] = "running" /\ ~(up /\ monitor.at # "idle" /\ monitor.run = r)
    BY <1>6 DEF SeedEnumerationRepair, RepairsWait, Running
  <2> QED BY <1>0, <1>6, <2>1, <2>2 DEF SeedEnumerationRepair, enumVars
<1>7. ASSUME NEW S \in SUBSET Accounts, NEW last \in BOOLEAN, EnumeratePage(S, last)
      PROVE  LedgerInv'
  <2>1. \A q \in Runs : q # admitted =>
          LiveOf(q)' = LiveOf(q) /\ enumComplete'[q] = enumComplete[q]
    BY <1>0, <1>7, PageOfOneRun DEF EnumeratePage
  <2>2. up /\ admitted \in Runs /\ runStatus[admitted] = "running" /\ ~enumComplete[admitted]
    BY <1>0, <1>7 DEF EnumeratePage
  <2>3. UNCHANGED <<runStatus, overflow, monitor, up>> /\ admitted' = NoRun
    BY <1>7 DEF EnumeratePage
  <2> QED BY <1>0, <2>1, <2>2, <2>3
<1>8. CASE MonitorCheck
  <2>1. \A q \in Runs : LiveOf(q)' = LiveOf(q)
    BY <1>2, <1>8 DEF MonitorCheck, rowVars
  <2> QED BY <1>0, <1>8, <2>1 DEF MonitorCheck, ScansPending, runVars, enumVars
<1>9. CASE MonitorCommit
  <2>1. \A q \in Runs : LiveOf(q)' = LiveOf(q)
    BY <1>2, <1>9 DEF MonitorCommit, rowVars
  <2>2. admitted # NoRun => admitted # monitor.run
    BY <1>0, <1>9 DEF MonitorCommit
  <2> QED BY <1>0, <1>9, <2>1, <2>2 DEF MonitorCommit, enumVars
<1>10. CASE Recover
  <2>1. status \in [Jobs -> Statuses]
    BY DEF TypeOK, RowsTyped
  <2>2. \A q \in Runs : LiveOf(q)' = LiveOf(q)
    BY <1>10, <2>1 DEF Recover, LaneOf, Leased, LiveOf, OfRun, Live
  <2> QED BY <1>0, <1>10, <2>2 DEF Recover, runVars
<1> QED BY <1>1, <1>3, <1>4, <1>5, <1>6, <1>7, <1>8, <1>9, <1>10 DEF RunKinds

\* The invariant holds in every state of such a behaviour.
LEMMA LedgerInvariant == Spec /\ [][RepairsWait]_vars => []LedgerInv
<1>1. Init => LedgerInv
  BY DEF Init, LedgerInv, CompletedRunIsSettled
<1>2. ASSUME TypeOK, TypeOK', ClaimsInv, AccountingInv, LedgerInv, [Next]_vars, [RepairsWait]_vars
      PROVE  LedgerInv'
  <2>1. CASE UNCHANGED vars
    BY <1>2, <2>1 DEF vars, rowVars, runVars, enumVars, LedgerInv, CompletedRunIsSettled,
                      LiveOf, OfRun, Live
  <2>2. CASE RepairsWait
    BY <1>2, <2>2, StepOfRuns, LedgerStep DEF ClaimsInv, AccountingInv
  <2> QED BY <1>2, <2>1, <2>2
<1> QED BY <1>1, <1>2, TypeCorrect, ClaimsInvariant, AccountingInvariant, PTL DEF Spec

\* CompletedRunIsSettled: for any accounts, workers, faults and runs, what the
\* monitor completes is settled, unless a repair-range command reopens the run
\* between the queries of MaybeCompleteMain and its transaction.
THEOREM CompletedRunsAreSettled == Spec /\ [][RepairsWait]_vars => []CompletedRunIsSettled
BY LedgerInvariant, PTL DEF LedgerInv

-----------------------------------------------------------------------------
(* Refinement *)

\* Every state of a run is one of the ledger's; a step that starts, extends or
\* completes a run is that step of the ledger, any other settles something or
\* nothing.
LEMMA LedgerRefinementStep ==
  ASSUME TypeOK, TypeOK', ExactAccounting, ExactAccounting', LedgerInv, RunKinds
  PROVE  [Ledger!Next]_(Ledger!ledger)
<1> DEFINE owed == [r \in Runs |-> Cardinality(LiveOf(r)) + overflow[r]]
           settled == [r \in Runs |-> processed[r] - overflow[r]]
<1>0. /\ runStatus \in [Runs -> {"none", "running", "completed"}]
      /\ runStatus' \in [Runs -> {"none", "running", "completed"}]
      /\ overflow \in [Runs -> Nat] /\ overflow' \in [Runs -> Nat]
      /\ enumerated \in [Runs -> Nat] /\ enumerated' \in [Runs -> Nat]
      /\ processed \in [Runs -> Nat] /\ processed' \in [Runs -> Nat]
      /\ admitted \in Runs \cup {NoRun}
      /\ monitor \in [at : {"idle", "read", "checked"}, run : Runs \cup {NoRun}]
  BY DEF TypeOK, RunsTyped, ControlTyped
<1>1. ASSUME NEW r \in Runs
      PROVE  /\ Cardinality(LiveOf(r)) \in Nat /\ Cardinality(LiveOf(r)') \in Nat
             /\ LiveOf(r) \in SUBSET Jobs
  BY JobsCounted DEF LiveOf, OfRun, Live
\* What a run owes and what it settled add up to what it enumerated.
<1>2. ASSUME NEW r \in Runs
      PROVE  /\ owed[r] = Owed(r) /\ owed'[r] = Owed(r)'
             /\ owed[r] + settled[r] = enumerated[r]
             /\ owed'[r] + settled'[r] = enumerated'[r]
  BY <1>0, <1>1 DEF ExactAccounting, Owed
<1>3. ASSUME UNCHANGED <<runStatus, enumerated>>, \A r \in Runs : Owed(r)' <= Owed(r)
      PROVE  Ledger!Next
  <2>1. [r \in Runs |-> runStatus[r]]' = [r \in Runs |-> runStatus[r]]
    BY <1>3
  <2>2. \A r \in Runs : owed'[r] <= owed[r] /\ owed'[r] + settled'[r] = owed[r] + settled[r]
    BY <1>2, <1>3
  <2> QED BY <2>1, <2>2 DEF Ledger!Next, Ledger!Settle
<1>4. ASSUME UNCHANGED <<status, overflow>>
      PROVE  \A r \in Runs : LiveOf(r)' = LiveOf(r) /\ Owed(r)' = Owed(r) /\ Owed(r)' <= Owed(r)
  BY <1>0, <1>1, <1>4 DEF LiveOf, OfRun, Live, Owed
<1>5. CASE Quiet
  BY <1>3, <1>5 DEF Quiet, RunState
<1>6. CASE (\E r \in Runs : AdmitPage(r) \/ MonitorRead(r) \/ SeedEnumerationRepair(r))
           \/ MonitorCheck
  BY <1>3, <1>4, <1>6 DEF AdmitPage, MonitorRead, SeedEnumerationRepair, MonitorCheck,
                          rowVars, runVars
<1>7. CASE Recover
  <2>1. status \in [Jobs -> Statuses]
    BY DEF TypeOK, RowsTyped
  <2>2. \A q \in Runs : LiveOf(q)' = LiveOf(q)
    BY <1>7, <2>1 DEF Recover, LaneOf, Leased, LiveOf, OfRun, Live
  <2>3. \A q \in Runs : Owed(q)' <= Owed(q)
    BY <1>0, <1>1, <1>7, <2>2 DEF Recover, Owed
  <2> QED BY <1>3, <1>7, <2>3 DEF Recover, runVars
<1>8. ASSUME NEW r \in Runs, EnsureMainRun(r) PROVE Ledger!Next
  <2>1. owed' = owed /\ settled' = settled
    BY <1>4, <1>8 DEF EnsureMainRun, rowVars
  <2>2. Ledger!Start(r)
    BY <1>0, <1>8, <2>1 DEF EnsureMainRun, Running, Ledger!Start
  <2> QED BY <2>2 DEF Ledger!Next
<1>9. ASSUME MonitorCommit PROVE Ledger!Next
  <2>0. PICK r \in Runs : r = monitor.run
    BY <1>9 DEF MonitorCommit, LedgerInv
  <2>1. runStatus[r] = "running" /\ LiveOf(r) = {} /\ overflow[r] = 0
    BY <1>9, <2>0 DEF MonitorCommit, LedgerInv
  <2>2. owed' = owed /\ settled' = settled
    BY <1>4, <1>9 DEF MonitorCommit, rowVars
  <2>3. owed[r] = 0
    BY <2>1, FS_EmptySet
  <2>4. runStatus' = [runStatus EXCEPT ![r] = "completed"]
    BY <1>9, <2>0, <2>1 DEF MonitorCommit
  <2>5. Ledger!Complete(r)
    BY <1>0, <2>1, <2>2, <2>3, <2>4 DEF Ledger!Complete
  <2> QED BY <2>5 DEF Ledger!Next
<1>10. ASSUME NEW S \in SUBSET Accounts, NEW last \in BOOLEAN, EnumeratePage(S, last)
       PROVE  Ledger!Next
  <2>1. PICK r \in Runs : r = admitted
    BY <1>10, PageOfOneRun
  <2> DEFINE new == NewRows(r, S)
  <2>2. /\ LiveOf(r)' = LiveOf(r) \cup new /\ LiveOf(r) \cap new = {} /\ new \in SUBSET Jobs
        /\ \A q \in Runs : q # r => LiveOf(q)' = LiveOf(q)
        /\ runStatus[r] = "running"
    BY <1>10, <2>1, PageOfOneRun DEF LedgerInv, EnumeratePage
  <2>3. UNCHANGED <<runStatus, overflow, processed>>
    BY <1>10 DEF EnumeratePage
  <2> HIDE DEF new
  <2>4. CASE new = {}
    <3>1. \A q \in Runs : LiveOf(q)' = LiveOf(q)
      BY <2>2, <2>4
    <3>2. owed' = owed /\ settled' = settled
      BY <2>3, <3>1
    <3>3. \A q \in Runs : Owed(q)' <= Owed(q)
      BY <1>0, <1>1, <2>3, <3>1 DEF Owed
    <3>4. enumerated' = enumerated
      BY <1>0, <1>1, <2>3, <3>1 DEF ExactAccounting
    <3> QED BY <1>3, <2>3, <3>3, <3>4
  <2>5. CASE new # {}
    <3>1. /\ Cardinality(new) \in Nat /\ Cardinality(new) # 0
          /\ Cardinality(LiveOf(r)') = Cardinality(LiveOf(r)) + Cardinality(new)
      BY <1>1, <2>2, <2>5, CountAdded, JobsCounted, FS_EmptySet
    <3>2. owed'[r] > owed[r]
      BY <1>0, <1>1, <2>3, <3>1
    <3>3. owed' = [owed EXCEPT ![r] = owed'[r]] /\ settled' = settled
      BY <2>2, <2>3
    <3>4. Ledger!Owe(r)
      BY <1>0, <2>2, <2>3, <3>2, <3>3 DEF Ledger!Owe
    <3> QED BY <3>4 DEF Ledger!Next
  <2> QED BY <2>4, <2>5
<1> QED BY <1>5, <1>6, <1>7, <1>8, <1>9, <1>10 DEF RunKinds

\* RefinesLedger: the queue, its workers, faults and restarts implement the
\* ledger a run promises, for any constants, if repair commands wait for the
\* monitor's decision.
THEOREM LedgerIsRefined == Spec /\ [][RepairsWait]_vars => RefinesLedger
<1>1. Init => Ledger!Init
  <2> SUFFICES ASSUME Init PROVE Ledger!Init
    OBVIOUS
  <2>1. \A r \in Runs : LiveOf(r) = {} /\ Cardinality(LiveOf(r)) = 0
    BY FS_EmptySet DEF Init, LiveOf, OfRun, Live
  <2>2. [r \in Runs |-> Cardinality(LiveOf(r)) + overflow[r]] = [r \in Runs |-> 0]
    BY <2>1 DEF Init
  <2>3. [r \in Runs |-> processed[r] - overflow[r]] = [r \in Runs |-> 0]
    BY DEF Init
  <2>4. [r \in Runs |-> runStatus[r]] = [r \in Runs |-> "none"]
    BY DEF Init
  <2> QED BY <2>2, <2>3, <2>4 DEF Ledger!Init
<1>2. ASSUME TypeOK, TypeOK', ClaimsInv, AccountingInv, AccountingInv', LedgerInv, [Next]_vars
      PROVE  [Ledger!Next]_(Ledger!ledger)
  BY <1>2, StepOfRuns, LedgerRefinementStep DEF ClaimsInv, AccountingInv
<1> QED BY <1>1, <1>2, TypeCorrect, ClaimsInvariant, AccountingInvariant, LedgerInvariant, PTL
        DEF Spec, RefinesLedger, Ledger!Spec

\* CompletedRunIsSettled and RefinesLedger without the command (MaxRepairs = 0), as the
\* `runs` configuration checks them: RepairsWait is then true of every step, and a run
\* that MaybeCompleteMain completes owes nothing whatever workers and faults do.
THEOREM RefinementWithoutRepairs ==
  ASSUME MaxRepairs = 0
  PROVE  Spec => []CompletedRunIsSettled /\ RefinesLedger
<1>1. TypeOK /\ [Next]_vars => [RepairsWait]_vars
  BY DEF RepairsWait, SeedEnumerationRepair, TypeOK, ControlTyped
<1> QED BY <1>1, TypeCorrect, CompletedRunsAreSettled, LedgerIsRefined, PTL DEF Spec

=============================================================================
