---------------------------- MODULE AccountQueue ----------------------------
(***************************************************************************)
(* The durable account queue of the crawler: the table account_queue, the  *)
(* run counters in crawl_runs, the GraphQL key workers, the REST-fallback  *)
(* repair workers, the run monitor, lease reaping, crashes and restarts.   *)
(*                                                                         *)
(* One row of account_queue is a job <<run, account>>.  Rows of the global *)
(* source belong to a run and are unique per run and account; the other    *)
(* sources (tail, onboarding, priority, reconcile, federation, anomaly)    *)
(* have no run and are unique per account: one of them, reconcile, stands  *)
(* for all, under the run NoRun.                                           *)
(*                                                                         *)
(* A claim stamps every row of a batch with a fresh random UUID.  A pair   *)
(* (row, batch) is identified by one token per batch here, and a token     *)
(* nobody holds any more may be drawn again.                               *)
(***************************************************************************)
EXTENDS Naturals, FiniteSets

CONSTANTS
  Accounts,       \* GitHub accounts
  Known,          \* those the sources without a run may queue
  MaxRuns,        \* bound: runs that are started
  KeyWorkers,     \* keyWorker goroutines
  Repairers,      \* restFallbackWorker goroutines
  Tokens,         \* claim tokens
  NoToken,        \* claim_token IS NULL
  BatchSize,      \* rows of one claim (100..250 in the code)
  FallbackAfter,  \* attempts after which a failed row leaves the GraphQL lane
  HighWater,      \* backlog that pauses enumeration
  LowWater,       \* backlog that resumes it
  MaxEnumerated,  \* bound: rows one run enumerates
  MaxRepairs,     \* bound: repair-range commands
  MaxFaults       \* bound: crashes and expired leases

Runs == 1..MaxRuns
NoRun == 0
Jobs == (Runs \X Accounts) \cup ({NoRun} \X Known)
Workers == KeyWorkers \cup Repairers

ASSUME ConstantsAssumption ==
  /\ IsFiniteSet(Accounts) /\ Known \subseteq Accounts
  /\ MaxRuns \in Nat
  /\ NoToken \notin Tokens
  /\ KeyWorkers \cap Repairers = {}
  /\ BatchSize \in Nat \ {0} /\ FallbackAfter \in Nat \ {0}
  /\ HighWater \in Nat /\ LowWater \in Nat /\ LowWater < HighWater
  /\ MaxEnumerated \in Nat /\ MaxRepairs \in Nat /\ MaxFaults \in Nat

Statuses == {"absent", "pending", "retry", "running",
             "rest_fallback", "rest_fallback_running"}
Leased == {"running", "rest_fallback_running"}
FallbackLane == {"rest_fallback", "rest_fallback_running"}
Phases == {"idle", "fetching", "requeue", "mark", "count", "complete", "move", "rest"}

VARIABLES
  status,          \* account_queue.status; "absent" when there is no row
  token,           \* account_queue.claim_token
  attempts,        \* account_queue.attempts, saturating at FallbackAfter
  firstAttempted,  \* rows with first_attempted_at
  firstCounted,    \* rows with first_attempt_counted_at
  overflow,        \* number of overflow_queue rows of a run
  runStatus, enumComplete, enumerated, attempted, processed,  \* crawl_runs
  phase,           \* where a worker is in its loop
  claim, batch,    \* the jobs a worker holds and the token it holds them by
  tired,           \* those of them with FallbackAfter attempts
  valid,           \* those of them the response answered
  paused,          \* Service.globalPaused
  admitted,        \* run whose next page the enumerator is fetching
  monitor,         \* run MaybeCompleteMain is examining, and how far it is
  up,              \* the crawler process runs
  faults, repairs

rowVars == <<status, token, attempts, firstAttempted, firstCounted>>
runVars == <<runStatus, enumComplete, enumerated, attempted, processed>>
workerVars == <<phase, claim, batch, tired, valid>>
enumVars == <<paused, admitted>>
budgets == <<faults, repairs>>
vars == <<rowVars, overflow, runVars, workerVars, enumVars, monitor, up, budgets>>

-----------------------------------------------------------------------------
(* Rows and claims *)

Live == {k \in Jobs : status[k] # "absent"}
\* The rows of S that belong to run r.
OfRun(S, r) == {k \in S : k[1] = r}
LiveOf(r) == OfRun(Live, r)
Running == {r \in Runs : runStatus[r] = "running"}

\* Seeded fault: claims matched by row id alone.
OwnedById(w) == batch[w]

\* The jobs w still owns: id and claim_token of the row match its claim.
Owned(w) == {k \in batch[w] : token[k] = claim[w]}

\* One UUID per claim: a token no row carries and no worker still holds.
Fresh(t) ==
  /\ \A k \in Jobs : token[k] # t
  /\ \A w \in Workers : claim[w] # t

\* GlobalBacklog: enumerated users minus attempted users, never below zero.
GlobalBacklog(r) ==
  IF attempted[r] <= enumerated[r] THEN enumerated[r] - attempted[r] ELSE 0

\* Seeded fault: a requeue that forgets claim_token = NULL.
ReleaseKeepsToken(w, S, st) ==
  LET hit == S \cap Owned(w) IN
  /\ status' = [k \in Jobs |-> IF k \in hit THEN st ELSE status[k]]
  /\ UNCHANGED <<token, attempts, firstAttempted, firstCounted>>

\* UPDATE account_queue ... WHERE id, claim_token match: rows of S that w
\* still owns leave w's claim with status st; the others are left alone.
Release(w, S, st) ==
  LET hit == S \cap Owned(w) IN
  /\ status' = [k \in Jobs |-> IF k \in hit THEN st ELSE status[k]]
  /\ token' = [k \in Jobs |-> IF k \in hit THEN NoToken ELSE token[k]]
  /\ UNCHANGED <<attempts, firstAttempted, firstCounted>>

\* DELETE FROM account_queue of the rows S; every column goes with the row.
DeleteRows(S) ==
  /\ status' = [k \in Jobs |-> IF k \in S THEN "absent" ELSE status[k]]
  /\ token' = [k \in Jobs |-> IF k \in S THEN NoToken ELSE token[k]]
  /\ attempts' = [k \in Jobs |-> IF k \in S THEN 0 ELSE attempts[k]]
  /\ firstAttempted' = firstAttempted \ S
  /\ firstCounted' = firstCounted \ S

\* INSERT ... ON CONFLICT DO NOTHING of the rows S.
InsertRows(S) ==
  /\ status' = [k \in Jobs |->
                  IF k \in S /\ status[k] = "absent" THEN "pending" ELSE status[k]]
  /\ UNCHANGED <<token, attempts, firstAttempted, firstCounted>>

\* ClaimScheduledAccounts and ClaimRESTFallbackBatch: w takes the due rows S,
\* SKIP LOCKED keeping concurrent claims apart.
ClaimRows(w, S, st, tried) ==
  \E t \in Tokens :
    /\ Fresh(t)
    /\ status' = [k \in Jobs |-> IF k \in S THEN st ELSE status[k]]
    /\ token' = [k \in Jobs |-> IF k \in S THEN t ELSE token[k]]
    /\ attempts' = [k \in Jobs |->
         IF k \in S /\ tried /\ attempts[k] < FallbackAfter
         THEN attempts[k] + 1 ELSE attempts[k]]
    /\ claim' = [claim EXCEPT ![w] = t]
    /\ batch' = [batch EXCEPT ![w] = S]
    /\ tired' = [tired EXCEPT ![w] = {k \in S : attempts'[k] >= FallbackAfter}]
    /\ valid' = [valid EXCEPT ![w] = {}]
    /\ phase' = [phase EXCEPT ![w] = "fetching"]
    /\ UNCHANGED <<firstAttempted, firstCounted>>

-----------------------------------------------------------------------------
(* A worker's loop *)

\* The worker goes on with the jobs S, in phase p.
GoOn(w, S, p) ==
  /\ phase' = [phase EXCEPT ![w] = IF S = {} THEN "idle" ELSE p]
  /\ batch' = [batch EXCEPT ![w] = S]
  /\ valid' = [valid EXCEPT ![w] = {}]
  /\ tired' = [tired EXCEPT ![w] = {}]
  /\ claim' = [claim EXCEPT ![w] = IF S = {} THEN NoToken ELSE claim[w]]
  /\ UNCHANGED up

\* The worker returns an error: the cancel group stops the whole process.
Fail == up' = FALSE /\ UNCHANGED workerVars

\* A statement that had to match every job of S: on a miss the error goes up.
Checked(w, S, rest, p) ==
  IF S \subseteq Owned(w) THEN GoOn(w, rest, p) ELSE Fail

\* RequeueAccountsAfter, MoveAccountsToRESTFallback and
\* RequeueRESTFallbackBatchAfter differ in the status they set.
Requeue(w, S, rest, p) == Release(w, S, "retry") /\ Checked(w, S, rest, p)
MoveToFallback(w, S, rest, p) ==
  Release(w, S, "rest_fallback") /\ Checked(w, S, rest, p)

\* CompleteAccountsScheduled: the rows are deleted, a job with more keys goes
\* on in the overflow queue, and the run counters move, all in one transaction.
Settle(S, more) ==
  /\ DeleteRows(S)
  /\ overflow' = [r \in Runs |->
                    overflow[r] + Cardinality(OfRun(more, r))]
  /\ processed' = [r \in Runs |->
                     processed[r] + Cardinality(OfRun(S, r))]
  /\ UNCHANGED <<runStatus, enumComplete, enumerated, attempted>>

WorkerFrame == UNCHANGED <<enumVars, monitor, budgets>>
QueueOnly == UNCHANGED <<overflow, runVars, enumVars, monitor, budgets>>

KeyClaim(w) ==
  /\ up /\ phase[w] = "idle"
  /\ \E S \in SUBSET {k \in Jobs : status[k] \in {"pending", "retry"}} :
       /\ S # {} /\ Cardinality(S) <= BatchSize
       /\ ClaimRows(w, S, "running", TRUE)
  /\ UNCHANGED up /\ QueueOnly

\* Rate limit, gateway timeout or refused credential: the whole batch is
\* requeued.  Also the second half of a failed batch, after KeyBatchFailed.
KeyRequeue(w) ==
  /\ up /\ phase[w] \in {"fetching", "requeue"}
  /\ Requeue(w, batch[w], {}, "idle")
  /\ QueueOnly

\* Any other error: jobs with enough attempts move to the fallback lane, and
\* the rest is requeued by the next statement.
KeyBatchFailed(w) ==
  /\ up /\ phase[w] = "fetching"
  /\ MoveToFallback(w, tired[w], batch[w] \ tired[w], "requeue")
  /\ QueueOnly

\* A response that normalizeResourceUsers rejects as a whole.
KeyBatchInvalid(w) ==
  /\ up /\ phase[w] = "fetching"
  /\ MoveToFallback(w, batch[w], {}, "idle")
  /\ QueueOnly

\* A response: it answers the jobs V, the others are null or invalid nodes.
KeyBatchFetched(w) ==
  /\ up /\ phase[w] = "fetching"
  /\ \E V \in SUBSET batch[w] : valid' = [valid EXCEPT ![w] = V]
  /\ phase' = [phase EXCEPT ![w] = "mark"]
  /\ UNCHANGED <<rowVars, up, claim, batch, tired>> /\ QueueOnly

\* The transaction before this one failed: requeue what is left, then return
\* the error.
GiveUp(w, S, st) == Release(w, S, st) /\ Fail

\* MarkAccountsAttempted, first transaction: the per-row marker.
MarkAttempted(w) ==
  /\ up /\ phase[w] = "mark"
  /\ IF batch[w] \subseteq Owned(w)
     THEN /\ firstAttempted' = firstAttempted \cup batch[w]
          /\ phase' = [phase EXCEPT ![w] = "count"]
          /\ UNCHANGED <<status, token, attempts, firstCounted,
                         claim, batch, tired, valid, up>>
     ELSE GiveUp(w, batch[w], "retry")
  /\ QueueOnly

\* Seeded fault: every row of the batch is counted again.
UncountedAll(w) == batch[w]

\* The rows without first_attempt_counted_at.
Uncounted(w) == batch[w] \ firstCounted

\* MarkAccountsAttempted, second transaction: rows not yet counted are counted
\* in their run, which never shows more attempts than enumerated users.
CountAttempts(w) ==
  /\ up /\ phase[w] = "count"
  /\ IF batch[w] \subseteq Owned(w)
     THEN LET sum(r) == attempted[r] + Cardinality(OfRun(Uncounted(w), r))
          IN /\ attempted' = [r \in Runs |->
                  IF OfRun(Uncounted(w), r) = {} THEN attempted[r]
                  ELSE IF sum(r) <= enumerated[r] THEN sum(r) ELSE enumerated[r]]
             /\ firstCounted' = firstCounted \cup Uncounted(w)
             /\ phase' = [phase EXCEPT ![w] = "complete"]
             /\ UNCHANGED <<status, token, attempts, firstAttempted, claim,
                            batch, tired, valid, up>>
     ELSE GiveUp(w, batch[w], "retry") /\ UNCHANGED attempted
  /\ UNCHANGED <<overflow, runStatus, enumComplete, enumerated, processed>>
  /\ WorkerFrame

\* CompleteAccountsScheduled by a key worker: all of the answered jobs, or none.
KeyComplete(w) ==
  /\ up /\ phase[w] = "complete" /\ w \in KeyWorkers
  /\ IF valid[w] \subseteq Owned(w)
     THEN /\ \E more \in SUBSET valid[w] : Settle(valid[w], more)
          /\ GoOn(w, batch[w] \ valid[w], "move")
     ELSE GiveUp(w, valid[w], "retry") /\ UNCHANGED <<overflow, runVars>>
  /\ WorkerFrame

\* Null and invalid nodes move to the fallback lane, one statement for each.
KeyMoveMissing(w) ==
  /\ up /\ phase[w] = "move" /\ w \in KeyWorkers
  /\ \E S \in SUBSET batch[w] : S # {} /\ MoveToFallback(w, S, batch[w] \ S, "move")
  /\ QueueOnly

-----------------------------------------------------------------------------
(* The REST fallback lane *)

RepairClaim(w) ==
  /\ up /\ phase[w] = "idle"
  /\ \E S \in SUBSET {k \in Jobs : status[k] = "rest_fallback"} :
       /\ S # {} /\ Cardinality(S) <= BatchSize
       /\ ClaimRows(w, S, "rest_fallback_running", FALSE)
  /\ UNCHANGED up /\ QueueOnly

\* The URL-resource request failed, its response was rejected, or the commit
\* failed for a reason other than the claim.
RepairRequeue(w) ==
  /\ up /\ phase[w] \in {"fetching", "complete"}
  /\ MoveToFallback(w, batch[w], {}, "idle")
  /\ QueueOnly

RepairFetched(w) ==
  /\ up /\ phase[w] = "fetching"
  /\ \E V \in SUBSET batch[w] : valid' = [valid EXCEPT ![w] = V]
  /\ phase' = [phase EXCEPT ![w] = "complete"]
  /\ UNCHANGED <<rowVars, up, claim, batch, tired>> /\ QueueOnly

RepairComplete(w) ==
  /\ up /\ phase[w] = "complete" /\ w \in Repairers
  /\ IF valid[w] \subseteq Owned(w)
     THEN /\ \E more \in SUBSET valid[w] : Settle(valid[w], more)
          /\ GoOn(w, batch[w] \ valid[w], "rest")
     ELSE /\ GiveUp(w, batch[w], "rest_fallback")
          /\ UNCHANGED <<overflow, runVars>>
  /\ WorkerFrame

\* processRESTFallback for one unresolved job: REST answers with the whole key
\* set, or that the account is gone; either settles the job.
RESTSettle(w) ==
  /\ up /\ phase[w] = "rest" /\ w \in Repairers
  /\ \E k \in batch[w] :
       IF k \in Owned(w)
       THEN Settle({k}, {}) /\ GoOn(w, batch[w] \ {k}, "rest")
       ELSE /\ GiveUp(w, batch[w] \ {k}, "rest_fallback")
            /\ UNCHANGED <<overflow, runVars>>
  /\ WorkerFrame

\* The REST request failed: only this job goes back to the lane.
RESTFailed(w) ==
  /\ up /\ phase[w] = "rest" /\ w \in Repairers
  /\ \E k \in batch[w] :
       IF k \in Owned(w)
       THEN /\ Release(w, {k}, "rest_fallback")
            /\ GoOn(w, batch[w] \ {k}, "rest")
       ELSE GiveUp(w, batch[w] \ {k}, "rest_fallback")
  /\ QueueOnly

-----------------------------------------------------------------------------
(* Producers: enumeration of a run and the sources without a run *)

\* waitForGlobalCapacity: hysteresis between the two water marks.
Combined(r) == GlobalBacklog(r) + Cardinality(LiveOf(NoRun))
PausedNext(r) ==
  IF Combined(r) >= HighWater THEN TRUE
  ELSE paused /\ Combined(r) > LowWater

AdmitPage(r) ==
  /\ up /\ admitted = NoRun
  /\ r \in Running /\ ~enumComplete[r]
  /\ paused' = PausedNext(r)
  /\ admitted' = IF paused' THEN NoRun ELSE r
  /\ UNCHANGED <<rowVars, overflow, runVars, workerVars, monitor, up, budgets>>

\* Seeded fault: a repeated user is counted again.
NewRowsAll(r, S) == {r} \X S

\* The rows a page adds to a run.
NewRows(r, S) == {k \in {r} \X S : status[k] = "absent"}

\* A page of the users listing: rows already queued for the run are skipped,
\* only inserted ones are counted, and the last page ends the enumeration.
EnumeratePage(S, last) ==
  LET r == admitted
      new == NewRows(r, S)
  IN
  /\ up /\ admitted # NoRun
  /\ enumerated[r] + Cardinality(new) <= MaxEnumerated
  /\ InsertRows({r} \X S)
  /\ enumerated' = [enumerated EXCEPT ![r] = @ + Cardinality(new)]
  /\ enumComplete' = [enumComplete EXCEPT ![r] = @ \/ last]
  /\ admitted' = NoRun
  /\ UNCHANGED <<overflow, runStatus, attempted, processed, workerVars,
                 paused, monitor, up, budgets>>

Enqueue(S) ==
  /\ up
  /\ S # {}
  /\ InsertRows({NoRun} \X S)
  /\ UNCHANGED <<workerVars, up>> /\ QueueOnly

\* The scan of an account's remaining keys ends (see KeyScan).
OverflowDone(r) ==
  /\ up /\ overflow[r] > 0
  /\ overflow' = [overflow EXCEPT ![r] = @ - 1]
  /\ UNCHANGED <<rowVars, runVars, workerVars, enumVars, monitor, up, budgets>>

\* The repair-range command, a process of its own, reopens the running run.
SeedEnumerationRepair(r) ==
  /\ repairs < MaxRepairs
  /\ r \in Running
  /\ enumComplete' = [enumComplete EXCEPT ![r] = FALSE]
  /\ repairs' = repairs + 1
  /\ UNCHANGED <<rowVars, overflow, runStatus, enumerated, attempted, processed,
                 workerVars, enumVars, monitor, up, faults>>

-----------------------------------------------------------------------------
(* The run monitor *)

\* EnsureMainRun: a new run when none is running.
EnsureMainRun(r) ==
  /\ up /\ Running = {}
  /\ runStatus[r] = "none" /\ \A q \in 1..(r - 1) : runStatus[q] # "none"
  /\ runStatus' = [runStatus EXCEPT ![r] = "running"]
  /\ UNCHANGED <<rowVars, overflow, enumComplete, enumerated, attempted,
                 processed, workerVars, enumVars, monitor, up, budgets>>

\* Seeded faults: the wrong counter, and an off-by-one, in the gate.
RunDrainedByAttempts(r) == enumComplete[r] /\ attempted[r] >= enumerated[r]
RunDrainedStrictly(r) == enumComplete[r] /\ processed[r] > enumerated[r]

RunDrained(r) == enumComplete[r] /\ processed[r] >= enumerated[r]

\* MaybeCompleteMain, first query: the run row.
MonitorRead(r) ==
  /\ up /\ monitor.at = "idle"
  /\ r \in Running /\ RunDrained(r)
  /\ monitor' = [at |-> "read", run |-> r]
  /\ UNCHANGED <<rowVars, overflow, runVars, workerVars, enumVars, up, budgets>>

\* Seeded fault: the gate forgets the key scans.
NoScanCheck(r) == FALSE

ScansPending(r) == overflow[r] > 0

\* Second query: no key scan of the run may be left.
MonitorCheck ==
  /\ up /\ monitor.at = "read"
  /\ monitor' = IF ScansPending(monitor.run)
                THEN [at |-> "idle", run |-> NoRun]
                ELSE [monitor EXCEPT !.at = "checked"]
  /\ UNCHANGED <<rowVars, overflow, runVars, workerVars, enumVars, up, budgets>>

\* The transaction: only the status of the run is looked at again.
MonitorCommit ==
  /\ up /\ monitor.at = "checked"
  /\ runStatus' = [runStatus EXCEPT ![monitor.run] =
                     IF @ = "running" THEN "completed" ELSE @]
  /\ monitor' = [at |-> "idle", run |-> NoRun]
  /\ UNCHANGED <<rowVars, overflow, enumComplete, enumerated, attempted,
                 processed, workerVars, enumVars, up, budgets>>

-----------------------------------------------------------------------------
(* Leases, crashes and restarts *)

\* Seeded faults: a misspelt status, one lane for all, and a claim that is
\* cleared while the row stays leased.
LaneOfTypo(st) == IF st = "rest_fallback_running" THEN "fallback" ELSE "retry"
LaneOfRetry(st) == "retry"
LaneOfSame(st) == st

\* Reaped and recovered rows return to the lane they were claimed from.
LaneOf(st) == IF st = "rest_fallback_running" THEN "rest_fallback" ELSE "retry"

\* ReapExpiredLeases: the rows of one batch were claimed at once and expire
\* together, however far the worker has come with them.
ReapExpiredLeases(t) ==
  /\ up /\ faults < MaxFaults
  /\ \E k \in Jobs : token[k] = t
  /\ LET expired == {k \in Jobs : token[k] = t /\ status[k] \in Leased} IN
     /\ status' = [k \in Jobs |-> IF k \in expired THEN LaneOf(status[k]) ELSE status[k]]
     /\ token' = [k \in Jobs |-> IF k \in expired THEN NoToken ELSE token[k]]
  /\ faults' = faults + 1
  /\ UNCHANGED <<attempts, firstAttempted, firstCounted, overflow, runVars,
                 workerVars, enumVars, monitor, up, repairs>>

Crash ==
  /\ up /\ faults < MaxFaults
  /\ up' = FALSE
  /\ faults' = faults + 1
  /\ UNCHANGED <<rowVars, overflow, runVars, workerVars, enumVars, monitor, repairs>>

\* The container restarts: Recover clears every claim, goroutines start over.
Recover ==
  /\ ~up
  /\ up' = TRUE
  /\ status' = [k \in Jobs |->
                  IF status[k] \in Leased THEN LaneOf(status[k]) ELSE status[k]]
  /\ token' = [k \in Jobs |-> IF status[k] \in Leased THEN NoToken ELSE token[k]]
  /\ phase' = [w \in Workers |-> "idle"]
  /\ claim' = [w \in Workers |-> NoToken]
  /\ batch' = [w \in Workers |-> {}]
  /\ tired' = [w \in Workers |-> {}]
  /\ valid' = [w \in Workers |-> {}]
  /\ paused' = FALSE /\ admitted' = NoRun
  /\ monitor' = [at |-> "idle", run |-> NoRun]
  /\ UNCHANGED <<attempts, firstAttempted, firstCounted, overflow, runVars, budgets>>

-----------------------------------------------------------------------------
Init ==
  /\ status = [k \in Jobs |-> "absent"]
  /\ token = [k \in Jobs |-> NoToken]
  /\ attempts = [k \in Jobs |-> 0]
  /\ firstAttempted = {} /\ firstCounted = {}
  /\ overflow = [r \in Runs |-> 0]
  /\ runStatus = [r \in Runs |-> "none"]
  /\ enumComplete = [r \in Runs |-> FALSE]
  /\ enumerated = [r \in Runs |-> 0]
  /\ attempted = [r \in Runs |-> 0]
  /\ processed = [r \in Runs |-> 0]
  /\ phase = [w \in Workers |-> "idle"]
  /\ claim = [w \in Workers |-> NoToken]
  /\ batch = [w \in Workers |-> {}]
  /\ tired = [w \in Workers |-> {}]
  /\ valid = [w \in Workers |-> {}]
  /\ paused = FALSE /\ admitted = NoRun
  /\ monitor = [at |-> "idle", run |-> NoRun]
  /\ up = TRUE
  /\ faults = 0 /\ repairs = 0

KeyStep(w) ==
  \/ KeyClaim(w) \/ KeyRequeue(w) \/ KeyBatchFailed(w) \/ KeyBatchInvalid(w)
  \/ KeyBatchFetched(w) \/ MarkAttempted(w) \/ CountAttempts(w)
  \/ KeyComplete(w) \/ KeyMoveMissing(w)

RepairStep(w) ==
  \/ RepairClaim(w) \/ RepairRequeue(w) \/ RepairFetched(w)
  \/ RepairComplete(w) \/ RESTSettle(w) \/ RESTFailed(w)

RunStep ==
  \/ \E r \in Runs : AdmitPage(r) \/ EnsureMainRun(r) \/ MonitorRead(r)
                     \/ SeedEnumerationRepair(r) \/ OverflowDone(r)
  \/ \E S \in SUBSET Known : Enqueue(S)
  \/ \E S \in SUBSET Accounts, last \in BOOLEAN : EnumeratePage(S, last)
  \/ MonitorCheck \/ MonitorCommit

Next ==
  \/ \E w \in KeyWorkers : KeyStep(w)
  \/ \E w \in Repairers : RepairStep(w)
  \/ RunStep
  \/ \E t \in Tokens : ReapExpiredLeases(t)
  \/ Crash \/ Recover

Spec == Init /\ [][Next]_vars

\* The goroutines keep running, the container is restarted, a due row is not
\* overtaken for ever (rows are claimed oldest first), and a request that is
\* made again and again is answered in the end.  Nothing is asked of OverflowDone:
\* a key scan need not end.
ClaimsJob(k) ==
  \/ \E w \in KeyWorkers : KeyClaim(w) /\ status'[k] = "running" /\ status[k] # "running"
  \/ \E w \in Repairers : RepairClaim(w) /\ status'[k] = "rest_fallback_running"
                           /\ status[k] = "rest_fallback"

JobFairness(k) ==
  /\ SF_vars(ClaimsJob(k))
  /\ SF_vars(\E w \in KeyWorkers : k \in batch[w] /\ KeyBatchFetched(w))
  /\ SF_vars(\E w \in Repairers : k \in batch[w] /\ RepairFetched(w))
  /\ SF_vars(\E w \in Repairers : k \in batch[w] /\ RepairComplete(w))
  /\ SF_vars(\E w \in Repairers : k \in batch[w] /\ RESTSettle(w) /\ k \notin batch'[w])

WorkerFairness(w) ==
  /\ WF_vars(MarkAttempted(w) \/ CountAttempts(w) \/ KeyComplete(w) \/ KeyMoveMissing(w))
  /\ WF_vars(KeyRequeue(w) /\ phase[w] = "requeue")

RunFairness ==
  /\ \A r \in Runs : WF_vars(AdmitPage(r)) /\ WF_vars(EnsureMainRun(r))
                     /\ WF_vars(MonitorRead(r))
  /\ SF_vars(\E S \in SUBSET Accounts : EnumeratePage(S, TRUE))
  /\ WF_vars(MonitorCheck) /\ WF_vars(MonitorCommit) /\ WF_vars(Recover)

FairSpec ==
  /\ Spec
  /\ \A k \in Jobs : JobFairness(k)
  /\ \A w \in KeyWorkers : WorkerFairness(w)
  /\ \A w \in Repairers : WF_vars(RepairComplete(w)) /\ WF_vars(RESTSettle(w))
  /\ RunFairness

-----------------------------------------------------------------------------
(* Properties *)

RowsTyped ==
  /\ status \in [Jobs -> Statuses]
  /\ token \in [Jobs -> Tokens \cup {NoToken}]
  /\ attempts \in [Jobs -> 0..FallbackAfter]
  /\ firstAttempted \in SUBSET Jobs /\ firstCounted \in SUBSET Jobs

RunsTyped ==
  /\ overflow \in [Runs -> Nat]
  /\ runStatus \in [Runs -> {"none", "running", "completed"}]
  /\ enumComplete \in [Runs -> BOOLEAN]
  /\ enumerated \in [Runs -> Nat]
  /\ attempted \in [Runs -> Nat]
  /\ processed \in [Runs -> Nat]

WorkersTyped ==
  /\ phase \in [Workers -> Phases]
  /\ claim \in [Workers -> Tokens \cup {NoToken}]
  /\ batch \in [Workers -> SUBSET Jobs]
  /\ tired \in [Workers -> SUBSET Jobs]
  /\ valid \in [Workers -> SUBSET Jobs]

ControlTyped ==
  /\ paused \in BOOLEAN /\ admitted \in Runs \cup {NoRun}
  /\ monitor \in [at : {"idle", "read", "checked"}, run : Runs \cup {NoRun}]
  /\ up \in BOOLEAN
  /\ faults \in Nat /\ repairs \in Nat

\* Every variable has its type.
TypeOK == RowsTyped /\ RunsTyped /\ WorkersTyped /\ ControlTyped

\* No enumerated account is lost or settled twice: what a run enumerated is
\* what it processed plus the rows still queued for it.
ExactAccounting ==
  \A r \in Runs : processed[r] + Cardinality(LiveOf(r)) = enumerated[r]

\* An attempt is counted once, over crashes between the two transactions and
\* stale claims: the attempts of a run fit into its users without the queued
\* rows that are not counted yet, and cover the queued rows that are.
AttemptsCountedOnce ==
  \A r \in Runs :
    /\ attempted[r] + Cardinality(LiveOf(r) \ firstCounted) <= enumerated[r]
    /\ Cardinality(LiveOf(r) \cap firstCounted) <= attempted[r]

\* No two workers own a job, and rows out on lease are those with a token.
ClaimsAreExclusive ==
  /\ \A v, w \in Workers : v # w => Owned(v) \cap Owned(w) = {}
  /\ \A k \in Jobs : status[k] \in Leased <=> token[k] # NoToken

\* A row leaves the queue only by its current claimant's hand.
OnlyTheClaimantSettles ==
  [][\A k \in Jobs : status[k] # "absent" /\ status'[k] = "absent"
        => \E w \in Workers : /\ k \in batch[w] /\ token[k] = claim[w]
                              /\ phase[w] \in {"complete", "rest"}]_vars

\* A row that entered the fallback lane is settled there: no requeue, reaped
\* lease or restart sends it back to the GraphQL lane.
FallbackLaneIsKept ==
  [][\A k \in Jobs : status[k] \in FallbackLane
        => status'[k] \in FallbackLane \cup {"absent"}]_vars

\* Only a settled run is completed: its enumeration is over and none of its
\* rows and key scans is left.
CompletedRunIsSettled ==
  \A r \in Runs : runStatus[r] = "completed" =>
    enumComplete[r] /\ LiveOf(r) = {} /\ overflow[r] = 0

\* A run settles what it owes and is closed when it owes nothing.
Ledger == INSTANCE RunLedger WITH
  stage <- [r \in Runs |-> runStatus[r]],
  owed <- [r \in Runs |-> Cardinality(LiveOf(r)) + overflow[r]],
  settled <- [r \in Runs |-> processed[r] - overflow[r]]
RefinesLedger == Ledger!Spec

\* Every row is settled in the end: no crash, expired lease, failed request
\* or fallback leaves one behind.
EveryJobSettles ==
  \A k \in Jobs : status[k] # "absent" ~> status[k] = "absent"

\* The rows of a run that were settled and are in no count of attempts.
SettledUncounted(r) == enumerated[r] - attempted[r] - Cardinality(LiveOf(r) \ firstCounted)

\* The backlog holds more than LowWater of them, and waits for them for ever.
StalledByUncounted(r) == paused /\ ~enumComplete[r] /\ SettledUncounted(r) > LowWater

\* Every run ends: one that is running for ever has from some time on always a
\* key scan that goes on, or its enumeration is paused for rows that no worker
\* will count.
EveryRunCompletes ==
  \A r \in Runs : <>[](runStatus[r] = "running") =>
    <>[](overflow[r] > 0) \/ <>[]StalledByUncounted(r)

\* Enumeration waits for a backlog to drain, and goes on when it has.
EnumerationEnds ==
  \A r \in Runs : runStatus[r] = "running" ~> enumComplete[r]

=============================================================================
