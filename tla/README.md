# Verification of the GitHub SSH key index crawler

The program under `src/` crawls the accounts of GitHub, reads the public SSH
keys of each, and answers "whose key is this?" from a PostgreSQL index. One
process runs the crawler (`crawler.Service`, a group of goroutines) on a
database that holds all durable state (`store.Store`); another serves the HTTP
API. What is hard about it is that no state worth losing may live in memory: the
crawler is killed, leases expire, responses arrive after the row they are for was
given to somebody else, and the listing of GitHub changes while it is read.

This directory holds TLA+ models of that machinery, the configurations that
check them with TLC, and proofs checked by TLAPS. File and line references are to
`src/`; `PROJECT.json` maps every definition to its lines.

Contents: [inventory](#inventory), [modules](#modules), [runs](#runs),
[disagreements](#where-code-and-comments-disagree), [fairness](#fairness),
[proofs](#proofs), [not modelled](#what-is-not-modelled), [plan](#plan).

## Inventory

| component | state | operations | status |
|---|---|---|---|
| account queue, claims, leases | `account_queue` | enqueue, claim, requeue, move to fallback, complete, reap, recover | modelled: AccountQueue |
| GraphQL key workers, REST fallback workers | none of their own: a claimed batch and a response | `keyWorker`, `processResourceRepairBatch`, `processRESTFallback` | modelled: AccountQueue |
| main run and monitor | `crawl_runs` | `EnsureMainRun`, counters, `MaybeCompleteMain`, backlog gate | modelled: AccountQueue, RunLedger |
| enumeration shards | `enumeration_shards`, `crawl_runs.enumeration_complete` | create, claim, apply page, split, requeue, repair range | modelled: EnumerationShards |
| overflow scans | `overflow_queue`, `key_scan_staging` | claim, page, pass, restart, REST snapshot | modelled: KeyScan |
| observation index | `github_owners`, `github_owner_keys`, `ssh_keys`, `zero_key_rechecks` | observe, finalize, inaccessible, refresh schedule, rechecks | modelled: Freshness, KeyScan |
| live tail | `runtime_state`: `tail_highwater`, `tail_url`, `tail_etag`, `live_tail_initialized` | search for the last id, `InitializeLiveTail`, `ApplyTailPage` | modelled: Freshness |
| coverage ledger and audit | `coverage_generations`, `coverage_partitions`, bitmaps, day counts | mark, claim partition, split, stage, resolve, finalize | modelled: CoverageAudit |
| federated entity sweep | `entity_sweep_*` | claim shard, advance, finish | not modelled |
| rate limiting | `Pool`, `Pacer` (memory) | reserve, observe, cooldown, secondary limit | modelled: Requests |
| client and credentials | `InstallationTokenSource`, `Client` (memory) | token, refresh, invalidate, disable | partly: Requests |
| HTTP API | request limiter (memory) | lookup, users, status | not modelled |
| SSH key parsing | none | decode and fingerprint | not modelled |
| status and estimates | none: computed from the tables | | not modelled |
| schema migrations | `schema_migrations` | `Migrate` | not modelled |
| command line | none | configuration | not modelled |
| crawler lock, heartbeats | advisory lock, `worker_heartbeats` | | assumed: one crawler |

How they interact: an *enumerator* owns a shard, waits until the backlog of the
run is low (`waitForGlobalCapacity`), reads a page of `/users`, and in one
transaction inserts the accounts into the queue, moves the checkpoint and, on the
last page of the last shard, marks the run enumerated. *Key workers* claim a
batch, ask GraphQL, and in separate transactions mark the attempt, count it in the
run, settle what was answered and move what was not to the *REST fallback lane*,
which has workers of its own. An account with more keys than one page goes on as
a row of the *overflow queue*. The *monitor* completes a run that is enumerated,
processed and has no overflow row, and starts the next one. The *reaper* returns
expired leases to the queue and `Recover` does so for all of them at a start; any
error a worker does not handle cancels the group and the container restarts.

The *tail* finds the id at which GitHub's accounts end, which is also the cutoff of
the first run, and follows what is created above it. Two *schedulers* queue owners
whose refresh is due and new accounts without keys. Every settled account marks
the *ledger* of its run; when a run is completed the *auditor* compares the ledger
with GitHub's search, partition by partition, and queues what the ledger lacks.
Every GraphQL request first reserves a slot on a *lane* of the rate pool, takes
the lane's token, and reports the answer to both.

What makes each component correct, and where it is hard:

- *Queue.* A row has one owner; a worker that lost its lease changes nothing;
  every account a run enumerated is settled once and none is lost, over partial
  failures of a batch, which is handled by up to four transactions. An account
  that GraphQL cannot answer must not go back to GraphQL, and must end.
- *Runs.* A run is completed only when nothing is left of it, though the decision
  takes three statements and other processes write in between. Enumeration pauses
  and must resume.
- *Shards.* Ranges have neither gap nor overlap over integer division and splits;
  no user is behind a checkpoint without being queued; "enumerated" is never said
  too early, and is said in the end.
- *Scans.* The keys an account shows are keys that it had at one time, although
  they were read page by page while they changed. A scan ends.
- *Observations.* A key's last seen and removed times follow the order of the
  answers; due accounts are looked at again; accounts that are gone drop out.
- *Coverage.* Every identity below the cutoff is accounted for before a generation
  is called final, over crashes of its auditor.
- *Rates.* No lane spends more than its budget; a cooldown is never shortened by a
  request reserved earlier; correlated hits stop all lanes and they resume.
- *Credentials.* A rejected token does not invalidate its replacement.

`PROJECT.json` lists the hazards, each at its line, with the properties that cover
it or the reason why none does.

## Modules

### AccountQueue, RunLedger

`AccountQueue.tla` is the queue with its two kinds of workers, the run counters,
the enumeration of a run as the queue sees it, the monitor, and the process.

| variables | code |
|---|---|
| `status`, `token`, `attempts`, `firstAttempted`, `firstCounted` | columns of `account_queue`; a row is `<<run, account>>`, with `NoRun` for the sources without one (tail, priority, reconcile, ...), which are unique per account and source (`account_queue_non_global_unique`): the model has one such source |
| `runStatus`, `enumComplete`, `enumerated`, `attempted`, `processed`, `overflow` | `crawl_runs`, and the number of overflow rows of a run |
| `phase`, `claim`, `batch`, `tired`, `valid` | a goroutine: which statement is next, the token and rows it holds, those with enough attempts to leave the GraphQL lane, those the response answered |
| `paused`, `admitted`, `monitor`, `up` | `Service.globalPaused`, the enumerator between its gate and its page, `MaybeCompleteMain` between its statements, the process |

An action is one transaction or one request. So `KeyBatchFetched`,
`MarkAttempted`, `CountAttempts`, `KeyComplete` and each `KeyMoveMissing` are steps
between which leases expire, other workers claim and the process dies, as in
`keyWorker` (`crawler/service.go:819`). A statement that must match all its rows
by id and claim token (`Checked`, `GiveUp`) ends the process when it does not, as
the error does that a worker returns.

`RunLedger.tla` is what a run promises to its reader: it owes each account it
enumerated, settles each once, owes nothing new after it is completed, and is
completed only when it owes nothing. `AccountQueue` implements it (`RefinesLedger`)
with a job owed while its row is queued or its key scan is open.

### EnumerationShards

The range below the cutoff of one run: `PrimaryShards`, `Split` and `RepairShards`
are the three divisions, `Plan` is `planEnumerationPage`, and the actions are the
worker's loop, the repair command, the watchdog, and crashes. Identities are
integers; `Objects` are those the listing returns, with gaps, and `Users` those
that are not organizations. A next link may point anywhere between the last object
of the page and the next one. PostgreSQL runs these transactions at READ
COMMITTED, so a page is two steps: `ApplyPage`, up to the snapshot in which the
last statement looks for other uncompleted shards, and `CommitPage`. `MustWait`
has the row locks that keep some pairs of them apart. Heartbeats, page metrics and
the backlog gate (which is in AccountQueue) are left out. The models keep shards
without leases because the code does: only `Recover` frees a shard.

### KeyScan

One account as GitHub has it (`listing`, `gone`), as the index shows it
(`present`, `owner`), and one scan of it from its queue row (`kind = "account"`)
to its overflow row (`"overflow"`), staged keys and end. A worker carries its own
copy of the row, its page or its REST snapshot, and commits by claim token. `seen`
is a history variable: the sets of keys listed since the scan was enqueued.

Assumed of GitHub: keys are listed in the order they were added, a GraphQL cursor
names the last key of a page, a REST page is a window of that list. A set that is
returned by two agreeing passes was then listed at one moment: within a pass the
counts force the prefix behind the cursor to be complete, and it can only shrink.
This does not hold of REST pages, which shift when a key is removed: two passes
can agree on a set that never was. `IndexedSetWasListed` therefore claims of such
a snapshot only that each key was listed, and exactness of the rest.

A `Scans` slot is used again when its scan ends, so one slot covers scans in
sequence, also after the account was gone and came back. The lane of the account
row (retry or fallback) is in AccountQueue; here both ways to answer are open.

### CoverageAudit

One generation's ledger, its partitions and the auditor, from the page that marks
an account discovered to the verdict on the generation.

| variables | code |
|---|---|
| `run`, `enumerated`, `status` | the main run and `coverage_generations.status` |
| `bits`, `counters`, `dayCount` | `coverage_chunks`, the counters of the generation, `coverage_day_counts` |
| `part`, `staged`, `settled` | `coverage_partitions` by first and last second, `coverage_partition_ids` and which of them are resolved |
| `queue`, `overflow` | the rows of both queues that carry a generation; `range` is the partition of a reconcile row |
| `auditor` | the goroutine: next statement, partition, the counts it read and the listing |
| `listed` | the accounts that GitHub's search still returns |

An action is one transaction, or one search request; `CountPartitions` and
`FinalizeCoverageGeneration` are the two statements of the verdict. Times of
creation are seconds of days of `DayLen`, and a partition may end in a day that the
cutoff cuts short. Claims of rows are in AccountQueue and scan pages in KeyScan; a
row here is settled once, at any time, with an answer that may be older than the
account's removal. Settlements that change a bit are ordered by the generation
row; that two which change none are not is outside the model. The minute of a
sample, which the code computes from day and generation, is any second.

### Requests

How a worker gets to send a GraphQL request. Its state is memory shared by
goroutines, so an action is one critical section, or one request.

| variables | code |
|---|---|
| `pacer` | a `ratelimit.Pacer`: next slot, cooldown, strikes, successes since, last strike. The interval is `Base * 2^strikes` in every state, and not kept apart |
| `poolLock`, `nextLane`, `breaker`, `hitAt` | `ratelimit.Pool`. `Wait` keeps the pool's lock while it takes the lanes' locks, so it is two actions |
| `disabled`, `cache`, `stale` | credentials disabled for good; the token cached by an `InstallationTokenSource` and whether it is within its refresh margin |
| `worker` | a goroutine between two critical sections, with what it carries: lane, slot, tokens, wait, the time of its hit |
| `issued`, `revoked`, `limits`, `now` | GitHub and the clock |
| `spent`, `epoch` | history: points reserved or charged on a lane; how often anything was told to cool down. A worker keeps the `epoch` of its reservation |

A pinned worker is a key worker, which keeps to its lane while the credential
lasts; a roaming one (the batch repair) takes the lane that is ready first. Static
credentials are disabled by a 401, App lanes drop their token and try once more.
The REST and search pacers are a `Pacer` without the pool; how REST requests rotate
over credentials in `do` is not modelled.

### Freshness

How an account comes into the index and stays right: the tail, the runs as a list
of ids still to visit, the two schedulers, and the answers of all sources.

| variables | code |
|---|---|
| `lastId`, `content` | the accounts at GitHub, with the keys they show, or gone |
| `tail`, `initialized`, `highwater`, `etag` | the tail's goroutine and its rows of `runtime_state`; `tail_url` lists from `highwater` |
| `left` | ids between the checkpoints of the run's shards and its cutoff |
| `job` | `account_queue` by source and account, empty, queued, or answered with a content |
| `owner`, `overdue` | `github_owners`, and those whose `next_priority_scan_at` has passed, in that order |
| `recheck`, `recheckDue` | `zero_key_rechecks` likewise |
| `found`, `hidden` | history: users listed; accounts that were gone at some time |

The search for the last id is `discoverUserHighwater`, one action for each request,
while accounts are created. It starts at 0: until it ends no run has a cutoff, so
there are no shards whose checkpoints could start it higher. `FetchTailPage` and
`ApplyTailPage` have the ETag, the next link and the limit on live rows. An answer is
the account as it was when it was asked, and is committed any time later, after
other sources asked and committed. How long a stage of refreshing or of rechecking
lasts is left open: a due time may come at any moment. Key lists fit a page; KeyScan
has the others. The branch of `ensureLiveTail` for a run that was enumerated before
the tail existed is left out: nothing calls `enumerateMain`, and the last page of the last
shard, which sets `initial_enumerated` too (`store.go:1443`), cannot come first, since
shards need the cutoff that the tail sets. An account that is gone when its id is listed is the next run's.

## Runs

All safety runs use small sets of model values, symmetric where the specification
treats them alike (accounts, tokens, workers of a kind); liveness runs use no
symmetry. Bounds on faults, changes, runs and repair commands sit in the guards of
the actions that spend them, never in constraints. Deadlock is not checked: when
the bounds are spent the modelled system may have nothing to do.

| run | question | instance |
|---|---|---|
| `queue` | Are claims exclusive, rows deleted only by their claimant, accounts and attempts exact, the fallback lane kept? | 2 key workers, 1 repair worker, 2 accounts, batches of 2, 1 run, 1 fault, 1 repair command, water marks 2 and 1 |
| `runs` | Is a run completed only when settled, and is the queue a RunLedger? | 1 account in two runs and in a source without run, 1 fault, no repair command |
| `queue_liveness` | Is every row settled, and every run completed whose key scans end and whose backlog drains? | 1 account that may be enumerated twice, 1 repair command, 2 faults, water marks 2 and 1 |
| `shards_repair` | Do shards tile, is nothing skipped, has a shard one owner? | 3 workers, 8 identities, 2 repair ranges, 1 fault |
| `shards_liveness` | Is the run reported enumerated only after all users are queued, and do they get there? | 2 workers, 6 identities, 1 fault |
| `scan` | Are indexed sets real, pages never skipped, and do scans end? | 3 keys of pages of 1 (REST: 2), 2 workers, 2 changes, 1 fault |
| `coverage_audit` | Is the ledger exact, do partitions tile, is a reconciled generation settled, is a verdict final, and does every audit end that was not abandoned and has no endless scan? | 3 accounts in two of three seconds, days of 2, searches of at most 2, every day sampled, 1 generation, 2 disappearances, 2 faults |
| `requests` | Are budgets and cooldowns kept, do correlated hits stop all lanes, is a rejected token not sent again, do workers go on? | 2 lanes, the second an App; a worker pinned to the first and a roaming one; time to 2, 2 limits, 2 tokens, 2 revocations, requests of 2 points |
| `freshness` | Is no account missed, do owners leave the rechecks, does the index converge? | 3 ids, the second an organization, 1 at the start, pages of 1, 1 row for each scheduler, 2 ages, 2 events |
| `run_completion`, `run_stall`, `run_skew` | see the next section | |

Why these bounds are enough for the cases of interest:

- *queue*: a stale claim needs a second worker and one expired lease; two accounts
  make a batch that is answered in part, `tired` in part, or settled in part; the
  second enumeration (the repair command) meets rows that are queued, leased and
  settled. Two water marks one apart open and close the gate. Three tokens are one
  for each worker.
- *runs*: the second run meets rows of the first only through the source without a
  run and the monitor. The repair command is left out because `CompletedRunIsSettled`
  and the ledger do not hold with it (see `run_completion`).
- *queue_liveness*: two faults make a lease expire or the process die twice in the
  life of one row: once before its attempt is counted and once after, or once in
  each lane. One worker of each kind is enough, since a stale worker is one whose
  row went back to the queue. The repair command enumerates the account a second
  time; water marks 2 and 1 then pause the enumeration, and let it go on if the
  attempts are counted. If neither is, they hold it for ever. Without either of its two
  exceptions `EveryRunCompletes` is violated in this instance.
- *shards_repair*: 3 workers on 8 identities give spans with a remainder, splits
  in two and in three, and repair ranges across shards. `MinPiece` 1 stands for
  100. The listing has gaps, organizations and users on the boundaries.
- *scan*: with two changes, one key can go and another come between any two
  requests, which leaves the total as it was; attempts saturate at `RESTAfter`,
  after which they make no difference. A worker whose lease expired and one that
  took over both hold a page.

- *coverage_audit*: two accounts in one second and a third in the next make a day
  that must be split (3 above the limit of 2), halves whose count agrees or not, and
  a second day that is empty and cut short by the cutoff. Seconds that cannot be
  split come from a search that GitHub calls incomplete. Two disappearances let
  an account vanish before its count, its listing, its staging or its repair, and
  change a second count. Two faults abandon a partition and its sibling. Without
  either of its two exceptions `EveryAuditEnds` is violated in this instance.
- *requests*: two lanes are enough for a correlation, and two workers for a hit
  recorded after a later one, a cooldown between choosing and reserving, and a
  token dropped under another worker's retry. Two limits are a strike and a second
  one on the same or the other lane; at `Recovery` 1 one success undoes a strike. A
  hit, a window and the first time after it take the three times 0 to 2.
- *freshness*: accounts 2 and 3 may be created at any request of the search, between
  a page and its commit, or later. One row for each scheduler makes them wait for
  each other; two ages are a stage that is followed by another and the last one. Two
  events let an account go and return, lose its keys and be answered late, or
  change between a crash and the repeated question.

`queue` and `shards_repair` also let the code's less friendly outcomes happen: the
claim conflict that ends the process, the unique bounds of a repair shard that make
a split fail.

Each property has at least one mutant: a definition of the model replaced by one
with a plausible mistake (a requeue that keeps its token, an unclamped counter, a
shard one identity short, ...), under which TLC finds the property violated. They
are the operators commented as seeded faults.

## Where code and comments disagree

Three runs end in a counterexample; `PROJECT.json` quotes the lines.

1. `run_completion`. `MaybeCompleteMain` reads the run, then the overflow queue,
   and then completes the run looking at its status alone. A `SeedEnumerationRepair`
   that commits in between has set the run back to enumerating and is told it
   succeeded; the run is completed with the repair shards pending, against the
   comment at `store.go:1276`.
2. `run_stall`. `attempted_users` is counted by key workers after a valid answer
   only. An account that a failed batch moves to the fallback lane is settled
   there uncounted, so the backlog (enumerated minus attempted) keeps it for ever.
   When more of them than the low water mark are left, a paused enumeration never
   resumes. `EveryRunCompletes` has this as an exception (`StalledByUncounted`).
3. `run_skew`. The transactions that complete the last two shards do not see each
   other; both leave `enumeration_complete` false, and nothing sets it later.
   The generation row orders them in later runs, but initial runs have none.

Other disagreements, which no run of their own shows. Some are exceptions that a
property had to state, and the checks above would fail without them:

- *A scan out of step* (`ScanEndsInStep`, `EveryRunCompletes`, `EveryAuditEnds`). A key removed behind the cursor and another
  added leave the total as it was, so the scan is not restarted; its pages no longer
  add up, the page is rejected and the row requeued with the same cursor, and so on
  for ever. That keeps its run from completing (`overflow[r] > 0` in `EveryRunCompletes`),
  or its partition under repair (`ScanOpen` in `EveryAuditEnds`), and no run or generation
  after it comes up. The scan of an account that is gone does the same, as it is
  requeued every six hours (`service.go:1393`).
- *Gone owners* (`IndexConverges`). `CompleteInaccessible` leaves the due time in the
  past and `EnqueueDueOwners` does not look at `inaccessible_at`: as many gone owners
  as the priority source has rows take all of them for ever, though the comment at
  `service.go:1273` says that refreshes keep up.
- *An abandoned partition* (`EveryAuditEnds`). A partition is claimed as `enumerating`
  without lease or token and `Recover` does not return it (`store.go:333`): a crash of
  the auditor leaves its generation auditing for ever.
- *A lost key worker* (`WorkersGoOn`). `waitGraphQLLane` looks at its credential before
  `WaitLane` does; if the lane is disabled between the two, the error ends the worker
  for good instead of letting it fail over, as the comment at `service.go:2246` says.

The rest are in the hazard list with their lines: one enumeration worker, the
default, creates no shards (`store.go:1234`), and a shard is what the only
enumerator waits for; the repair command before the primary shards exist prevents
them (`store.go:1249`); a last page with an old snapshot sets `enumeration_complete`
after a repair cleared it; the watchdog looks for the repair workers under a name
that none of them has; a generation with one unresolved partition is never audited
again; an App lane that is answered 401 for ever never fails over; a restart forgets
all cooldowns.

## Fairness

`Spec` of every module is safety only. `FairSpec` adds, for the liveness runs:

- *weak fairness of a worker's own steps* (statements after a response): the
  goroutine is a loop that does not block elsewhere;
- *weak fairness of `Recover` and of the watchdog*: the container is restarted
  (`compose.yaml`, `restart: unless-stopped`), and the watchdog is a ticker;
- *strong fairness of claiming a given row*: claims take due rows oldest first, so
  a row that is due again and again is not overtaken for ever;
- *strong fairness of an answer to a repeated request*: GitHub answers in the end.
  Without it nothing can be promised. It is asked of the request for one job or
  shard, never of a particular content of the answer, except that REST is the last
  resort for a job and settles it;
- for a run, *strong fairness of a last page*: the listing ends at the cutoff.

Nothing is asked of the end of a key scan, neither in AccountQueue (`OverflowDone`) nor in
CoverageAudit (`CompleteOverflow`): KeyScan shows two ways in which one goes on for
ever, and what waits for it has it as an exception.

CoverageAudit has weak fairness of the workers' and the auditor's next statement,
strong fairness of claiming *some* due partition (the auditor's loop is a ticker,
and failures between make it due again and again), and of *some* complete and
agreeing search: GitHub stops changing its counts in the end, which is also what
the bound on disappearances says. Freshness has weak fairness of the tail, of the
runs, of each account's due time, and of the workers for each account, separately
for the main run and for the other sources, which have shares of every claim. Strong
fairness is asked only of the owner scheduler: an account has no row between two
runs, for far longer than the seconds in which the scheduler looks. The zero-key
scheduler needs none, since an account that gets its first key is found by the next
run. Requests states safety only.

Faults are bounded in these runs; the fairness does not say that they stop.

## Proofs

Every invariant and every action property that a run checks is also a theorem, for
all values of the constants; two of them under a hypothesis on one step, named
below. Eight modules hold theorems. `AccountQueueProofs.tla` proves, for all sets of accounts,
workers and tokens and all bounds, from `ConstantsAssumption` alone (accounts are
finite, thresholds are positive, `LowWater < HighWater`, worker kinds are disjoint):

| theorem | property |
|---|---|
| `TypeCorrect` | `TypeOK` |
| `ExclusiveClaims` | `ClaimsAreExclusive` |
| `ClaimantSettles` | `OnlyTheClaimantSettles` |
| `LaneKept` | `FallbackLaneIsKept` |
| `Accounting` | `ExactAccounting` |
| `Attempts` | `AttemptsCountedOnce` |

The argument. `TypeCorrect` is inductive by itself, with one lemma for each group
of actions. The next-state relation has some thirty actions, but to the queue each
does one of eight things; `StepKinds` names them (keep the rows, count, release,
settle, claim, insert, reap, recover), and `StepIsOfAKind` proves that this is all.
The other theorems then split on kinds.

`ClaimsAreExclusive` is not inductive: a claim can only be kept apart from others
if tokens are. `LeasesInv` adds that two workers never hold the same token and that
a worker with jobs holds one; `LanesInv` that a key worker owns rows of the GraphQL
lane only, which is what makes its requeue to `retry` keep the fallback lane. Their
conjunction `ClaimsInv` is the inductive invariant of the first three results.

`AccountingInv` is `ExactAccounting`, `AttemptsCountedOnce` and
`firstCounted \subseteq Live`. The last part is needed since a marker that outlived
its row would meet the next row of the same account. Settling rows can only lower
the left sides of the two inequalities of `AttemptsCountedOnce`. Counting `n` rows
raises `attempted` by `n` and takes `n` rows from the uncounted ones, so the first
inequality stays as it was and says that the clamp of the counter never bites.
Cardinalities are handled by three lemmas on adding and removing
finite sets of jobs.

`RunLedgerProofs.tla` continues with the runs:

| theorem | property |
|---|---|
| `CompletedRunsAreSettled` | `CompletedRunIsSettled`, if `RepairsWait` |
| `LedgerIsRefined` | `RefinesLedger`, if `RepairsWait` |
| `RefinementWithoutRepairs` | both, if `MaxRepairs = 0` |

The first fails as the code is: `run_completion` is the counterexample. The theorems say
that there is no other kind. `RepairsWait` asks that no repair command reopens a run
between the first query of `MaybeCompleteMain` on it and its transaction; every other
interleaving is allowed, and without the command nothing is asked.
`LedgerInv` is the strengthening. An admitted page belongs to a run that is running and
not enumerated, so no page comes late; and a monitor past its first query is about a run
that is running, enumerated and without queued rows, and past its second without key
scans either. What keeps this while the monitor waits is that rows come from pages only
(`RowsComeFromPages`), and that only a settlement opens a key scan, of which a run
without rows has none (`SettlingOwesLess`). That the first query means "no rows" is
`ExactAccounting` (`DrainedIsEmpty`). The refinement then splits on what a step is to the runs
(`RunKinds`): each kind is a step of `RunLedger` or a stutter (`LedgerRefinementStep`).

`RequestsProofs.tla` proves, for any number of lanes and workers, any intervals, waits
and costs, and without bound on time, from Requests' `ConstantsAssumption`:

| theorem | property |
|---|---|
| `TypeCorrect` | `TypeOK` |
| `BudgetIsKept` | `BudgetHolds` |
| `CorrelatedHitsDoStopAll` | `CorrelatedHitsStopAll` |
| `CooldownsAreKept` | `OnlyEarlierSlotsInCooldown` |
| `RetriesAreFresh` | `RetryHasAnotherToken` |
| `WorkersDoGoOn` | `WorkersGoOn` |

`TypeOK` is inductive together with `WorkersInv`, which says that a worker past the
choice of a lane has one. `BudgetHolds` then is inductive: a slot is at or after
`next`, a charge moves `next` by its points times an interval of at least `Base`, and
nothing lowers `next`. `OnlyEarlierSlotsInCooldown` needs `SlotInv`: while
nothing was told to cool down since a waiting worker reserved, its slot is at or
after the cooldown of its lane and the breaker, which is what recomputing the slot
under the lane's lock is for.
`RetryHasAnotherToken` needs `RetryInv`: between dropping a token and sending again,
the cached token is another than the rejected one, since tokens of a lane are numbered
in the order they were issued and a dropped one does not come back (`TokensMove`).
`WorkersGoOn` needs no invariant beyond the types: only the two ways to wait end a worker
(`OnlyWaitingStops`), and the roaming one finds a lane while a credential is active.

`FreshnessProofs.tla` proves, from `FreshnessAssumption`, for any accounts, page size
and events:

| theorem | property |
|---|---|
| `NoneIsMissed` | `NoAccountIsMissed` |
| `NoOwnerIsRechecked` | `OwnersAreNotRechecked` |
| `TypeCorrect` | `TypeOK` |

`NoAccountIsMissed` is not inductive, as it says nothing of a page in flight:
`TailInv` adds that no listed account lies between the highwater and the last id of the
page unless it is on the page (lemma `PageHasNoGap`), so accounts created after
the request are above it. `SearchInv` bounds the search: the id it ends with is at
most the last one, so no id that is given out later is at or below the highwater;
what is above it is followed, and what is below is in the first run. `OwnersAreNotRechecked` holds by the lock on the account under which `IsOwner`
is read, and needs the types of `owner` and `recheck`. `TypeCorrect` bounds more than
sets: `highwater` stays at or below the last id given out, which takes `TailInv`, and
the stage of a recheck below the number of ages. An account is taken out of a list of due
ones at the one place it has (`WithoutIsDue`).

`EnumerationShardsProofs.tla` proves, from `EnumAssumption`, for any accounts, cutoff,
number of shards and workers, page size, repair ranges and number of faults:

| theorem | property |
|---|---|
| `TypeCorrect` | `TypeOK` |
| `NoneIsSkipped` | `NothingSkipped` |
| `ShardsHaveOneOwner` | `OneOwnerPerShard` |
| `PrimaryShardsDoTile` | `PrimaryShardsTile` |
| `CompleteIsDiscovered` | `CompleteMeansDiscovered`, if `RepairsFollow` |
| `CompleteIsDiscoveredWithoutRepairs` | `CompleteMeansDiscovered`, if `RepairRanges = {}` |

The first three share the inductive invariant `IInv`: the types, checkpoints within
their ranges, `NothingSkipped`, and for each worker `Owns` (a shard it is in the middle
of is running, has no other worker, and has the bounds of the worker's copy) and
`Brings` (a page under way has all users between the checkpoint and the next one).
`Brings` is where the listing comes in: a page has no gap (`ListingIsPrefix`), a next
link does not jump over an object (`LinkIsNear`), and the clamp to the upper bound of the
shard drops only what the next shard has (`PlanTakesAll`). A split of a running shard
keeps `NothingSkipped` because it is between `next` and `upper`, and `Owns` because the
worker that splits is the one that has the copy.

`PrimaryShardsTile` is inductive by itself once the divisions are known to tile: the
first cut of `1..Cutoff` (`ChainTiles`, `EnsureTiles`) and the split of a shard (`SplitTiles`,
`CutTiles`); every other step leaves purposes and bounds of the primary shards alone
(`BoundsStay`). The chain of quotients that cuts the range is where the arithmetic is.

`CompleteMeansDiscovered` puts the two together: a run that is reported enumerated has
all its primary shards completed with their checkpoints at their ends (`Walked`,
`AtTheEnd`), the shards tile, and nothing below a checkpoint is undiscovered
(`WalkedIsDiscovered`). What has to be carried is what a last page knows while it waits
for its commit (`LastPages`): its checkpoint will be the end of its own shard, and the
other primary shards are completed. Since no completed shard is ever reopened and
only the owner of a shard cuts it, this is still so when the page is committed, however old its
snapshot was. `RepairsFollow` excludes one order: a repair-range command before the run
has shards. The code allows it, and then creates no primary shards at all
(`store.go:1249`); without the hypothesis TLC finds the property violated in six
states. Repair commands at any later time are within the theorem. `WalkInv` was
checked with TLC on the instance of `shards_repair` before it was proved.

The listing is assumed to have a newest account at or above the cutoff. Least elements of
a set of ids come from the library's theorem that strict inclusion of finite sets is
well-founded (`LeastExists`), as induction over numbers is not at the provers' disposal.

`KeyScanProofs.tla` proves, from `KeyScanAssumption` (keys are finitely many), for any
keys, scans, workers, page sizes and number of changes and faults:

| theorem | property |
|---|---|
| `TypeCorrect` | `TypeOK` |
| `PrefixIsStaged` | `PassCoversItsPrefix` |
| `IndexIsListed` | `IndexedSetWasListed` |

The invariant is `ScanInv` for each scan (what is listed up to the cursor is staged,
whether or not the account can be reached at the moment, and the listing of now is
among those the scan has seen) and `WorkInv` for each worker: while its claim is good,
its copy is the row, its page is the next part of the listing, and the total of the
page is the size of a listing that the scan has seen and that a last page completes (`Counted`).
Keys that are added later are behind every cursor, so none of this is lost when the
account changes. A claim that was lost changes no row, so `WorkInv` asks nothing of its worker.

`IndexIsListed` then is an argument by size (`PassWasListed`): a pass has staged all
that was listed at its last request, and as many keys as there were, so it has staged
that set. The argument does not use the comparison of the two passes. Under what is
assumed of GitHub's listing one pass whose counts fit is a set that was listed;
the second pass is for a listing that does not keep its order.
A REST snapshot of one page is one answer, and is the listing by `OnePageIsAll`.

`CoverageAuditProofs.tla` proves, from CoverageAudit's `ConstantsAssumption`, for any
accounts, days, cutoff, search limit and number of generations:

| theorem | property |
|---|---|
| `TypeCorrect` | `TypeOK` |
| `LedgerStaysExact` | `LedgerIsExact` |
| `PartitionsStayTiled` | `PartitionsTile` |

To the ledger every step is a `Mark` or changes at most the count of unresolved
partitions (`LedgerStep`), and a mark adds to a counter what it adds to the size of
the bitmap (`AddedSize`), on every day as well.

`PartitionsTile` is far from inductive: a split inserts its halves only if they do not
exist. `Tiled` adds what rules that out. Whatever lies in a partition that was split
lies *within* it (`Nested`), so a half that was split already would hold the partition
that is being split; a half that exists unsplit would share a second with it; and a
sample lies in a partition whose counts agreed (`Sampling`), which is never split. `Started`
says that the days exist once one partition does, so that the next round makes none.
`HeldInv` and `RowInv` say whose status the auditor and the workers may change: a
partition that is claimed, and one that is under repair. The days tile the audited
time by `DayOf`, which is where the arithmetic is.

`CoverageFinalProofs.tla` proves on that ground, with no further assumption:

| theorem | property |
|---|---|
| `RepairsStayTracked` | `RepairsAreTracked` |
| `FinalStaysFinal` | `FinalIsFinal` |
| `ReconciledIsAudited` | `ReconciledMeansAudited` |

`RepairsAreTracked` relates rows, staged identities and the status of a partition. Its
hard step is staging: the insert of a repair row is skipped when the account has one
already, and if that were the row of another partition, this one would wait for nobody.
It never is (`MissingHaveNoRow`): two partitions of a generation that are claimed or
under repair share no second (`SharedSecond`, from `Tiled`), and only one generation
at a time has partitions at work (`OneAudited`). `OrderInv` is the order of
generations that says so: the oldest is audited, the ones with partitions before it are
final, and the count that the verdict rests on is still true when it is written. With
these, `FinalIsFinal` is a look at each step: whatever changes a partition or a bit has an
open partition or a row, of which a final generation has none. `CoreInv` is the
conjunction of all this.

`ReconciledMeansAudited` has two halves. An account that search lists is discovered and
settled, or its day was called consistent because the counts agreed. The code compares
sizes only, so of such a day no more can be said than that the ledger has at least as many
settled accounts as search lists, and that is the second half. The property needs to
know what was lost in between. `AuditInv` says that what search lists is not marked inaccessible (`GoneInv`, since a mark asks first
whether the account is there), that a partition that was staged has all that search
still lists of it (`StagedInv`), as has the auditor's listing before it is staged
(`ListingInv`, which also says that only whole days are called consistent by count), and
that a reconciled generation gave no partition up (`GivenUpInv`). What was staged is
discovered (`KnownInv`), and where counts agreed the ledger's has not fallen and search's
has not risen since, nor while the auditor compared them (`CountedInv`, from
`CountsDrift` and `LedgerStaysExact`). Below the cutoff search
only ever shrinks (`SearchShrinks`).

Only model-checked is liveness: `EveryJobSettles`, `EveryRunCompletes`,
`EveryShardCompletes`, `EveryUserDiscovered`, `ScanEndsInStep`, `EveryAuditEnds` and
`IndexConverges`. They need fairness and ENABLED, which are out of the prover's reach,
and hold on the instances of their runs under the fairness stated above. Of the
three disagreements with a run of their own the counterexample is the result.

## What is not modelled

- *Time* outside of Requests. `next_attempt_at`, lease lengths, refresh intervals: a
  due row is a row, a lease may expire at any time. What a wrong delay would do is
  not claimed.
- *The federated entity sweep*, the HTTP API, key parsing, estimates, migrations, the
  command line, lock and heartbeats: see the notes of `PROJECT.json`.
- *REST credentials*: `do` rotates over credentials and waits on two pacers; Requests
  has the GraphQL path.
- *Priority order* of sources in a claim and the shares of each: any due rows may
  be taken, which includes every order.
- *Tokens per row.* The code draws one UUID for each row, the model one per batch;
  a row is always compared with the token of the batch it was claimed in.
- *`quarantineAccounts` and `scan_anomalies`*: nothing calls them.
- *A second crawler.* `TryCrawlerLock` holds an advisory lock on its own
  connection; a process that lost it and lives on is not modelled.
- *Logins.* Accounts are their ids. A rename between the two requests of
  `fetchRESTSnapshot` is a hazard without a property.
- *Payloads*, key decoding, SQL errors other than those that end a process,
  logging, metrics and the status report.
- In AccountQueue the enumeration is one enumerator and its page any set of
  accounts; ranges are in EnumerationShards. A key scan there ends at any time or
  never; when it does is the question of KeyScan.
- `EnsureEnumerationShards` is one action, though the code counts the shards and then
  inserts them without a lock between (`store.go:1247`). To overlap, two calls would need
  a primary shard to be walked to its end and another split between the two
  statements of one of them.
- In CoverageAudit accounts disappear but do not come back: one that returns after its
  day was counted is not in the ledger, and no promise is made about it. KeyScan
  and Freshness have accounts that return.

## Plan

The order is by what the system stands to lose. Done: AccountQueue with RunLedger,
EnumerationShards, KeyScan, CoverageAudit, Requests, Freshness, and the proofs above.

Left, modules:

1. `EntitySweep`: shards without numbering of pages, the last two at once.
2. Pure parts against reference definitions: request limiter, page clamping, bit
   addresses of the coverage bitmaps.
3. `Migrate`: a concurrent index build interrupted and resumed.

Left, theorems: the types of the modules above once they are written; that the
request limiter and the clamps agree with their reference definitions where no
recursion is needed to say so.
