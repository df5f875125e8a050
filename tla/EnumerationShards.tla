------------------------- MODULE EnumerationShards --------------------------
(***************************************************************************)
(* Enumeration of one run: the ID range below the cutoff is cut into       *)
(* durable shards, REST workers walk them page by page, an idle worker's   *)
(* share is split off a running shard, and the repair-range command adds   *)
(* overlapping shards to a running run.                                    *)
(*                                                                         *)
(* A transaction runs at READ COMMITTED: the statement that updates        *)
(* crawl_runs decides whether every shard is completed from the snapshot   *)
(* it started with, also when it then had to wait for the row.  The        *)
(* transaction of a page is therefore two steps, ApplyPage (up to that     *)
(* snapshot) and CommitPage.  Row locks taken before the snapshot keep     *)
(* some of them apart: on the queue rows both insert, on the coverage      *)
(* generation when both discover users, and, against the repair-range      *)
(* command, on the run when queue rows were inserted (their foreign key).  *)
(***************************************************************************)
EXTENDS Integers, Sequences, FiniteSets, FiniteSetsExt

CONSTANTS
  EnumWorkers,   \* enumerateShardWorker goroutines
  Desired,       \* Config.EnumerationWorkers
  Cutoff,        \* crawl_runs.cutoff_user_id
  Objects,       \* IDs the users listing returns
  Users,         \* those of them that are users (the others: organizations)
  PageSize,      \* objects of a page (100 in the code)
  MinPiece,      \* smallest range a split leaves (100 in the code)
  RepairRanges,  \* <<lower, upper, count>> the repair-range command may get
  HasLedger,     \* the run has a coverage generation (initial runs have none)
  MaxFaults      \* bound: crashes, and workers that stop on a database error

ASSUME EnumAssumption ==
  /\ Desired \in Nat /\ MaxFaults \in Nat /\ HasLedger \in BOOLEAN
  /\ Cutoff \in Nat \ {0} /\ PageSize \in Nat \ {0} /\ MinPiece \in Nat \ {0}
  /\ Objects \subseteq Nat \ {0} /\ Users \subseteq Objects
  \* the newest account; they are created all the time, so it is past the cutoff
  /\ \E o \in Objects : o >= Cutoff /\ \A p \in Objects : p <= o
  /\ RepairRanges \subseteq Nat \X Nat \X Nat
  /\ \A g \in RepairRanges : g[1] < g[2] /\ g[2] <= Cutoff /\ g[3] \in 1..(g[2] - g[1])

VARIABLES
  shards,        \* enumeration_shards, in the order of their ids
  enumComplete,  \* crawl_runs.enumeration_complete
  discovered,    \* users the run has enqueued
  seeded,        \* repairs recorded in runtime_state
  phase,         \* idle, fetch, commit, rebalance; gone when the worker ended
  own,           \* the shard a worker holds, 0 for none
  copy,          \* its copy of the shard's next_since_id and upper_id
  page,          \* what the transaction under way writes
  up, faults

workerVars == <<phase, own, copy, page>>
vars == <<shards, enumComplete, discovered, seeded, workerVars, up, faults>>

Shard(purpose, lower, upper) ==
  [purpose |-> purpose, lower |-> lower, upper |-> upper,
   next |-> lower, status |-> "pending"]

NoCopy == [next |-> 0, upper |-> 0]
NoPage == [users |-> {}, next |-> 0, reached |-> FALSE, rows |-> FALSE, last |-> FALSE]

Ids == DOMAIN shards
Uncompleted == {i \in Ids : shards[i].status # "completed"}
\* Seeded fault: a claim that takes over running shards.
ClaimableWithRunning == Uncompleted

Claimable == {i \in Ids : shards[i].status \in {"pending", "retry"}}
Taken(lower, upper) == \E i \in Ids : shards[i].lower = lower /\ shards[i].upper = upper

-----------------------------------------------------------------------------
(* Pure parts: cutting a range, and reading a page *)

\* EnsureEnumerationShards: equal spans, and the last piece takes the rest.
PrimarySpan == IF Cutoff \div Desired < 1 THEN 1 ELSE Cutoff \div Desired
PrimaryCount == Min({Desired, (Cutoff + PrimarySpan - 1) \div PrimarySpan})
\* Seeded fault: every piece has the equal span.
PrimaryShardsEqual ==
  [k \in 1..PrimaryCount |-> Shard("primary", (k - 1) * PrimarySpan, k * PrimarySpan)]

PrimaryShards ==
  [k \in 1..PrimaryCount |->
     LET lower == (k - 1) * PrimarySpan IN
     Shard("primary", lower,
           IF k = Desired \/ lower + PrimarySpan > Cutoff THEN Cutoff
           ELSE lower + PrimarySpan)]

\* SeedEnumerationRepair: bounds scaled by index over count.
RepairShards(lower, upper, count) ==
  [k \in 1..count |->
     Shard("repair", lower + ((upper - lower) * (k - 1)) \div count,
                     lower + ((upper - lower) * k) \div count)]

\* Seeded fault: the pieces start one ID late.
SplitWithGap(lower, upper, pieces) ==
  LET step == (upper - lower) \div pieces IN
  [k \in 1..pieces |->
     [lower |-> lower + step * (k - 1) + (IF k = 1 THEN 0 ELSE 1),
      upper |-> IF k = pieces THEN upper ELSE lower + step * k]]

\* RebalanceOwnedEnumerationShard: the rest of a shard in equal steps.
Split(lower, upper, pieces) ==
  LET step == (upper - lower) \div pieces IN
  [k \in 1..pieces |->
     [lower |-> lower + step * (k - 1),
      upper |-> IF k = pieces THEN upper ELSE lower + step * k]]

\* The users listing: the first PageSize objects above since.
Listing(since) ==
  {o \in Objects : /\ o > since
                   /\ Cardinality({p \in Objects : since < p /\ p < o}) < PageSize}

\* The cursors the next link may carry: not below the last object returned,
\* below the next one.  At the end of the listing there is no link.
NoLink == 0
Links(since) ==
  LET last == Max(Listing(since) \cup {since})
      later == {o \in Objects : o > last}
  IN IF later = {} THEN {NoLink} ELSE (Max({last, since + 1})..(Min(later) - 1))

\* Seeded faults: every page ends its shard, the user at the boundary is left
\* to the next shard, and the cursor is stored as the listing gave it.
PlanToBoundary(next, upper, link) ==
  LET objects == Listing(next) IN
  [users |-> {o \in objects \cap Users : o <= upper}, next |-> upper, reached |-> TRUE]
PlanBelowUpper(next, upper, link) ==
  LET objects == Listing(next)
      reached == next >= upper \/ Max(objects \cup {next}) >= upper \/ link >= upper
  IN [users |-> IF next >= upper THEN {} ELSE {o \in objects \cap Users : o < upper},
      next |-> IF reached THEN upper ELSE link, reached |-> reached]

PlanUnclamped(next, upper, link) ==
  LET objects == Listing(next)
      reached == next >= upper \/ Max(objects \cup {next}) >= upper \/ link >= upper
  IN [users |-> IF next >= upper THEN {} ELSE {o \in objects \cap Users : o <= upper},
      next |-> link, reached |-> reached]

\* planEnumerationPage on a well-formed page with the given next cursor.
Plan(next, upper, link) ==
  LET objects == Listing(next)
      reached == next >= upper \/ Max(objects \cup {next}) >= upper \/ link >= upper
  IN [users |-> IF next >= upper THEN {} ELSE {o \in objects \cap Users : o <= upper},
      next |-> IF reached THEN upper ELSE link, reached |-> reached]

-----------------------------------------------------------------------------
(* The worker's loop *)

Become(w, p, s, c) ==
  /\ phase' = [phase EXCEPT ![w] = p]
  /\ own' = [own EXCEPT ![w] = s]
  /\ copy' = [copy EXCEPT ![w] = c]

Fail == up' = FALSE /\ UNCHANGED <<shards, enumComplete, discovered, seeded, workerVars>>

\* EnsureEnumerationShards: once per run, and not at all for fewer than two.
EnsureEnumerationShards(w) ==
  /\ up /\ phase[w] = "idle" /\ ~enumComplete
  /\ Desired >= 2 /\ shards = <<>>
  /\ shards' = PrimaryShards
  /\ UNCHANGED <<enumComplete, discovered, seeded, workerVars, up, faults>>

\* Repair shards first, then the oldest.
FirstClaimable ==
  LET repair == {i \in Claimable : shards[i].purpose = "repair"}
  IN Min(IF repair # {} THEN repair ELSE Claimable)

ClaimEnumerationShard(w) ==
  /\ up /\ phase[w] = "idle" /\ ~enumComplete
  /\ Claimable # {}
  /\ LET i == FirstClaimable IN
     /\ shards' = [shards EXCEPT ![i].status = "running"]
     /\ Become(w, "fetch", i, [next |-> shards[i].next, upper |-> shards[i].upper])
  /\ UNCHANGED <<enumComplete, discovered, seeded, page, up, faults>>

\* Another page's transaction holds a row this one needs before its snapshot:
\* a queue row both insert, or the generation both count their discoveries in.
MustWait(w, users) ==
  \E v \in EnumWorkers \ {w} :
    LET both == {users \ discovered, page[v].users \ discovered} IN
    /\ phase[v] = "commit"
    /\ \/ (users \cap page[v].users) \ discovered # {}
       \/ HasLedger /\ {} \notin both

\* A page arrived and its transaction has run up to the snapshot of the
\* crawl_runs update: last tells whether no other shard is left in it.  A user
\* the run settled before is queued again, one still queued is not.
ApplyPage(w) ==
  /\ up /\ phase[w] = "fetch"
  /\ \E link \in Links(copy[w].next), again \in BOOLEAN :
       LET plan == Plan(copy[w].next, copy[w].upper, link)
           rows == ~(plan.users \subseteq discovered) \/ (plan.users # {} /\ again)
       IN
       /\ plan.reached \/ link # NoLink
       /\ ~MustWait(w, plan.users)
       /\ page' = [page EXCEPT ![w] =
            [users |-> plan.users, next |-> plan.next, reached |-> plan.reached, rows |-> rows,
             last |-> plan.reached /\ Uncompleted \subseteq {own[w]}]]
  /\ phase' = [phase EXCEPT ![w] = "commit"]
  /\ UNCHANGED <<shards, enumComplete, discovered, seeded, own, copy, up, faults>>

CommitPage(w) ==
  /\ up /\ phase[w] = "commit"
  /\ shards' = [shards EXCEPT ![own[w]].next = page[w].next,
                              ![own[w]].status = IF page[w].reached THEN "completed"
                                                 ELSE "running"]
  /\ discovered' = discovered \cup page[w].users
  /\ enumComplete' = (enumComplete \/ page[w].last)
  /\ IF page[w].reached THEN Become(w, "idle", 0, NoCopy)
     ELSE Become(w, "rebalance", own[w], [copy[w] EXCEPT !.next = page[w].next])
  /\ page' = [page EXCEPT ![w] = NoPage]
  /\ UNCHANGED <<seeded, up, faults>>

\* Split off the unprocessed rest when fewer shards than workers are left.
\* The bounds of a shard are unique in a run: a conflict is an error.
Rebalance(w) ==
  LET s == shards[own[w]]
      pieces == Desired - Cardinality(Uncompleted) + 1
      parts == Split(s.next, s.upper, pieces)
      wanted == Desired >= 2 /\ pieces >= 2 /\ s.upper - s.next >= pieces * MinPiece
      \* the rows written before part k: the shortened shard, the parts below k
      clash == \/ Taken(s.lower, parts[1].upper)
               \/ \E k \in 2..pieces : Taken(parts[k].lower, parts[k].upper)
  IN
  /\ up /\ phase[w] = "rebalance"
  /\ \/ /\ ~wanted
        /\ Become(w, "fetch", own[w], [copy[w] EXCEPT !.upper = s.upper])
        /\ UNCHANGED <<shards, up>>
     \/ /\ wanted /\ ~clash
        /\ shards' = [shards EXCEPT ![own[w]].upper = parts[1].upper]
                     \o [k \in 1..(pieces - 1) |->
                           Shard(s.purpose, parts[k + 1].lower, parts[k + 1].upper)]
        /\ Become(w, "fetch", own[w], [copy[w] EXCEPT !.upper = parts[1].upper])
        /\ UNCHANGED up
     \/ wanted /\ clash /\ up' = FALSE /\ UNCHANGED <<shards, phase, own, copy>>
  /\ UNCHANGED <<enumComplete, discovered, seeded, page, faults>>

\* The request failed, or the page could not prove continuity.
RequeueEnumerationShard(w) ==
  /\ up /\ phase[w] = "fetch"
  /\ shards' = [shards EXCEPT ![own[w]].status = "retry"]
  /\ Become(w, "idle", 0, NoCopy)
  /\ UNCHANGED <<enumComplete, discovered, seeded, page, up, faults>>

\* waitForGlobalCapacity fails: the worker returns without an error and leaves
\* its shard running; the other goroutines go on.
StopOnCapacityError(w) ==
  /\ up /\ phase[w] \in {"idle", "fetch"} /\ faults < MaxFaults
  /\ Become(w, "gone", 0, NoCopy)
  /\ faults' = faults + 1
  /\ UNCHANGED <<shards, enumComplete, discovered, seeded, page, up>>

-----------------------------------------------------------------------------
(* The repair command, the watchdog, crashes *)

SeedEnumerationRepair(g) ==
  LET new == RepairShards(g[1], g[2], g[3]) IN
  /\ g \notin seeded
  /\ \A w \in EnumWorkers : phase[w] = "commit" => ~page[w].rows
  /\ \A k \in DOMAIN new : ~Taken(new[k].lower, new[k].upper)
  /\ shards' = shards \o new
  /\ enumComplete' = FALSE
  /\ seeded' = seeded \cup {g}
  /\ UNCHANGED <<discovered, workerVars, up, faults>>

\* REST watchdog: no enumerator succeeded for ten minutes although the run is not enumerated.
Watchdog ==
  /\ up /\ ~enumComplete
  /\ \A w \in EnumWorkers : phase[w] = "gone" \/ (phase[w] = "idle" /\ Claimable = {}
                                                  /\ (Desired < 2 \/ shards # <<>>))
  /\ Fail /\ UNCHANGED faults

Crash == up /\ faults < MaxFaults /\ faults' = faults + 1 /\ Fail

\* Seeded fault: a restart that forgets the shards.
RecoveredAsIs(st) == st

Recovered(st) == IF st = "running" THEN "retry" ELSE st

Recover ==
  /\ ~up
  /\ up' = TRUE
  /\ shards' = [i \in Ids |->
                  [shards[i] EXCEPT !.status = Recovered(@)]]
  /\ phase' = [w \in EnumWorkers |-> "idle"]
  /\ own' = [w \in EnumWorkers |-> 0]
  /\ copy' = [w \in EnumWorkers |-> NoCopy]
  /\ page' = [w \in EnumWorkers |-> NoPage]
  /\ UNCHANGED <<enumComplete, discovered, seeded, faults>>

-----------------------------------------------------------------------------
Init ==
  /\ shards = <<>> /\ enumComplete = FALSE /\ discovered = {} /\ seeded = {}
  /\ phase = [w \in EnumWorkers |-> "idle"]
  /\ own = [w \in EnumWorkers |-> 0]
  /\ copy = [w \in EnumWorkers |-> NoCopy]
  /\ page = [w \in EnumWorkers |-> NoPage]
  /\ up = TRUE /\ faults = 0

WorkerStep(w) ==
  \/ EnsureEnumerationShards(w) \/ ClaimEnumerationShard(w) \/ ApplyPage(w)
  \/ CommitPage(w) \/ Rebalance(w)

Next ==
  \/ \E w \in EnumWorkers : WorkerStep(w) \/ RequeueEnumerationShard(w)
                            \/ StopOnCapacityError(w)
  \/ \E g \in RepairRanges : SeedEnumerationRepair(g)
  \/ Watchdog \/ Crash \/ Recover

Spec == Init /\ [][Next]_vars

\* Workers and the restart policy keep going, and a request that is made again
\* and again is answered in the end.
FairSpec ==
  /\ Spec
  /\ \A w \in EnumWorkers : /\ WF_vars(EnsureEnumerationShards(w) \/ ClaimEnumerationShard(w))
                            /\ WF_vars(CommitPage(w) \/ Rebalance(w))
  /\ \A i \in 1..Cutoff : SF_vars(\E w \in EnumWorkers : own[w] = i /\ ApplyPage(w))
  /\ WF_vars(Watchdog) /\ WF_vars(Recover)

-----------------------------------------------------------------------------
(* Properties *)

\* Every variable has its type.
TypeOK ==
  /\ \A i \in Ids : /\ shards[i].purpose \in {"primary", "repair"}
                    /\ shards[i].status \in {"pending", "retry", "running", "completed"}
                    /\ {shards[i].lower, shards[i].next, shards[i].upper} \subseteq 0..Cutoff
  /\ enumComplete \in BOOLEAN /\ discovered \subseteq Users /\ seeded \subseteq RepairRanges
  /\ \A w \in EnumWorkers :
       /\ phase[w] \in {"idle", "fetch", "commit", "rebalance", "gone"}
       /\ own[w] \in 0..Len(shards)
  /\ up \in BOOLEAN /\ faults \in 0..MaxFaults

\* The primary shards tile the range below the cutoff: no ID between two
\* shards, none in two of them, whatever was split and restarted.
PrimaryShardsTile ==
  (\E i \in Ids : shards[i].purpose = "primary") =>
    \A id \in 1..Cutoff :
      \E i \in Ids : /\ shards[i].purpose = "primary"
                     /\ shards[i].lower < id /\ id <= shards[i].upper
                     /\ \A j \in Ids \ {i} : shards[j].purpose = "primary" =>
                          ~(shards[j].lower < id /\ id <= shards[j].upper)

\* What a shard has behind its checkpoint has been enqueued: no user is
\* skipped by a page, a split, a retry or a restart.
NothingSkipped ==
  \A i \in Ids : \A id \in Users :
    shards[i].lower < id /\ id <= shards[i].next => id \in discovered

\* Enumeration is not reported complete while a user below the cutoff is unseen.
CompleteMeansDiscovered ==
  enumComplete => {id \in Users : id <= Cutoff} \subseteq discovered

\* A shard has one owner, which has the bound the table has.
OneOwnerPerShard ==
  up => \A w \in EnumWorkers : own[w] # 0 =>
    /\ shards[own[w]].status = "running"
    /\ \A v \in EnumWorkers \ {w} : own[v] # own[w]
    /\ phase[w] = "fetch" => copy[w] = [next |-> shards[own[w]].next,
                                        upper |-> shards[own[w]].upper]

\* Every shard is walked to its end.
EveryShardCompletes ==
  \A i \in 1..Cutoff : i \in Ids ~> i \in Ids \ Uncompleted

\* Every user below the cutoff is enqueued, over crashes, failed requests and
\* workers that stop.
EveryUserDiscovered ==
  <>({id \in Users : id <= Cutoff} \subseteq discovered)

\* The workers enumerate the run.
EnumerationEnds == <>enumComplete

=============================================================================
