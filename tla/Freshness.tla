----------------------------- MODULE Freshness ------------------------------
(***************************************************************************)
(* How an account comes into the index and is kept up to date: the tail    *)
(* finds the id at which GitHub's accounts end and follows the new ones,   *)
(* the runs enumerate the others, an account without keys is checked       *)
(* again for a while, and one that ever had keys for good.  Claims,        *)
(* shards and scans of many keys are those of AccountQueue,                *)
(* EnumerationShards and KeyScan; here a job is queued, answered by the    *)
(* account as it is at that moment, and committed.                         *)
(*                                                                         *)
(* Ids are given out in increasing order, and no account comes back under  *)
(* another id.  A schedule is a list of accounts in the order of their due *)
(* times; what the interval is (refresh_stage, the ages) is left open.     *)
(***************************************************************************)
EXTENDS Integers, FiniteSets, Sequences, SequencesExt

CONSTANTS
  MaxId,       \* bound: accounts that are created
  Orgs,        \* ids of organizations
  Existing,    \* accounts at the start
  Initially,   \* content of an account when it is created
  KeySets,     \* key sets that an account may have, NoKeys among them
  NoKeys,
  PageSize,    \* objects of a page (100)
  LiveLimit,   \* rows of tail and onboarding (a tenth of QueueMax)
  OwnerLimit,  \* rows of priority (the same)
  Ages,        \* number of zero-key rechecks (4)
  MaxEvents    \* bound: changes of accounts, failed requests and restarts

Ids == 1 .. MaxId
Users == Ids \ Orgs
Sources == {"global", "tail", "onboarding", "priority"}
Gone == "gone"
None == "none"
Queued == "queued"
Contents == KeySets \cup {Gone}
NotRechecked == -1
\* No page has this content.
NoETag == {0}

ASSUME FreshnessAssumption ==
  /\ MaxId \in Nat /\ Orgs \subseteq Ids
  /\ NoKeys \in KeySets /\ KeySets \cap {Gone, None, Queued} = {}
  /\ Existing \in Ids /\ Initially \in [Ids -> KeySets]
  /\ PageSize \in Nat \ {0} /\ Ages \in Nat \ {0}
  /\ LiveLimit \in Nat \ {0} /\ OwnerLimit \in Nat \ {0}
  /\ MaxEvents \in Nat

VARIABLES
  lastId, content,  \* accounts at GitHub
  tail,             \* the tail worker
  initialized,      \* live_tail_initialized
  highwater,        \* tail_highwater, which tail_url lists from
  etag,             \* tail_etag
  left,             \* ids that the run has yet to list
  job,              \* rows of account_queue, by source and account
  owner,            \* github_owners: none, the keys shown, or inaccessible
  overdue,          \* owners with next_priority_scan_at <= now
  recheck,          \* zero_key_rechecks: stage of an account
  recheckDue,       \* those with next_scan_at <= now
  found, hidden,    \* history: users listed; accounts that were gone
  events

github == <<lastId, content, hidden>>
tailState == <<initialized, highwater, etag>>
schedules == <<owner, overdue, recheck, recheckDue>>
vars == <<github, tail, tailState, left, job, schedules, found, events>>

AtStart == [phase |-> "start", low |-> 0, high |-> 0, page |-> {},
            last |-> 0, more |-> FALSE]

-----------------------------------------------------------------------------
(* GitHub *)

Listed == {a \in 1 .. lastId : content[a] # Gone}

\* GET /users?since: the first objects above, and whether there are more.
Page(since) ==
  {a \in Listed : a > since /\ Cardinality({b \in Listed : since < b /\ b < a}) < PageSize}
MoreAfter(since) == \E a \in Listed : a > since

\* last is the highest id of a page, or the highwater of an empty one.
IsLast(last, page) ==
  last \in page \cup {highwater} /\ \A a \in page \cup {highwater} : a <= last

CreateAccount ==
  /\ lastId < MaxId
  /\ lastId' = lastId + 1
  /\ UNCHANGED <<content, hidden, tail, tailState, left, job, schedules, found, events>>

\* Keys are added or removed; the account is suspended or deleted, or returns.
ChangeAccount(a) ==
  /\ a <= lastId /\ events < MaxEvents
  /\ \E c \in Contents \ {content[a]} :
       /\ content' = [content EXCEPT ![a] = c]
       /\ hidden' = IF c = Gone THEN hidden \cup {a} ELSE hidden
  /\ events' = events + 1
  /\ UNCHANGED <<lastId, tail, tailState, left, job, schedules, found>>

-----------------------------------------------------------------------------
(* The tail *)

Enqueue(rows, source, accounts) ==
  [rows EXCEPT ![source] = [a \in Users |->
     IF a \in accounts /\ @[a] = None THEN Queued ELSE @[a]]]

Depth(sources) == Cardinality({r \in sources \X Users : job[r[1]][r[2]] # None})

TailFrame == UNCHANGED <<github, schedules, events>>
Probing == UNCHANGED <<tailState, left, job, found>> /\ TailFrame

\* ensureLiveTail; a restart while it searches begins anew.
StartTail ==
  /\ tail.phase = "start"
  /\ tail' = [tail EXCEPT !.phase = IF initialized THEN "loop" ELSE "first"]
  /\ Probing

\* discoverUserHighwater: one action is one request.  Is there any account?
ProbeFirst ==
  /\ tail.phase = "first"
  /\ tail' = IF MoreAfter(0) THEN [tail EXCEPT !.phase = "double", !.high = 1]
             ELSE [tail EXCEPT !.phase = "bisect"]
  /\ Probing

\* Double until there is none after.
ProbeDouble ==
  /\ tail.phase = "double"
  /\ tail' = IF MoreAfter(tail.high)
             THEN [tail EXCEPT !.low = tail.high, !.high = 2 * tail.high]
             ELSE [tail EXCEPT !.phase = "bisect"]
  /\ Probing

\* Then halve the rest.
ProbeMiddle ==
  /\ tail.phase = "bisect" /\ tail.high - tail.low > 1
  /\ LET middle == tail.low + (tail.high - tail.low) \div 2 IN
     tail' = IF MoreAfter(middle) THEN [tail EXCEPT !.low = middle]
             ELSE [tail EXCEPT !.high = middle]
  /\ Probing

\* The id found is the cutoff of the first run, too.
InitializeLiveTail ==
  /\ tail.phase = "bisect" /\ tail.high - tail.low <= 1
  /\ initialized' = TRUE /\ highwater' = tail.high /\ etag' = NoETag
  /\ left' = 1 .. tail.high
  /\ tail' = [AtStart EXCEPT !.phase = "loop"]
  /\ UNCHANGED <<job, found>> /\ TailFrame

\* Seeded fault: the highwater is saved before the rows are.
FetchTailPageEarly ==
  /\ tail.phase = "loop" /\ Depth({"tail", "onboarding"}) < LiveLimit
  /\ LET page == Page(highwater) IN
     /\ page # etag
     /\ \E last \in Ids \cup {highwater} : IsLast(last, page) /\ highwater' = last
     /\ tail' = [tail EXCEPT !.phase = "apply", !.page = page]
  /\ UNCHANGED <<initialized, etag, left, job, found>> /\ TailFrame

\* Below the limit of live rows a page is requested; 304 changes nothing.
FetchTailPage ==
  /\ tail.phase = "loop" /\ Depth({"tail", "onboarding"}) < LiveLimit
  /\ LET page == Page(highwater) IN
     /\ page # etag
     /\ \E last \in Ids \cup {highwater} :
          IsLast(last, page) /\
          tail' = [tail EXCEPT !.phase = "apply", !.page = page, !.last = last,
                               !.more = MoreAfter(last)]
  /\ Probing

ApplyTailPage ==
  /\ tail.phase = "apply"
  /\ job' = Enqueue(job, "tail", tail.page \cap Users)
  /\ found' = found \cup (tail.page \cap Users)
  /\ highwater' = tail.last
  /\ etag' = IF tail.more THEN NoETag ELSE tail.page
  /\ tail' = [AtStart EXCEPT !.phase = "loop"]
  /\ UNCHANGED <<initialized, left>> /\ TailFrame

-----------------------------------------------------------------------------
(* The runs *)

\* The enumerators get to id a, listed or not.  The order of the ids does not
\* matter here; EnumerationShards has the real one.
MainDiscovers(a) ==
  /\ initialized /\ a \in left /\ \A b \in left : a <= b
  /\ left' = left \ {a}
  /\ job' = Enqueue(job, "global", {a} \cap Listed \cap Users)
  /\ found' = found \cup ({a} \cap Listed \cap Users)
  /\ UNCHANGED <<tail, tailState>> /\ TailFrame

\* The run is drained; EnsureMainRun starts the next one, up to the highwater.
NextRun ==
  /\ initialized /\ left = {} /\ Depth({"global"}) = 0
  /\ left' = 1 .. highwater
  /\ UNCHANGED <<tail, tailState, job, found>> /\ TailFrame

-----------------------------------------------------------------------------
(* Schedules *)

JobFrame == UNCHANGED <<github, tail, tailState, left, found>>

\* The time of a refresh, or of a recheck, comes.
OwnerFallsDue(a) ==
  /\ owner[a] # None /\ ~Contains(overdue, a)
  /\ overdue' = Append(overdue, a)
  /\ UNCHANGED <<owner, recheck, recheckDue, job, events>> /\ JobFrame

RecheckFallsDue(a) ==
  /\ recheck[a] # NotRechecked /\ ~Contains(recheckDue, a)
  /\ recheckDue' = Append(recheckDue, a)
  /\ UNCHANGED <<owner, overdue, recheck, job, events>> /\ JobFrame

\* The first n due accounts without a row of any source.
FirstFree(due, n) ==
  LET free == SelectSeq(due, LAMBDA a : \A s \in Sources : job[s][a] = None)
  IN ToSet(SubSeq(free, 1, IF n < Len(free) THEN n ELSE Len(free)))

DueOwners == FirstFree(overdue, OwnerLimit - Depth({"priority"}))
DueRechecks == FirstFree(recheckDue, LiveLimit - Depth({"tail", "onboarding"}))

\* priorityOwners: owners that are inaccessible are taken like the others.
EnqueueDueOwners ==
  /\ DueOwners # {}
  /\ job' = Enqueue(job, "priority", DueOwners)
  /\ UNCHANGED <<schedules, events>> /\ JobFrame

EnqueueDueZeroKeyRechecks ==
  /\ DueRechecks # {}
  /\ job' = Enqueue(job, "onboarding", DueRechecks)
  /\ UNCHANGED <<schedules, events>> /\ JobFrame

-----------------------------------------------------------------------------
(* Answers *)

Fetch(s, a) ==
  /\ job[s][a] = Queued
  /\ job' = [job EXCEPT ![s][a] = content[a]]
  /\ UNCHANGED <<schedules, events>> /\ JobFrame

\* An account is in a list of due ones at most once.
Without(due, a) ==
  IF Contains(due, a) THEN RemoveAt(due, CHOOSE i \in DOMAIN due : due[i] = a) ELSE due

ForgetRecheck(a) ==
  /\ recheck' = [recheck EXCEPT ![a] = NotRechecked]
  /\ recheckDue' = Without(recheckDue, a)

\* Seeded fault: the account stays in zero_key_rechecks.
ObserveOwnerOnly(a, keys) ==
  /\ owner' = [owner EXCEPT ![a] = keys]
  /\ overdue' = Without(overdue, a)
  /\ UNCHANGED <<recheck, recheckDue>>

\* The keys are those of the answer, and the next refresh is in the future.
ObserveOwner(a, keys) ==
  /\ owner' = [owner EXCEPT ![a] = keys]
  /\ overdue' = Without(overdue, a)
  /\ ForgetRecheck(a)

\* Seeded fault: one stage too many.
LastStageOff == Ages

LastStage == Ages - 1

\* No keys and none known: an account the tail found is checked again, as often
\* as there are ages; a row that exists is left as it is.
NoteZeroKeys(s, a) ==
  /\ \/ /\ s = "tail" /\ recheck[a] = NotRechecked
        /\ recheck' = [recheck EXCEPT ![a] = 0] /\ UNCHANGED recheckDue
     \/ /\ s = "onboarding" /\ recheck[a] \in 0 .. LastStage - 1
        /\ recheck' = [recheck EXCEPT ![a] = @ + 1]
        /\ recheckDue' = Without(recheckDue, a)
     \/ s = "onboarding" /\ recheck[a] = LastStage /\ ForgetRecheck(a)
     \/ /\ \/ s \in {"global", "priority"}
           \/ s = "tail" /\ recheck[a] # NotRechecked
           \/ s = "onboarding" /\ recheck[a] = NotRechecked
        /\ UNCHANGED <<recheck, recheckDue>>
  /\ UNCHANGED <<owner, overdue>>

\* Seeded fault: known owners are not asked for.
IsOwnerByKeys(a, keys) == keys # NoKeys

\* Read under the lock of the account.
IsOwner(a, keys) == keys # NoKeys \/ owner[a] # None

CompleteAccount(s, a) ==
  /\ job[s][a] \in KeySets
  /\ IF IsOwner(a, job[s][a]) THEN ObserveOwner(a, job[s][a]) ELSE NoteZeroKeys(s, a)
  /\ job' = [job EXCEPT ![s][a] = None]
  /\ UNCHANGED events /\ JobFrame

\* The next refresh stays where it is, in the past if it was due.
CompleteInaccessible(s, a) ==
  /\ job[s][a] = Gone
  /\ owner' = [owner EXCEPT ![a] = IF @ = None THEN None ELSE Gone]
  /\ ForgetRecheck(a)
  /\ job' = [job EXCEPT ![s][a] = None]
  /\ UNCHANGED <<overdue, events>> /\ JobFrame

\* RequeueAccounts, after an error.
RequeueAccount(s, a) ==
  /\ job[s][a] \in Contents /\ events < MaxEvents
  /\ job' = [job EXCEPT ![s][a] = Queued]
  /\ events' = events + 1
  /\ UNCHANGED schedules /\ JobFrame

\* What was answered is asked again.
Crash ==
  /\ events < MaxEvents
  /\ events' = events + 1
  /\ tail' = AtStart
  /\ job' = [s \in Sources |-> [a \in Users |->
               IF job[s][a] = None THEN None ELSE Queued]]
  /\ UNCHANGED <<github, tailState, left, schedules, found>>

-----------------------------------------------------------------------------

Init ==
  /\ lastId = Existing /\ content = Initially
  /\ tail = AtStart
  /\ initialized = FALSE /\ highwater = 0 /\ etag = NoETag
  /\ left = {}
  /\ job = [s \in Sources |-> [a \in Users |-> None]]
  /\ owner = [a \in Users |-> None] /\ overdue = <<>>
  /\ recheck = [a \in Users |-> NotRechecked] /\ recheckDue = <<>>
  /\ found = {} /\ hidden = {} /\ events = 0

TailStep ==
  \/ StartTail \/ ProbeFirst \/ ProbeDouble \/ ProbeMiddle \/ InitializeLiveTail
  \/ FetchTailPage \/ ApplyTailPage

Complete(s, a) == CompleteAccount(s, a) \/ CompleteInaccessible(s, a)

Next ==
  \/ CreateAccount \/ \E a \in Users : ChangeAccount(a)
  \/ TailStep
  \/ \E a \in Ids : MainDiscovers(a)
  \/ NextRun
  \/ \E a \in Users : OwnerFallsDue(a) \/ RecheckFallsDue(a)
  \/ EnqueueDueOwners \/ EnqueueDueZeroKeyRechecks
  \/ \E s \in Sources, a \in Users : Fetch(s, a) \/ Complete(s, a) \/ RequeueAccount(s, a)
  \/ Crash

Spec == Init /\ [][Next]_vars

\* The workers go on, for the runs and for the other sources, and due times
\* come.  The scheduler of the owners looks every few seconds, and finds an
\* account without a row between two runs, which last much longer.
FairSpec ==
  /\ Spec
  /\ WF_vars(TailStep) /\ WF_vars(NextRun) /\ WF_vars(\E a \in Ids : MainDiscovers(a))
  /\ \A a \in Users :
       /\ WF_vars(OwnerFallsDue(a))
       /\ SF_vars(a \in DueOwners /\ EnqueueDueOwners)
       /\ \A set \in {{"global"}, Sources \ {"global"}} :
            WF_vars(\E s \in set : Fetch(s, a) \/ Complete(s, a))

-----------------------------------------------------------------------------
(* Properties *)

\* Shapes of all variables.
TypeOK ==
  /\ lastId \in Ids /\ content \in [Ids -> Contents]
  /\ tail.phase \in {"start", "first", "double", "bisect", "loop", "apply"}
  /\ tail.low \in Nat /\ tail.high \in Nat /\ tail.page \subseteq Ids /\ tail.last \in Nat /\ tail.more \in BOOLEAN
  /\ initialized \in BOOLEAN /\ highwater \in 0 .. MaxId /\ etag \in (SUBSET Ids) \cup {NoETag}
  /\ left \subseteq Ids
  /\ job \in [Sources -> [Users -> Contents \cup {None, Queued}]]
  /\ owner \in [Users -> Contents \cup {None}] /\ ToSet(overdue) \subseteq Users
  /\ recheck \in [Users -> {NotRechecked} \cup 0 .. Ages - 1]
  /\ ToSet(recheckDue) \subseteq Users
  /\ found \subseteq Users /\ hidden \subseteq Ids
  /\ events \in 0 .. MaxEvents

\* Every user is listed by the tail or by a run, or still will be, although
\* accounts are created while the tail looks for the end of the ids, between a
\* page's request and its commit, and across restarts.  One that was gone when
\* its id was listed is left to the next run.
NoAccountIsMissed ==
  initialized =>
    \A a \in Users : a <= lastId /\ a \notin hidden => a \in found \cup left \/ a > highwater

\* An account with an owner row is not in zero_key_rechecks, whatever the order
\* in which the answers of several sources are committed.
OwnersAreNotRechecked == \A a \in Users : owner[a] # None => recheck[a] = NotRechecked

Agrees(a) ==
  IF a <= lastId THEN owner[a] = content[a] \/ (owner[a] = None /\ content[a] \in {NoKeys, Gone})
  ELSE owner[a] = None

\* Owners that are gone stay due, and are the first that are due.
GoneOwners == {a \in Users : owner[a] = Gone}

\* When accounts no longer change, the index shows each as it is in the end:
\* whatever the source that found it, with stale answers committed late, after
\* the account was gone, and after it returned.  But as many gone owners as the
\* priority source has rows take all of them, for ever.
IndexConverges ==
  <>[](\A a \in Users : Agrees(a)) \/ <>[](Cardinality(GoneOwners) >= OwnerLimit)

=============================================================================
