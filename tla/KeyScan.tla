------------------------------ MODULE KeyScan -------------------------------
(***************************************************************************)
(* The scans of one account and the keys the index shows for it.  A scan   *)
(* starts as a row of account_queue; when the first page of keys is not    *)
(* all, it goes on as a row of overflow_queue, page by page, in two        *)
(* passes that must agree, or is replaced by a REST snapshot.  Meanwhile   *)
(* the account's keys change at GitHub, other scans of the account commit, *)
(* leases expire and the process restarts.                                 *)
(*                                                                         *)
(* GitHub lists the keys of an account in the order they were added; a     *)
(* GraphQL cursor names the last key of a page, a REST page is a window    *)
(* of the listing.  A worker holds one claim at a time, so its name stands *)
(* for the claim's token.                                                  *)
(***************************************************************************)
EXTENDS Integers, FiniteSets, FiniteSetsExt

CONSTANTS
  Keys,
  InitialListing,  \* [Keys -> Nat]: the ids keys are listed under, 0 for none
  Scans,           \* scans of the account at a time, one for each source
  Workers,         \* key and repair workers
  NoWorker,        \* claim_token IS NULL
  NoScan,          \* a worker without a claim
  PageSize,        \* keys of a GraphQL page (100 in the code)
  RESTPageSize,    \* keys of a REST page (100 in the code)
  RESTAfter,       \* attempts after which a failed request goes to REST (3)
  MaxChanges,      \* bound: changes of the account at GitHub
  MaxFaults        \* bound: expired leases and crashes

ASSUME KeyScanAssumption ==
  /\ IsFiniteSet(Keys) /\ InitialListing \in [Keys -> Nat]
  /\ NoWorker \notin Workers /\ NoScan \notin Scans
  /\ PageSize \in Nat \ {0} /\ RESTPageSize \in Nat \ {0} /\ RESTAfter \in Nat \ {0}
  /\ MaxChanges \in Nat /\ MaxFaults \in Nat

VARIABLES
  listing, lastId, gone,  \* the account at GitHub
  present,                \* github_owner_keys.currently_present
  owner,                  \* github_owners: none, known or inaccessible
  row,                    \* the row of a scan, in account_queue or overflow_queue
  holder,                 \* the worker that claimed it
  staged,                 \* key_scan_staging, by pass
  at, job, copy,          \* where a worker is, its scan, its copy of the row
  page,                   \* the GraphQL page it got
  snap,                   \* the REST passes it has read
  seen,                   \* history: key sets listed since a scan was enqueued
  changes, faults

github == <<listing, lastId, gone>>
index == <<present, owner>>
rows == <<row, holder, staged>>
work == <<at, job, copy, page, snap>>
vars == <<github, index, rows, work, seen, changes, faults>>

Unknown == -1  \* expected_key_count of a scan that starts again
Row(kind) == [kind |-> kind, attempts |-> 0, cursor |-> 0, expected |-> Unknown,
              observed |-> 0, pass |-> 1]
NoRow == Row("absent")
NoPage == [keys |-> {}, total |-> 0, more |-> FALSE, cursor |-> 0]
NoSnap == [page |-> 0, keys |-> {}, passes |-> 0, first |-> {}]
Active == {s \in Scans : row[s].kind \in {"account", "overflow"}}

-----------------------------------------------------------------------------
(* The account at GitHub *)

ListedKeys == IF gone THEN {} ELSE {k \in Keys : listing[k] # 0}
Above(cursor) == {k \in ListedKeys : listing[k] > cursor}
Rank(k) == Cardinality({j \in ListedKeys : listing[j] <= listing[k]})

\* publicKeys(first: PageSize, after: cursor) with totalCount and pageInfo.
GraphQLPage(cursor) ==
  LET keys == {k \in Above(cursor) :
                 Cardinality({j \in Above(cursor) : listing[j] < listing[k]}) < PageSize}
  IN [keys |-> keys,
      total |-> Cardinality(ListedKeys),
      more |-> keys # Above(cursor),
      cursor |-> Max({listing[k] : k \in keys} \cup {cursor})]

\* Page n of GET /users/{login}/keys.
RESTPage(n) == {k \in ListedKeys : Rank(k) > (n - 1) * RESTPageSize /\ Rank(k) <= n * RESTPageSize}
RESTHasNext(n) == Cardinality(ListedKeys) > n * RESTPageSize

Changed ==
  /\ changes < MaxChanges
  /\ changes' = changes + 1
  /\ seen' = [s \in Scans |-> IF s \in Active THEN seen[s] \cup {ListedKeys'} ELSE seen[s]]
  /\ UNCHANGED <<index, rows, work, faults>>

AddKey(k) ==
  /\ ~gone /\ listing[k] = 0
  /\ listing' = [listing EXCEPT ![k] = lastId + 1]
  /\ lastId' = lastId + 1
  /\ UNCHANGED gone /\ Changed

RemoveKey(k) ==
  /\ ~gone /\ listing[k] # 0
  /\ listing' = [listing EXCEPT ![k] = 0]
  /\ UNCHANGED <<lastId, gone>> /\ Changed

\* The account is suspended or deleted, or comes back.
ChangeAccess == gone' = ~gone /\ UNCHANGED <<listing, lastId>> /\ Changed

-----------------------------------------------------------------------------
(* Rows, claims and the index *)

\* Seeded fault: the row is matched by its id alone.
OwnsById(w) == TRUE

\* id and claim_token match.
Owns(w) == holder[job[w]] = w

Goto(w, p) == at' = [at EXCEPT ![w] = p]

Idle(w) ==
  /\ Goto(w, "idle")
  /\ job' = [job EXCEPT ![w] = NoScan]
  /\ copy' = [copy EXCEPT ![w] = NoRow]
  /\ page' = [page EXCEPT ![w] = NoPage]
  /\ snap' = [snap EXCEPT ![w] = NoSnap]

\* The process stops and Recover runs: every claim is cleared.
Restart ==
  /\ holder' = [s \in Scans |-> NoWorker]
  /\ at' = [w \in Workers |-> "idle"]
  /\ job' = [w \in Workers |-> NoScan]
  /\ copy' = [w \in Workers |-> NoRow]
  /\ page' = [w \in Workers |-> NoPage]
  /\ snap' = [w \in Workers |-> NoSnap]
  /\ UNCHANGED <<index, row, staged, seen>>

Frame == UNCHANGED <<github, changes, faults>>

Free(s) == holder' = [holder EXCEPT ![s] = NoWorker]

\* The row goes back to the queue; w had it or has lost it.
Requeue(w) ==
  /\ IF Owns(w) THEN Free(job[w]) ELSE UNCHANGED holder
  /\ Idle(w)
  /\ UNCHANGED <<index, row, staged, seen>>

\* The same where a lost claim is an error that goes up.
RequeueOrFail(w) == IF Owns(w) THEN Requeue(w) ELSE Restart

\* The claim ends with the overflow row at r, and staged keys st.
Continue(w, r, st) ==
  /\ row' = [row EXCEPT ![job[w]] = [r EXCEPT !.kind = "overflow"]]
  /\ staged' = [staged EXCEPT ![job[w]] = st]
  /\ Free(job[w]) /\ Idle(w)
  /\ UNCHANGED <<present, seen>>

\* Seeded fault: a changed total is only tried again.
RestartScanAsRetry(w) == Requeue(w)

\* restartOverflowScanTx
RestartScan(w) ==
  /\ Continue(w, [Row("overflow") EXCEPT !.attempts = copy[w].attempts], <<{}, {}>>)
  /\ UNCHANGED owner

\* The row of the scan goes, and with it what is staged.
End(w) ==
  /\ row' = [row EXCEPT ![job[w]] = NoRow]
  /\ staged' = [staged EXCEPT ![job[w]] = <<{}, {}>>]
  /\ seen' = [seen EXCEPT ![job[w]] = {}]
  /\ Free(job[w]) /\ Idle(w)

\* Seeded fault: an account that is back stays inaccessible.
ObserveKeepsOwner(keys) ==
  /\ present' = keys
  /\ owner' = IF keys # {} /\ owner = "none" THEN "known" ELSE owner

\* upsertOwner, observeKey for each key, and finalizeObservation, which marks
\* every other key of the account removed.  Accounts without keys are not
\* entered.
Observe(keys) ==
  /\ present' = keys
  /\ owner' = IF keys = {} /\ owner = "none" THEN "none" ELSE "known"

-----------------------------------------------------------------------------
(* GraphQL: the first page, and the pages of an overflow scan *)

Enqueue(s) ==
  /\ row[s] = NoRow
  /\ row' = [row EXCEPT ![s] = Row("account")]
  /\ seen' = [seen EXCEPT ![s] = {ListedKeys}]
  /\ UNCHANGED <<index, holder, staged, work>> /\ Frame

\* ClaimOverflow, ClaimScheduledAccounts; attempts beyond RESTAfter are alike.
Claim(w, s) ==
  /\ at[w] = "idle" /\ s \in Active /\ holder[s] = NoWorker
  /\ row' = [row EXCEPT ![s].attempts =
               IF row[s].kind = "overflow" /\ @ < RESTAfter THEN @ + 1 ELSE @]
  /\ holder' = [holder EXCEPT ![s] = w]
  /\ Goto(w, "claimed")
  /\ job' = [job EXCEPT ![w] = s]
  /\ copy' = [copy EXCEPT ![w] = row'[s]]
  /\ UNCHANGED <<index, staged, page, snap, seen>> /\ Frame

FetchPage(w) ==
  /\ at[w] = "claimed" /\ ~gone
  /\ page' = [page EXCEPT ![w] = GraphQLPage(copy[w].cursor)]
  /\ Goto(w, "answered")
  /\ UNCHANGED <<index, rows, job, copy, snap, seen>> /\ Frame

\* The request failed.
FetchFails(w) ==
  /\ at[w] = "claimed"
  /\ IF copy[w].kind = "account" THEN RequeueOrFail(w) ELSE Requeue(w)
  /\ Frame

\* A null node, an account row of the fallback lane, or an overflow request
\* that failed once more.
GoToREST(w) ==
  /\ at[w] = "claimed"
  /\ gone \/ copy[w].kind = "account" \/ copy[w].attempts >= RESTAfter
  /\ Goto(w, "rest")
  /\ copy' = [copy EXCEPT ![w] = Row(copy[w].kind)]
  /\ UNCHANGED <<index, rows, job, page, snap, seen>> /\ Frame

\* Seeded fault: a first page taken for the whole set.
CommitFirstAsWhole(w) ==
  /\ at[w] = "answered" /\ copy[w].kind = "account"
  /\ IF Owns(w) THEN Observe(page[w].keys) /\ End(w) ELSE Restart
  /\ Frame

\* CompleteAccountsScheduled, for this account.
CommitFirst(w) ==
  LET p == page[w] IN
  /\ at[w] = "answered" /\ copy[w].kind = "account"
  /\ IF ~Owns(w) THEN Restart
     ELSE IF p.more
     THEN /\ Continue(w, [NoRow EXCEPT !.cursor = p.cursor, !.expected = p.total,
                                    !.observed = Cardinality(p.keys)], <<p.keys, {}>>)
          /\ owner' = "known"
     ELSE Observe(p.keys) /\ End(w)
  /\ Frame

\* A pass is complete: the second one starts, or both are compared.
EndPass(w, st, total) ==
  IF Cardinality(st[copy[w].pass]) # total THEN RestartScan(w)
  ELSE IF copy[w].pass = 1
  THEN /\ Continue(w, [copy[w] EXCEPT !.pass = 2, !.cursor = 0, !.observed = 0,
                                      !.expected = total], st)
       /\ UNCHANGED owner
  ELSE IF st[1] # st[2] THEN RestartScan(w)
  ELSE Observe(st[2]) /\ End(w)

\* processOverflow and CompleteOverflowPageScheduled.  A total that changed
\* restarts the scan; a page that does not fit the counts is an error, which
\* requeues the row with the progress it had.
CommitPage(w) ==
  LET p == page[w]
      c == copy[w]
      observed == c.observed + Cardinality(p.keys)
      st == [staged[job[w]] EXCEPT ![c.pass] = @ \cup p.keys]
  IN
  /\ at[w] = "answered" /\ copy[w].kind = "overflow"
  /\ IF c.expected # Unknown /\ p.total # c.expected
     THEN IF Owns(w) THEN RestartScan(w) ELSE Restart
     ELSE IF ~Owns(w) \/ observed > p.total \/ (~p.more /\ observed # p.total)
     THEN Requeue(w)
     ELSE IF p.more
     THEN /\ Continue(w, [c EXCEPT !.cursor = p.cursor, !.expected = p.total,
                                  !.observed = observed], st)
          /\ UNCHANGED owner
     ELSE EndPass(w, st, p.total)
  /\ Frame

-----------------------------------------------------------------------------
(* REST: a snapshot of the whole set *)

\* fetchRESTSnapshot: a set of one page is taken as it is, a longer one must
\* be the same in two passes.  A key on two pages of a pass is an error.
RESTRead(w) ==
  LET x == snap[w]
      n == x.page + 1
      keys == x.keys \cup RESTPage(n)
      again == n > 1 /\ x.passes = 0
  IN
  /\ at[w] = "rest" /\ ~gone /\ x.keys \cap RESTPage(n) = {}
  /\ \/ /\ RESTHasNext(n)
        /\ snap' = [snap EXCEPT ![w].page = n, ![w].keys = keys]
        /\ UNCHANGED at
     \/ /\ ~RESTHasNext(n) /\ again
        /\ snap' = [snap EXCEPT ![w] = [NoSnap EXCEPT !.passes = 1, !.first = keys]]
        /\ UNCHANGED at
     \/ /\ ~RESTHasNext(n) /\ ~again
        /\ snap' = [snap EXCEPT ![w] = [NoSnap EXCEPT !.passes = x.passes, !.keys = keys]]
        /\ Goto(w, IF x.passes = 1 /\ keys # x.first THEN "failed" ELSE "snapshot")
  /\ UNCHANGED <<index, rows, job, copy, page, seen>> /\ Frame

\* The identity lookup finds no user of this id.
RESTMissing(w) ==
  /\ at[w] = "rest" /\ gone /\ snap[w] = NoSnap
  /\ Goto(w, "missing")
  /\ UNCHANGED <<index, rows, job, copy, page, snap, seen>> /\ Frame

RESTFails(w) == at[w] \in {"rest", "failed"} /\ RequeueOrFail(w) /\ Frame

\* CompleteAccountsScheduled or CompleteOverflowFromREST with the snapshot.
CommitSnapshot(w) ==
  /\ at[w] = "snapshot"
  /\ IF Owns(w) THEN Observe(snap[w].keys) /\ End(w) ELSE Restart
  /\ Frame

\* CompleteInaccessible settles an account row; an overflow row is requeued.
CommitMissing(w) ==
  /\ at[w] = "missing"
  /\ IF copy[w].kind = "account" /\ Owns(w)
     THEN /\ present' = {}
          /\ owner' = IF owner = "none" THEN "none" ELSE "inaccessible"
          /\ End(w)
     ELSE RequeueOrFail(w)
  /\ Frame

-----------------------------------------------------------------------------
(* Leases and crashes *)

ReapExpiredLeases(s) ==
  /\ faults < MaxFaults /\ holder[s] # NoWorker
  /\ Free(s)
  /\ faults' = faults + 1
  /\ UNCHANGED <<github, index, row, staged, work, seen, changes>>

Crash ==
  /\ faults < MaxFaults
  /\ faults' = faults + 1
  /\ Restart
  /\ UNCHANGED <<github, changes>>

-----------------------------------------------------------------------------
Init ==
  /\ listing = InitialListing
  /\ lastId = Max({InitialListing[k] : k \in Keys} \cup {0})
  /\ gone = FALSE
  /\ present = {} /\ owner = "none"
  /\ row = [s \in Scans |-> NoRow]
  /\ holder = [s \in Scans |-> NoWorker]
  /\ staged = [s \in Scans |-> <<{}, {}>>]
  /\ at = [w \in Workers |-> "idle"]
  /\ job = [w \in Workers |-> NoScan]
  /\ copy = [w \in Workers |-> NoRow]
  /\ page = [w \in Workers |-> NoPage]
  /\ snap = [w \in Workers |-> NoSnap]
  /\ seen = [s \in Scans |-> {}]
  /\ changes = 0 /\ faults = 0

Commit(w) == CommitFirst(w) \/ CommitPage(w) \/ CommitSnapshot(w) \/ CommitMissing(w)
RESTStep(w) == RESTRead(w) \/ RESTMissing(w) \/ RESTFails(w)

Next ==
  \/ \E k \in Keys : AddKey(k) \/ RemoveKey(k)
  \/ ChangeAccess
  \/ \E s \in Scans : Enqueue(s) \/ ReapExpiredLeases(s)
  \/ \E w \in Workers : \/ \E s \in Scans : Claim(w, s)
                         \/ FetchPage(w) \/ FetchFails(w) \/ GoToREST(w)
                         \/ Commit(w) \/ RESTStep(w)
  \/ Crash

Spec == Init /\ [][Next]_vars

\* Rows are claimed oldest first, workers go on, and a request that is made
\* again and again is answered in the end.
FairSpec ==
  /\ Spec
  /\ \A s \in Scans : /\ SF_vars(\E w \in Workers : Claim(w, s))
                      /\ SF_vars(\E w \in Workers : job[w] = s /\ FetchPage(w))
  /\ \A w \in Workers : WF_vars(Commit(w)) /\ WF_vars(RESTStep(w))

-----------------------------------------------------------------------------
(* Properties *)

RowTypes == [kind : {"absent", "account", "overflow"}, attempts : 0..RESTAfter,
             cursor : Nat, expected : Nat \cup {Unknown}, observed : Nat, pass : {1, 2}]

\* Every variable has its type, and an account that is not entered, or is
\* inaccessible, shows no keys.
TypeOK ==
  /\ listing \in [Keys -> Nat] /\ lastId \in Nat /\ gone \in BOOLEAN
  /\ present \subseteq Keys /\ owner \in {"none", "known", "inaccessible"}
  /\ owner # "known" => present = {}
  /\ row \in [Scans -> RowTypes]
  /\ holder \in [Scans -> Workers \cup {NoWorker}]
  /\ \A s \in Scans : staged[s] \in (SUBSET Keys) \X (SUBSET Keys)
  /\ at \in [Workers -> {"idle", "claimed", "answered", "rest", "failed",
                          "snapshot", "missing"}]
  /\ job \in [Workers -> Scans \cup {NoScan}]
  /\ copy \in [Workers -> RowTypes]

\* The index shows only sets of keys that GitHub listed at one moment after the
\* scan was enqueued: no page by page mixture, whatever changed between the
\* pages, the passes and the retries.  A REST snapshot of several pages is
\* weaker: each of its keys was listed then.
IndexedSetWasListed ==
  [][present' # present =>
       \E w \in Workers :
         /\ job[w] # NoScan /\ row[job[w]] # NoRow /\ row'[job[w]] = NoRow
         /\ \/ present' \in seen[job[w]]
            \/ snap[w].passes = 1 /\ present' \subseteq UNION seen[job[w]]]_vars

\* A key that is listed and lies behind the cursor of a pass has been staged by
\* that pass: no retry, stale claim or restart skips a page.
PassCoversItsPrefix ==
  \A s \in Scans : row[s].kind = "overflow" =>
    \A k \in ListedKeys : listing[k] <= row[s].cursor => k \in staged[s][row[s].pass]

\* The listing no longer has the keys the pass has counted, while its total
\* is what the scan expects.
OutOfStep(s) ==
  /\ row[s].kind = "overflow"
  /\ row[s].expected = Cardinality(ListedKeys)
  /\ row[s].observed + Cardinality(Above(row[s].cursor)) # row[s].expected

\* A scan ends, unless its account is gone for good or the listing has come
\* out of step with it.
ScanEndsInStep ==
  \A s \in Scans :
    []<>(row[s] = NoRow) \/ <>[](gone \/ OutOfStep(s))

=============================================================================
