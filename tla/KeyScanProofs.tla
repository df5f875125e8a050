---------------------------- MODULE KeyScanProofs ----------------------------
(* Proofs about KeyScan, for any keys, scans, workers, page sizes and bounds. *)
EXTENDS KeyScan, FiniteSetTheorems, TLAPS

\* A finite set of naturals that is not empty has a greatest element.
LEMMA MaxIsGreatest ==
  ASSUME NEW S, S \subseteq Nat, S # {}, IsFiniteSet(S)
  PROVE  Max(S) \in S /\ \A y \in S : y <= Max(S)
<1> DEFINE above(x) == {y \in S : y > x}
           T == {above(x) : x \in S}
           R == StrictSubsetOrdering(S)
<1>1. T \subseteq FiniteSubsetsOf(S) /\ T # {}
  <2>1. \A x \in S : above(x) \in SUBSET S /\ IsFiniteSet(above(x))
    BY FS_Subset
  <2> QED BY <2>1 DEF FiniteSubsetsOf
<1>2. PICK I \in T : \A J \in T : <<J, I>> \notin R
  <2>1. IsWellFoundedOn(R, FiniteSubsetsOf(S))
    BY FS_StrictSubsetOrderingWellFounded
  <2> HIDE DEF R, T
  <2> QED BY <1>1, <2>1, WFMin
<1>3. PICK x \in S : I = above(x)
  BY <1>2
<1>4. ASSUME NEW y \in S, y > x PROVE FALSE
  <2>1. above(y) \in T /\ above(y) \in SUBSET S /\ I \in SUBSET S
    BY <1>3
  <2>2. above(y) \subseteq I /\ y \in I /\ y \notin above(y)
    <3>1. \A z \in S : z > y => z > x
      BY <1>4
    <3>2. ~(y > y)
      BY <1>4
    <3> QED BY <1>3, <1>4, <3>1, <3>2
  <2>3. <<above(y), I>> \in R
    BY <2>1, <2>2 DEF StrictSubsetOrdering
  <2> QED BY <1>2, <2>1, <2>3
<1>5. \E z \in S : \A y \in S : z >= y
  BY <1>4
<1> QED BY <1>5 DEF Max

-----------------------------------------------------------------------------
(* The invariant *)

Pages == [keys : SUBSET Keys, total : Nat, more : BOOLEAN, cursor : Nat]
Snaps == [page : Nat, keys : SUBSET Keys, passes : {0, 1}, first : SUBSET Keys]

\* Ids are given out in order, so a key that is added is behind every cursor.
GithubShape ==
  /\ listing \in [Keys -> Nat] /\ lastId \in Nat /\ gone \in BOOLEAN
  /\ \A k \in Keys : listing[k] <= lastId

IndexShape ==
  /\ present \subseteq Keys /\ owner \in {"none", "known", "inaccessible"}
  /\ owner # "known" => present = {}

RowShape ==
  /\ row \in [Scans -> RowTypes]
  /\ holder \in [Scans -> Workers \cup {NoWorker}]
  /\ staged \in [Scans -> (SUBSET Keys) \X (SUBSET Keys)]
  /\ seen \in [Scans -> SUBSET (SUBSET Keys)]

WorkShape ==
  /\ at \in [Workers -> {"idle", "claimed", "answered", "rest", "failed",
                          "snapshot", "missing"}]
  /\ job \in [Workers -> Scans \cup {NoScan}]
  /\ copy \in [Workers -> RowTypes]
  /\ page \in [Workers -> Pages] /\ snap \in [Workers -> Snaps]

\* What is listed up to the cursor is staged, whether or not the account is
\* reachable; and what is listed now has been seen by every scan under way.
ScanInv(s) ==
  /\ row[s].cursor <= lastId
  /\ row[s].kind = "account" => row[s].cursor = 0
  /\ row[s].kind = "overflow" =>
       \A k \in Keys : listing[k] # 0 /\ listing[k] <= row[s].cursor =>
         k \in staged[s][row[s].pass]
  /\ row[s].kind # "absent" => ListedKeys \in seen[s]

\* The page is the next part of the listing, and nothing was added into it.
Ahead(w) ==
  /\ copy[w].cursor <= page[w].cursor
  /\ \A k \in Keys : copy[w].cursor < listing[k] /\ listing[k] <= page[w].cursor =>
       k \in page[w].keys

\* The listing of the moment of the request: its size is the page's total, and
\* with a last page all of it is there.
Counted(w) ==
  /\ \E L \in seen[job[w]] :
       /\ page[w].total = Cardinality(L)
       /\ ~page[w].more => L \subseteq staged[job[w]][copy[w].pass] \cup page[w].keys
  /\ copy[w].kind = "account" /\ ~page[w].more => page[w].keys \in seen[job[w]]

\* What a worker knows as long as its claim is good.
Holds(w) ==
  /\ row[job[w]].kind # "absent"
  /\ at[w] \in {"claimed", "answered"} => copy[w] = row[job[w]]
  /\ at[w] = "answered" => Counted(w)
  /\ at[w] \in {"rest", "snapshot"} => snap[w].keys \subseteq UNION seen[job[w]]
  /\ at[w] = "rest" /\ snap[w].page = 0 => snap[w].keys = {}
  /\ at[w] = "snapshot" /\ snap[w].passes = 0 => snap[w].keys \in seen[job[w]]
  /\ at[w] = "missing" => {} \in seen[job[w]]

WorkInv(w) ==
  /\ copy[w].cursor <= lastId /\ page[w].cursor <= lastId
  /\ at[w] \in {"idle", "claimed", "answered"} => snap[w].keys = {}
  /\ at[w] # "idle" => /\ job[w] \in Scans
                       /\ at[w] = "answered" => Ahead(w)
                       /\ holder[job[w]] = w => Holds(w)

Shapes == GithubShape /\ IndexShape /\ RowShape /\ WorkShape

IInv == /\ Shapes
        /\ \A s \in Scans : ScanInv(s)
        /\ \A w \in Workers : WorkInv(w)

\* The rows, pages and snapshots that stand for none have their types.
LEMMA EmptyTyped ==
  /\ Row("absent") \in RowTypes /\ Row("account") \in RowTypes /\ Row("overflow") \in RowTypes
  /\ NoRow = Row("absent") /\ NoPage \in Pages /\ NoSnap \in Snaps
  BY KeyScanAssumption DEF Row, NoRow, RowTypes, Unknown, NoPage, Pages, NoSnap, Snaps

-----------------------------------------------------------------------------
(* What a request answers *)

\* Sets of keys are finite, what is listed among them.
LEMMA ListedAreFinite ==
  /\ ListedKeys \subseteq Keys
  /\ \A S : S \subseteq Keys => IsFiniteSet(S) /\ Cardinality(S) \in Nat
<1>1. ListedKeys \subseteq Keys
  BY DEF ListedKeys
<1>2. ASSUME NEW S, S \subseteq Keys PROVE IsFiniteSet(S) /\ Cardinality(S) \in Nat
  <2>1. IsFiniteSet(S)
    BY <1>2, KeyScanAssumption, FS_Subset
  <2> QED BY <2>1, FS_CardinalityType
<1> QED BY <1>1, <1>2

\* A subset is not larger.
LEMMA SmallerSet ==
  ASSUME NEW S, S \subseteq Keys, NEW T, T \subseteq S
  PROVE  /\ Cardinality(T) \in Nat /\ Cardinality(S) \in Nat
         /\ Cardinality(T) <= Cardinality(S)
         /\ Cardinality(T) = Cardinality(S) => T = S
<1>1. IsFiniteSet(S) /\ T \subseteq Keys /\ T \in SUBSET S
  BY ListedAreFinite
<1> QED BY <1>1, FS_Subset, ListedAreFinite

\* The keys of a page.
FirstAbove(cursor) ==
  {k \in Above(cursor) : Cardinality({j \in Above(cursor) : listing[j] < listing[k]}) < PageSize}

\* A page has no gap: a listed key between two cursors is on it.
LEMMA PageHasNoGap ==
  ASSUME GithubShape, NEW cursor \in Nat, NEW m \in FirstAbove(cursor),
         NEW k \in Above(cursor), listing[k] <= listing[m]
  PROVE  k \in FirstAbove(cursor)
<1> DEFINE below(x) == {j \in Above(cursor) : listing[j] < listing[x]}
<1>1. Above(cursor) \subseteq Keys
  BY DEF Above, ListedKeys
<1>2. below(k) \subseteq below(m)
  <2> SUFFICES ASSUME NEW j \in Above(cursor), listing[j] < listing[k]
               PROVE  listing[j] < listing[m]
    OBVIOUS
  <2>1. listing[j] \in Nat /\ listing[k] \in Nat /\ listing[m] \in Nat
    BY <1>1 DEF GithubShape, FirstAbove
  <2> QED BY <2>1
<1>3. Cardinality(below(k)) <= Cardinality(below(m)) /\ Cardinality(below(k)) \in Nat
      /\ Cardinality(below(m)) \in Nat
  <2>1. below(m) \subseteq Keys
    BY <1>1
  <2> HIDE DEF below
  <2> QED BY <1>2, <2>1, SmallerSet
<1>4. Cardinality(below(m)) < PageSize
  BY DEF FirstAbove
<1>5. Cardinality(below(k)) < PageSize
  <2> HIDE DEF below
  <2> QED BY <1>3, <1>4, KeyScanAssumption
<1> QED BY <1>5 DEF FirstAbove

\* What a page says of the listing of its moment.
Answers(p, cursor) ==
  /\ p \in Pages /\ cursor <= p.cursor /\ p.cursor <= lastId
  /\ p.total = Cardinality(ListedKeys)
  /\ \A k \in Above(cursor) : listing[k] <= p.cursor => k \in p.keys
  /\ ~p.more => p.keys = Above(cursor)

\* A page of the connection is the next part of the listing.
LEMMA PageAnswers ==
  ASSUME GithubShape, NEW cursor \in Nat, cursor <= lastId
  PROVE  Answers(GraphQLPage(cursor), cursor)
<1> DEFINE keys == FirstAbove(cursor)
           ids == {listing[k] : k \in keys} \cup {cursor}
<1>1. keys \subseteq Above(cursor) /\ Above(cursor) \subseteq Keys
  BY DEF Above, ListedKeys, FirstAbove
<1>2. ids \subseteq Nat /\ \A i \in ids : i <= lastId
  BY <1>1 DEF GithubShape
<1>3. IsFiniteSet(ids)
  <2>1. lastId \in Nat /\ ids \in SUBSET Nat
    BY <1>2 DEF GithubShape
  <2> HIDE DEF ids
  <2> QED BY <1>2, <2>1, FS_BoundedSetOfNaturals
<1>4. cursor \in ids
  OBVIOUS
<1>5. Max(ids) \in ids /\ Max(ids) \in Nat /\ cursor <= Max(ids) /\ Max(ids) <= lastId
  <2> HIDE DEF ids
  <2> QED BY <1>2, <1>3, <1>4, MaxIsGreatest
<1>6. ASSUME NEW k \in Above(cursor), listing[k] <= Max(ids) PROVE k \in keys
  <2>1. listing[k] > cursor /\ listing[k] \in Nat
    BY <1>1 DEF Above, GithubShape
  <2>2. Max(ids) # cursor
    <3> HIDE DEF ids
    <3> QED BY <1>5, <1>6, <2>1
  <2>3. PICK m \in keys : Max(ids) = listing[m]
    BY <1>5, <2>2
  <2> QED BY <1>6, <2>3, PageHasNoGap
<1>7. GraphQLPage(cursor) =
        [keys |-> keys, total |-> Cardinality(ListedKeys), more |-> keys # Above(cursor),
         cursor |-> Max(ids)]
  BY DEF GraphQLPage, FirstAbove
<1>8. Cardinality(ListedKeys) \in Nat
  BY ListedAreFinite
<1> DEFINE p == GraphQLPage(cursor)
<1> HIDE DEF ids, keys
<1>9. p \in Pages /\ p.keys = keys /\ p.cursor = Max(ids)
      /\ p.total = Cardinality(ListedKeys) /\ (p.more <=> keys # Above(cursor))
  <2> DEFINE more == keys # Above(cursor)
             total == Cardinality(ListedKeys)
  <2>1. p = [keys |-> keys, total |-> total, more |-> more, cursor |-> Max(ids)]
    BY <1>7
  <2>2. keys \in SUBSET Keys /\ more \in BOOLEAN /\ total \in Nat /\ Max(ids) \in Nat
    BY <1>1, <1>5, <1>8
  <2>3. more <=> keys # Above(cursor)
    OBVIOUS
  <2> HIDE DEF p, more, total
  <2>4. p \in Pages /\ p.keys = keys /\ p.cursor = Max(ids) /\ p.total = total /\ (p.more <=> more)
    BY <2>1, <2>2 DEF Pages
  <2> QED BY <2>3, <2>4 DEF total
<1> HIDE DEF p
<1>10. \A k \in Above(cursor) : listing[k] <= p.cursor => k \in p.keys
  BY <1>6, <1>9
<1>11. ~p.more => p.keys = Above(cursor)
  BY <1>9
<1>12. Answers(p, cursor)
  BY <1>5, <1>9, <1>10, <1>11 DEF Answers
<1> QED BY <1>12 DEF p

\* A set of at most one page is on its first page.
LEMMA OnePageIsAll ==
  ASSUME GithubShape, ~RESTHasNext(1)
  PROVE  RESTPage(1) = ListedKeys
<1>1. ASSUME NEW k \in ListedKeys PROVE Rank(k) > 0 * RESTPageSize /\ Rank(k) <= 1 * RESTPageSize
  <2> DEFINE upto == {j \in ListedKeys : listing[j] <= listing[k]}
  <2>1. k \in Keys /\ listing[k] \in Nat /\ k \in upto
    BY DEF ListedKeys, GithubShape
  <2>2. ListedKeys \subseteq Keys /\ upto \subseteq ListedKeys /\ {k} \subseteq upto
    BY <2>1, ListedAreFinite
  <2>3. /\ Cardinality(upto) \in Nat /\ Cardinality(upto) <= Cardinality(ListedKeys)
        /\ Cardinality(ListedKeys) \in Nat
    <3> HIDE DEF upto
    <3> QED BY <2>2, SmallerSet
  <2>4. 1 <= Cardinality(upto)
    <3>1. Cardinality({k}) = 1
      BY FS_Singleton
    <3>2. upto \subseteq Keys
      BY <2>2
    <3> HIDE DEF upto
    <3> QED BY <2>2, <3>1, <3>2, SmallerSet
  <2>5. Rank(k) = Cardinality(upto)
    BY DEF Rank
  <2>6. Cardinality(ListedKeys) <= RESTPageSize
    BY <2>3, KeyScanAssumption DEF RESTHasNext
  <2> HIDE DEF upto
  <2> QED BY <2>3, <2>4, <2>5, <2>6, KeyScanAssumption
<1> QED BY <1>1 DEF RESTPage

-----------------------------------------------------------------------------
(* Steps of others *)

\* A change of the listing adds behind every cursor.
AddsLast(k) == listing'[k] = listing[k] \/ listing'[k] = 0 \/ listing'[k] > lastId

GithubMoves ==
  /\ GithubShape' /\ lastId <= lastId' /\ lastId \in Nat
  /\ \A k \in Keys : AddsLast(k)

GithubStays == UNCHANGED <<listing, lastId, gone>>

\* An account that stays as it is has moved in the sense of GithubMoves.
LEMMA StayingMoves == ASSUME GithubShape, GithubStays PROVE GithubMoves /\ ListedKeys' = ListedKeys
  BY DEF GithubShape, GithubStays, GithubMoves, AddsLast, ListedKeys

\* The row of a scan and its stage stay, and what is listed is seen.
RowStays(s) == /\ row'[s] = row[s] /\ staged'[s] = staged[s]
               /\ seen[s] \subseteq seen'[s]

\* A scan whose row stays keeps its part of the invariant.
LEMMA ScanKept ==
  ASSUME Shapes, GithubMoves, NEW s \in Scans, ScanInv(s), RowStays(s),
         row[s].kind # "absent" => ListedKeys' \in seen'[s]
  PROVE  ScanInv(s)'
<1>1. row[s].cursor \in Nat /\ lastId' \in Nat /\ listing \in [Keys -> Nat]
      /\ listing' \in [Keys -> Nat]
  BY DEF Shapes, RowShape, RowTypes, GithubShape, GithubMoves
<1>2. row[s].cursor <= lastId'
  BY <1>1 DEF ScanInv, GithubMoves
<1>3. ASSUME row[s].kind = "overflow", NEW k \in Keys, listing'[k] # 0, listing'[k] <= row[s].cursor
      PROVE  k \in staged[s][row[s].pass]
  <2>1. listing'[k] = listing[k]
    BY <1>1, <1>3 DEF ScanInv, GithubMoves, AddsLast
  <2> QED BY <1>3, <2>1 DEF ScanInv
<1> QED BY <1>2, <1>3 DEF ScanInv, RowStays

\* A worker that does not move: its claim may be lost, or its row stays.
WorkerStays(v) ==
  /\ at'[v] = at[v] /\ job'[v] = job[v] /\ copy'[v] = copy[v]
  /\ page'[v] = page[v] /\ snap'[v] = snap[v]
  /\ at[v] # "idle" /\ holder'[job[v]] = v => holder[job[v]] = v /\ RowStays(job[v])

\* So does a worker whose claim and row stay.
LEMMA WorkerKept ==
  ASSUME Shapes, GithubMoves, NEW v \in Workers, WorkInv(v), WorkerStays(v)
  PROVE  WorkInv(v)'
<1>1. copy[v].cursor \in Nat /\ page[v].cursor \in Nat /\ lastId' \in Nat
      /\ listing \in [Keys -> Nat] /\ listing' \in [Keys -> Nat]
  BY DEF Shapes, WorkShape, RowTypes, Pages, GithubShape, GithubMoves
<1>2. copy'[v].cursor <= lastId' /\ page'[v].cursor <= lastId'
  BY <1>1 DEF WorkInv, WorkerStays, GithubMoves
<1>3. ASSUME Ahead(v) PROVE Ahead(v)'
  <2>1. ASSUME NEW k \in Keys, copy[v].cursor < listing'[k], listing'[k] <= page[v].cursor
        PROVE  k \in page[v].keys
    <3>1. listing'[k] = listing[k]
      BY <1>1, <2>1 DEF WorkInv, GithubMoves, AddsLast
    <3> QED BY <1>3, <2>1, <3>1 DEF Ahead
  <2> QED BY <1>3, <2>1 DEF Ahead, WorkerStays
<1>4. ASSUME RowStays(job[v]), Counted(v) PROVE Counted(v)'
  BY <1>4 DEF Counted, RowStays, WorkerStays
<1>5. ASSUME RowStays(job[v]), Holds(v) PROVE Holds(v)'
  <2>1. UNION seen[job[v]] \subseteq UNION seen'[job[v]]
    BY <1>5 DEF RowStays
  <2> QED BY <1>4, <1>5, <2>1 DEF Holds, RowStays, WorkerStays
<1>6. ASSUME at'[v] # "idle"
      PROVE  /\ job'[v] \in Scans /\ (at'[v] = "answered" => Ahead(v)')
             /\ holder'[job'[v]] = v => Holds(v)'
  BY <1>3, <1>5, <1>6 DEF WorkInv, WorkerStays
<1>7. at'[v] \in {"idle", "claimed", "answered"} => snap'[v].keys = {}
  BY DEF WorkInv, WorkerStays
<1> QED BY <1>2, <1>6, <1>7 DEF WorkInv

\* An idle worker.
LEMMA IdleWorker ==
  ASSUME Shapes, GithubMoves, NEW w \in Workers, at'[w] = "idle",
         copy'[w] = NoRow, page'[w] = NoPage, snap'[w] = NoSnap
  PROVE  WorkInv(w)'
<1>1. NoRow.cursor = 0 /\ NoPage.cursor = 0 /\ NoSnap.keys = {}
  BY DEF NoRow, Row, NoPage, NoSnap
<1> QED BY <1>1 DEF WorkInv, GithubMoves, GithubShape

\* A worker that goes idle keeps nothing, and the others keep what they have.
LEMMA IdleShape ==
  ASSUME WorkShape, NEW w \in Workers, Idle(w)
  PROVE  /\ WorkShape' /\ at'[w] = "idle"
         /\ copy'[w] = NoRow /\ page'[w] = NoPage /\ snap'[w] = NoSnap
         /\ \A v \in Workers \ {w} : /\ at'[v] = at[v] /\ job'[v] = job[v] /\ copy'[v] = copy[v]
                                     /\ page'[v] = page[v] /\ snap'[v] = snap[v]
<1>1. at' = [at EXCEPT ![w] = "idle"] /\ job' = [job EXCEPT ![w] = NoScan]
      /\ copy' = [copy EXCEPT ![w] = NoRow] /\ page' = [page EXCEPT ![w] = NoPage]
      /\ snap' = [snap EXCEPT ![w] = NoSnap]
  BY DEF Idle, Goto
<1>2. NoRow \in RowTypes /\ NoPage \in Pages /\ NoSnap \in Snaps
  BY EmptyTyped
<1> QED BY <1>1, <1>2 DEF WorkShape

\* A claim ends: the row may be freed, and that of a good claim rewritten.
Ends(w, s, r, st, sn) ==
  /\ row' = [row EXCEPT ![s] = r] /\ staged' = [staged EXCEPT ![s] = st]
  /\ seen' = [seen EXCEPT ![s] = sn]
  /\ holder' = [holder EXCEPT ![s] = NoWorker]
  /\ Idle(w)

\* A step that ends the work of a worker on a row, whatever becomes of the row.
LEMMA EndKeeps ==
  ASSUME IInv, IndexShape', GithubStays, NEW w \in Workers, NEW s \in Scans,
         NEW r \in RowTypes, NEW st \in (SUBSET Keys) \X (SUBSET Keys),
         NEW sn \in SUBSET (SUBSET Keys), Ends(w, s, r, st, sn), ScanInv(s)'
  PROVE  IInv'
<1>1. GithubMoves /\ ListedKeys' = ListedKeys /\ Shapes /\ WorkShape
  BY StayingMoves DEF IInv, Shapes
<1>2. RowShape'
  BY <1>1 DEF Ends, Shapes, RowShape
<1>3. Shapes'
  BY <1>1, <1>2, IdleShape DEF Ends, Shapes, GithubMoves
<1>4. \A x \in Scans \ {s} : RowStays(x) /\ seen'[x] = seen[x] /\ holder'[x] = holder[x]
  BY <1>1 DEF Ends, Shapes, RowShape, RowStays
<1>5. ASSUME NEW x \in Scans PROVE ScanInv(x)'
  <2>1. CASE x = s
    BY <2>1
  <2>2. CASE x # s
    <3>1. RowStays(x) /\ ScanInv(x) /\ (row[x].kind # "absent" => ListedKeys' \in seen'[x])
      BY <1>1, <1>4, <2>2 DEF IInv, ScanInv
    <3> QED BY <1>1, <3>1, ScanKept
  <2> QED BY <2>1, <2>2
<1>6. holder'[s] = NoWorker
  BY <1>1 DEF Ends, Shapes, RowShape
<1>7. ASSUME NEW v \in Workers PROVE WorkInv(v)'
  <2>1. CASE v = w
    BY <1>1, <2>1, IdleShape, IdleWorker DEF Ends
  <2>2. CASE v # w
    <3>1. /\ at'[v] = at[v] /\ job'[v] = job[v] /\ copy'[v] = copy[v]
          /\ page'[v] = page[v] /\ snap'[v] = snap[v]
      BY <1>1, <2>2, IdleShape DEF Ends
    <3>2. WorkInv(v)
      BY DEF IInv
    <3>3. ASSUME at[v] # "idle", holder'[job[v]] = v
          PROVE  holder[job[v]] = v /\ RowStays(job[v])
      <4>1. job[v] \in Scans
        BY <3>2, <3>3 DEF WorkInv
      <4>2. job[v] # s
        BY <1>6, <3>3, KeyScanAssumption
      <4> QED BY <1>4, <3>3, <4>1, <4>2
    <3>4. WorkerStays(v)
      BY <3>1, <3>3 DEF WorkerStays
    <3> QED BY <1>1, <3>2, <3>4, WorkerKept
  <2> QED BY <2>1, <2>2
<1> QED BY <1>3, <1>5, <1>7 DEF IInv

\* Only the claim is given up, if it was still good.
LEMMA RequeueKeeps ==
  ASSUME IInv, GithubStays, NEW w \in Workers, at[w] # "idle", Requeue(w)
  PROVE  IInv'
<1>1. GithubMoves /\ ListedKeys' = ListedKeys /\ Shapes /\ WorkShape
  BY StayingMoves DEF IInv, Shapes
<1>2. /\ Idle(w) /\ UNCHANGED <<present, owner, row, staged, seen>>
      /\ job[w] \in Scans
  BY DEF Requeue, index, IInv, WorkInv
<1>3. /\ holder' \in [Scans -> Workers \cup {NoWorker}]
      /\ \A s \in Scans : holder'[s] \in {holder[s], NoWorker}
  <2>1. holder \in [Scans -> Workers \cup {NoWorker}]
    BY <1>1 DEF Shapes, RowShape
  <2>2. CASE Owns(w)
    <3>1. holder' = [holder EXCEPT ![job[w]] = NoWorker]
      BY <2>2 DEF Requeue, Free
    <3> QED BY <1>2, <2>1, <3>1
  <2>3. CASE ~Owns(w)
    BY <2>1, <2>3 DEF Requeue
  <2> QED BY <2>2, <2>3
<1>4. Shapes'
  <2>1. RowShape' /\ IndexShape'
    BY <1>1, <1>2, <1>3 DEF Shapes, RowShape, IndexShape
  <2> QED BY <1>1, <1>2, <2>1, IdleShape DEF Shapes, GithubMoves
<1>5. ASSUME NEW x \in Scans PROVE ScanInv(x)' /\ RowStays(x)
  <2>1. RowStays(x) /\ ScanInv(x) /\ (row[x].kind # "absent" => ListedKeys' \in seen'[x])
    BY <1>1, <1>2 DEF IInv, ScanInv, RowStays
  <2> QED BY <1>1, <2>1, ScanKept
<1>6. ASSUME NEW v \in Workers PROVE WorkInv(v)'
  <2>1. CASE v = w
    BY <1>1, <1>2, <2>1, IdleShape, IdleWorker
  <2>2. CASE v # w
    <3>1. /\ at'[v] = at[v] /\ job'[v] = job[v] /\ copy'[v] = copy[v]
          /\ page'[v] = page[v] /\ snap'[v] = snap[v]
      BY <1>1, <1>2, <2>2, IdleShape
    <3>2. WorkInv(v)
      BY DEF IInv
    <3>3. ASSUME at[v] # "idle", holder'[job[v]] = v
          PROVE  holder[job[v]] = v /\ RowStays(job[v])
      BY <1>3, <1>5, <3>2, <3>3, KeyScanAssumption DEF WorkInv
    <3>4. WorkerStays(v)
      BY <3>1, <3>3 DEF WorkerStays
    <3> QED BY <1>1, <3>2, <3>4, WorkerKept
  <2> QED BY <2>1, <2>2
<1> QED BY <1>4, <1>5, <1>6 DEF IInv

\* Every worker starts anew.
LEMMA RestartKeeps ==
  ASSUME IInv, GithubStays, Restart
  PROVE  IInv'
<1>1. GithubMoves /\ ListedKeys' = ListedKeys /\ Shapes
  BY StayingMoves DEF IInv, Shapes
<1>2. UNCHANGED <<present, owner, row, staged, seen>>
  BY DEF Restart, index
<1>3. Shapes'
  <2>1. GithubShape' /\ IndexShape' /\ RowShape'
    BY <1>1, <1>2 DEF Shapes, RowShape, IndexShape, GithubMoves, Restart
  <2>2. NoRow \in RowTypes /\ NoPage \in Pages /\ NoSnap \in Snaps
    BY EmptyTyped
  <2>3. WorkShape'
    BY <2>2 DEF Restart, WorkShape
  <2> QED BY <2>1, <2>3 DEF Shapes
<1>4. ASSUME NEW x \in Scans PROVE ScanInv(x)'
  <2>1. RowStays(x) /\ ScanInv(x) /\ (row[x].kind # "absent" => ListedKeys' \in seen'[x])
    BY <1>1, <1>2 DEF IInv, ScanInv, RowStays
  <2> QED BY <1>1, <2>1, ScanKept
<1>5. ASSUME NEW v \in Workers PROVE WorkInv(v)'
  <2>1. at'[v] = "idle" /\ copy'[v] = NoRow /\ page'[v] = NoPage /\ snap'[v] = NoSnap
    BY DEF Restart
  <2> QED BY <1>1, <2>1, IdleWorker
<1> QED BY <1>3, <1>4, <1>5 DEF IInv

\* An error gives the row back or restarts the process.
LEMMA RequeueOrFailKeeps ==
  ASSUME IInv, GithubStays, NEW w \in Workers, at[w] # "idle", RequeueOrFail(w)
  PROVE  IInv'
  BY RequeueKeeps, RestartKeeps DEF RequeueOrFail

-----------------------------------------------------------------------------
(* The account at GitHub *)

\* A change of the account: active scans see the new listing.
LEMMA ChangeKeeps ==
  ASSUME IInv, GithubMoves, Changed
  PROVE  IInv'
<1>1. /\ UNCHANGED <<present, owner, row, holder, staged>>
      /\ UNCHANGED <<at, job, copy, page, snap>> /\ Shapes
      /\ seen' = [s \in Scans |-> IF s \in Active THEN seen[s] \cup {ListedKeys'} ELSE seen[s]]
  BY DEF Changed, index, rows, work, IInv
<1>2. ListedKeys' \subseteq Keys
  BY DEF ListedKeys
<1>3. Shapes'
  <2>1. RowShape'
    BY <1>1, <1>2 DEF Shapes, RowShape
  <2>2. IndexShape' /\ WorkShape'
    BY <1>1 DEF Shapes, IndexShape, WorkShape
  <2> QED BY <2>1, <2>2 DEF Shapes, GithubMoves
<1>4. ASSUME NEW s \in Scans
      PROVE  RowStays(s) /\ (row[s].kind # "absent" => ListedKeys' \in seen'[s])
  <2>1. row[s].kind \in {"absent", "account", "overflow"}
    BY <1>1 DEF Shapes, RowShape, RowTypes
  <2> QED BY <1>1, <2>1 DEF RowStays, Active
<1>5. \A s \in Scans : ScanInv(s)'
  BY <1>1, <1>4, ScanKept DEF IInv
<1>6. ASSUME NEW v \in Workers PROVE WorkInv(v)'
  <2>1. WorkInv(v)
    BY DEF IInv
  <2>2. WorkerStays(v)
    BY <1>1, <1>4, <2>1 DEF WorkerStays, WorkInv
  <2> QED BY <1>1, <2>1, <2>2, WorkerKept
<1> QED BY <1>3, <1>5, <1>6 DEF IInv

\* A key is added after all others, or removed.
LEMMA GithubKeeps ==
  ASSUME IInv, NEW k \in Keys, AddKey(k) \/ RemoveKey(k)
  PROVE  IInv'
<1>1. GithubShape
  BY DEF IInv, Shapes
<1>2. CASE AddKey(k)
  <2>1. listing' = [listing EXCEPT ![k] = lastId + 1] /\ lastId' = lastId + 1 /\ gone' = gone
    BY <1>2 DEF AddKey
  <2>2. listing' \in [Keys -> Nat] /\ \A j \in Keys : listing'[j] = listing[j] \/ listing'[j] = lastId + 1
    BY <1>1, <2>1 DEF GithubShape
  <2>3. GithubShape'
    BY <1>1, <2>1, <2>2 DEF GithubShape
  <2>4. GithubMoves
    BY <1>1, <2>1, <2>2, <2>3 DEF GithubShape, GithubMoves, AddsLast
  <2> QED BY <1>2, <2>4, ChangeKeeps DEF AddKey
<1>3. CASE RemoveKey(k)
  <2>1. listing' = [listing EXCEPT ![k] = 0] /\ lastId' = lastId /\ gone' = gone
    BY <1>3 DEF RemoveKey
  <2>2. GithubMoves
    BY <1>1, <2>1 DEF GithubShape, GithubMoves, AddsLast
  <2> QED BY <1>3, <2>2, ChangeKeeps DEF RemoveKey
<1> QED BY <1>2, <1>3

\* An account that cannot be reached keeps its listing.
LEMMA AccessKeeps == ASSUME IInv, ChangeAccess PROVE IInv'
<1>1. GithubMoves
  BY DEF IInv, Shapes, GithubShape, GithubMoves, AddsLast, ChangeAccess
<1> QED BY <1>1, ChangeKeeps DEF ChangeAccess

-----------------------------------------------------------------------------
(* The row of a scan *)

\* Steps of the crawler leave the account alone.
LEMMA FrameStays == ASSUME Frame PROVE GithubStays
  BY DEF Frame, GithubStays, github

\* A new row starts before the first key, with nothing staged.
LEMMA EnqueueKeeps ==
  ASSUME IInv, NEW s \in Scans, Enqueue(s)
  PROVE  IInv'
<1>1. GithubMoves /\ ListedKeys' = ListedKeys /\ Shapes
  BY FrameStays, StayingMoves DEF Enqueue, IInv, Shapes
<1>2. /\ row[s] = NoRow /\ row' = [row EXCEPT ![s] = Row("account")]
      /\ seen' = [seen EXCEPT ![s] = {ListedKeys}]
      /\ UNCHANGED <<present, owner, holder, staged, at, job, copy, page, snap>>
  BY DEF Enqueue, index, work
<1>3. Shapes'
  <2>1. ListedKeys \subseteq Keys /\ Row("account") \in RowTypes
    BY ListedAreFinite, EmptyTyped
  <2>2. RowShape'
    BY <1>1, <1>2, <2>1 DEF Shapes, RowShape
  <2>3. IndexShape' /\ WorkShape'
    BY <1>1, <1>2 DEF Shapes, IndexShape, WorkShape
  <2> QED BY <1>1, <2>2, <2>3 DEF Shapes, GithubMoves
<1>4. \A x \in Scans \ {s} : RowStays(x)
  BY <1>1, <1>2 DEF Shapes, RowShape, RowStays
<1>5. ASSUME NEW x \in Scans PROVE ScanInv(x)'
  <2>1. CASE x = s
    <3>1. row'[s] = Row("account") /\ seen'[s] = {ListedKeys}
      BY <1>1, <1>2 DEF Shapes, RowShape
    <3> QED BY <1>1, <2>1, <3>1 DEF ScanInv, Row, GithubMoves, GithubShape
  <2>2. CASE x # s
    <3>1. RowStays(x) /\ ScanInv(x)
      BY <1>4, <2>2 DEF IInv
    <3>2. row[x].kind # "absent" => ListedKeys' \in seen'[x]
      BY <1>1, <3>1 DEF ScanInv, RowStays
    <3> QED BY <1>1, <3>1, <3>2, ScanKept
  <2> QED BY <2>1, <2>2
<1>6. ASSUME NEW v \in Workers PROVE WorkInv(v)'
  <2>1. WorkInv(v)
    BY DEF IInv
  <2>2. ASSUME at[v] # "idle", holder'[job[v]] = v
        PROVE  holder[job[v]] = v /\ RowStays(job[v])
    <3>1. holder[job[v]] = v /\ row[job[v]].kind # "absent" /\ job[v] \in Scans
      BY <1>2, <2>1, <2>2 DEF WorkInv, Holds
    <3>2. job[v] # s
      BY <1>2, <3>1 DEF NoRow, Row
    <3> QED BY <1>4, <3>1, <3>2
  <2>3. WorkerStays(v)
    BY <1>2, <2>2 DEF WorkerStays
  <2> QED BY <1>1, <2>1, <2>3, WorkerKept
<1> QED BY <1>3, <1>5, <1>6 DEF IInv

\* A row whose lease expired keeps its cursor and stage, and has no holder.
LEMMA ReapKeeps ==
  ASSUME IInv, NEW s \in Scans, ReapExpiredLeases(s)
  PROVE  IInv'
<1>1. GithubMoves /\ ListedKeys' = ListedKeys /\ Shapes
  BY StayingMoves DEF ReapExpiredLeases, GithubStays, github, IInv, Shapes
<1>2. /\ holder' = [holder EXCEPT ![s] = NoWorker]
      /\ UNCHANGED <<present, owner, row, staged, seen, at, job, copy, page, snap>>
  BY DEF ReapExpiredLeases, Free, index, work
<1>3. Shapes'
  BY <1>1, <1>2 DEF Shapes, RowShape, IndexShape, WorkShape, GithubMoves
<1>4. ASSUME NEW x \in Scans PROVE ScanInv(x)' /\ RowStays(x)
  <2>1. RowStays(x) /\ ScanInv(x) /\ (row[x].kind # "absent" => ListedKeys' \in seen'[x])
    BY <1>1, <1>2 DEF IInv, ScanInv, RowStays
  <2> QED BY <1>1, <2>1, ScanKept
<1>5. \A x \in Scans, v \in Workers : holder'[x] = v => holder[x] = v
  BY <1>1, <1>2, KeyScanAssumption DEF Shapes, RowShape
<1>6. ASSUME NEW v \in Workers PROVE WorkInv(v)'
  <2>1. WorkInv(v)
    BY DEF IInv
  <2>2. WorkerStays(v)
    BY <1>2, <1>4, <1>5, <2>1 DEF WorkerStays, WorkInv
  <2> QED BY <1>1, <2>1, <2>2, WorkerKept
<1> QED BY <1>3, <1>4, <1>6 DEF IInv

\* The claim ends with the row at r, and what is listed up to its cursor staged.
LEMMA ContinueKeeps ==
  ASSUME IInv, GithubStays, NEW w \in Workers, job[w] \in Scans,
         row[job[w]].kind # "absent", NEW r \in RowTypes,
         NEW st \in (SUBSET Keys) \X (SUBSET Keys), Continue(w, r, st),
         owner' \in {owner, "known"}, r.cursor <= lastId,
         \A k \in Keys : listing[k] # 0 /\ listing[k] <= r.cursor => k \in st[r.pass]
  PROVE  IInv'
<1>0. PICK s \in Scans : s = job[w]
  OBVIOUS
<1> DEFINE q == [r EXCEPT !.kind = "overflow"]
<1>1. Shapes /\ ListedKeys' = ListedKeys /\ ScanInv(s)
  BY StayingMoves DEF IInv, Shapes
<1>2. q \in RowTypes /\ q.kind = "overflow" /\ q.cursor = r.cursor /\ q.pass = r.pass
  BY DEF RowTypes
<1>3. present' = present /\ seen' = seen
      /\ row' = [row EXCEPT ![s] = q] /\ staged' = [staged EXCEPT ![s] = st]
      /\ holder' = [holder EXCEPT ![s] = NoWorker] /\ Idle(w)
  BY <1>0 DEF Continue, Free
<1> HIDE DEF q
<1>4. IndexShape'
  BY <1>1, <1>3 DEF Shapes, IndexShape
<1>5. seen[s] \in SUBSET (SUBSET Keys) /\ Ends(w, s, q, st, seen[s])
  BY <1>1, <1>3 DEF Ends, Shapes, RowShape
<1>6. row'[s] = q /\ staged'[s] = st
  BY <1>1, <1>3 DEF Shapes, RowShape
<1>7. ScanInv(s)'
  <2>1. listing' = listing /\ lastId' = lastId
    BY DEF GithubStays
  <2> QED BY <1>0, <1>1, <1>2, <1>3, <1>6, <2>1 DEF ScanInv
<1> QED BY <1>2, <1>4, <1>5, <1>7, EndKeeps

\* The scan ends.
LEMMA DoneKeeps ==
  ASSUME IInv, GithubStays, NEW w \in Workers, job[w] \in Scans, IndexShape', End(w)
  PROVE  IInv'
<1>0. PICK s \in Scans : s = job[w]
  OBVIOUS
<1>1. NoRow \in RowTypes /\ NoRow.cursor = 0 /\ NoRow.kind = "absent"
  BY EmptyTyped DEF NoRow, Row
<1>2. Ends(w, s, NoRow, <<{}, {}>>, {})
  BY <1>0 DEF End, Ends, Free
<1>3. row'[s] = NoRow
  BY <1>2 DEF IInv, Shapes, RowShape, Ends
<1>4. lastId' \in Nat
  BY DEF GithubStays, IInv, Shapes, GithubShape
<1>5. ScanInv(s)'
  BY <1>1, <1>3, <1>4 DEF ScanInv
<1>6. <<{}, {}>> \in (SUBSET Keys) \X (SUBSET Keys) /\ {} \in SUBSET (SUBSET Keys)
  OBVIOUS
<1> QED BY <1>1, <1>2, <1>5, <1>6, EndKeeps

\* Observed keys are keys.
LEMMA ObserveShape ==
  ASSUME NEW keys, keys \subseteq Keys, Observe(keys), IndexShape
  PROVE  IndexShape'
  BY DEF Observe, IndexShape

\* A scan that starts again is before the first key.
LEMMA RestartScanKeeps ==
  ASSUME IInv, GithubStays, NEW w \in Workers, job[w] \in Scans,
         row[job[w]].kind # "absent", RestartScan(w)
  PROVE  IInv'
<1> DEFINE r == [Row("overflow") EXCEPT !.attempts = copy[w].attempts]
<1>1. copy[w] \in RowTypes
  BY DEF IInv, Shapes, WorkShape
<1>2. r \in RowTypes /\ r.cursor = 0
  BY <1>1 DEF RowTypes, Row, Unknown
<1>3. listing \in [Keys -> Nat] /\ lastId \in Nat
  BY DEF IInv, Shapes, GithubShape
<1>4. Continue(w, r, <<{}, {}>>) /\ owner' = owner
  BY DEF RestartScan
<1>5. <<{}, {}>> \in (SUBSET Keys) \X (SUBSET Keys)
  OBVIOUS
<1> HIDE DEF r
<1>6. \A k \in Keys : ~(listing[k] # 0 /\ listing[k] <= r.cursor)
  BY <1>2, <1>3
<1> QED BY <1>2, <1>3, <1>4, <1>5, <1>6, ContinueKeeps

-----------------------------------------------------------------------------
(* A worker on its way *)

\* Only w moves.
OthersStay(w) ==
  \A v \in Workers \ {w} : /\ at'[v] = at[v] /\ job'[v] = job[v] /\ copy'[v] = copy[v]
                           /\ page'[v] = page[v] /\ snap'[v] = snap[v]

\* A step of a worker on its row needs a look at that row and that worker only.
LEMMA MoveKeeps ==
  ASSUME IInv, GithubStays, UNCHANGED <<present, owner, seen>>, NEW w \in Workers,
         RowShape', WorkShape', OthersStay(w), \A x \in Scans : ScanInv(x)',
         \A x \in Scans, v \in Workers \ {w} : holder'[x] = v => holder[x] = v /\ RowStays(x),
         WorkInv(w)'
  PROVE  IInv'
<1>1. GithubMoves /\ Shapes
  BY StayingMoves DEF IInv, Shapes
<1>2. Shapes'
  BY <1>1 DEF Shapes, IndexShape, GithubMoves
<1>3. ASSUME NEW v \in Workers \ {w} PROVE WorkInv(v)'
  <2>1. WorkInv(v)
    BY DEF IInv
  <2>2. WorkerStays(v)
    BY <2>1 DEF WorkerStays, OthersStay, WorkInv
  <2> QED BY <1>1, <2>1, <2>2, WorkerKept
<1> QED BY <1>2, <1>3 DEF IInv

\* A step of a worker on its own state needs a look at that worker only.
LEMMA WalkKeeps ==
  ASSUME IInv, Frame, UNCHANGED <<index, rows, seen>>, NEW w \in Workers,
         WorkShape', OthersStay(w), WorkInv(w)'
  PROVE  IInv'
<1>1. /\ GithubStays /\ UNCHANGED <<present, owner, row, holder, staged, seen>>
  BY FrameStays DEF index, rows
<1>2. GithubMoves /\ ListedKeys' = ListedKeys /\ Shapes
  BY <1>1, StayingMoves DEF IInv, Shapes
<1>3. ASSUME NEW x \in Scans PROVE ScanInv(x)' /\ RowStays(x)
  <2>1. RowStays(x) /\ ScanInv(x) /\ (row[x].kind # "absent" => ListedKeys' \in seen'[x])
    BY <1>1, <1>2 DEF IInv, ScanInv, RowStays
  <2> QED BY <1>2, <2>1, ScanKept
<1>4. RowShape'
  BY <1>1, <1>2 DEF Shapes, RowShape
<1> QED BY <1>1, <1>3, <1>4, MoveKeeps

\* A claim copies the row.
LEMMA ClaimKeeps ==
  ASSUME IInv, NEW w \in Workers, NEW s \in Scans, Claim(w, s)
  PROVE  IInv'
<1> DEFINE r == [row[s] EXCEPT !.attempts =
                   IF row[s].kind = "overflow" /\ @ < RESTAfter THEN @ + 1 ELSE @]
<1>1. GithubStays /\ GithubMoves /\ ListedKeys' = ListedKeys /\ Shapes /\ RowShape /\ WorkShape
  BY FrameStays, StayingMoves DEF Claim, IInv, Shapes
<1>2. /\ UNCHANGED <<present, owner, seen, staged, page, snap>>
      /\ at[w] = "idle" /\ holder[s] = NoWorker /\ row[s].kind # "absent"
      /\ holder' = [holder EXCEPT ![s] = w] /\ at' = [at EXCEPT ![w] = "claimed"]
      /\ job' = [job EXCEPT ![w] = s] /\ copy' = [copy EXCEPT ![w] = row'[s]]
  BY DEF Claim, index, Goto, Active
<1>3. row' = [row EXCEPT ![s] = r]
  BY DEF Claim
<1>4. row[s] \in RowTypes
  BY <1>1 DEF RowShape
<1>5. r \in RowTypes /\ r.kind = row[s].kind /\ r.cursor = row[s].cursor /\ r.pass = row[s].pass
  BY <1>4, KeyScanAssumption DEF RowTypes
<1> HIDE DEF r
<1>6. row'[s] = r /\ \A x \in Scans \ {s} : RowStays(x) /\ holder'[x] = holder[x]
  BY <1>1, <1>2, <1>3 DEF RowShape, RowStays
<1>7. RowShape' /\ WorkShape'
  BY <1>1, <1>2, <1>3, <1>5, <1>6 DEF RowShape, WorkShape
<1>8. ASSUME NEW x \in Scans PROVE ScanInv(x)'
  <2>0. ScanInv(x)
    BY DEF IInv
  <2>1. CASE x = s
    <3>1. listing' = listing /\ lastId' = lastId
      BY <1>1 DEF GithubStays
    <3> QED BY <1>1, <1>2, <1>5, <1>6, <2>0, <2>1, <3>1 DEF ScanInv
  <2>2. CASE x # s
    <3>1. row[x].kind # "absent" => ListedKeys' \in seen'[x]
      BY <1>1, <1>2, <2>0 DEF ScanInv
    <3> QED BY <1>1, <1>6, <2>0, <2>2, <3>1, ScanKept
  <2> QED BY <2>1, <2>2
<1>9. OthersStay(w)
  BY <1>1, <1>2 DEF OthersStay, WorkShape
<1>10. \A x \in Scans, v \in Workers \ {w} : holder'[x] = v => holder[x] = v /\ RowStays(x)
  <2>1. holder'[s] = w
    BY <1>1, <1>2 DEF RowShape
  <2> QED BY <1>6, <2>1
<1>11. WorkInv(w)'
  <2>1. /\ at'[w] = "claimed" /\ job'[w] = s /\ copy'[w] = r /\ page'[w] = page[w]
        /\ snap'[w] = snap[w] /\ row'[s] = r
    BY <1>1, <1>2, <1>6 DEF WorkShape
  <2>2. WorkInv(w) /\ ScanInv(s) /\ lastId' = lastId
    BY <1>1 DEF IInv, GithubStays
  <2>3. Holds(w)'
    BY <1>2, <1>5, <2>1 DEF Holds
  <2> QED BY <1>2, <1>5, <2>1, <2>2, <2>3 DEF WorkInv, ScanInv
<1> QED BY <1>1, <1>2, <1>7, <1>8, <1>9, <1>10, <1>11, MoveKeeps

\* What a good claim knows of its scan.
LEMMA Good ==
  ASSUME IInv, NEW w \in Workers, at[w] # "idle", Owns(w)
  PROVE  /\ job[w] \in Scans /\ Holds(w) /\ ScanInv(job[w]) /\ row[job[w]].kind # "absent"
         /\ ListedKeys \in seen[job[w]]
  BY DEF IInv, WorkInv, Owns, Holds, ScanInv

\* A page in flight is the next part of the listing of now.
LEMMA FetchKeeps ==
  ASSUME IInv, NEW w \in Workers, FetchPage(w)
  PROVE  IInv'
<1> DEFINE p == GraphQLPage(copy[w].cursor)
<1>1. GithubShape /\ RowShape /\ WorkShape /\ WorkInv(w) /\ GithubStays
  BY FrameStays DEF FetchPage, IInv, Shapes
<1>2. copy[w] \in RowTypes /\ copy[w].cursor \in Nat /\ copy[w].cursor <= lastId
  BY <1>1 DEF WorkShape, RowTypes, WorkInv
<1>3. Answers(p, copy[w].cursor)
  BY <1>1, <1>2, PageAnswers
<1> HIDE DEF p
<1>4. /\ page' = [page EXCEPT ![w] = p] /\ at' = [at EXCEPT ![w] = "answered"]
      /\ UNCHANGED <<row, holder, staged, job, copy, snap, seen>> /\ ~gone
      /\ at[w] = "claimed" /\ listing' = listing /\ lastId' = lastId
  BY <1>1 DEF FetchPage, Goto, p, rows, GithubStays
<1>5. p \in Pages
  BY <1>3 DEF Answers
<1>6. WorkShape' /\ OthersStay(w) /\ page'[w] = p /\ at'[w] = "answered"
  BY <1>1, <1>4, <1>5 DEF WorkShape, OthersStay
<1>7. Ahead(w)'
  <2>1. ASSUME NEW k \in Keys, copy[w].cursor < listing[k], listing[k] <= p.cursor
        PROVE  k \in p.keys
    <3>1. listing[k] # 0 /\ listing[k] > copy[w].cursor
      BY <1>1, <1>2, <2>1 DEF GithubShape
    <3>2. k \in Above(copy[w].cursor)
      BY <1>4, <3>1 DEF Above, ListedKeys
    <3> QED BY <1>3, <2>1, <3>2 DEF Answers
  <2> QED BY <1>3, <1>4, <1>6, <2>1 DEF Ahead, Answers
<1>8. ASSUME Owns(w) PROVE Holds(w)'
  <2>1. /\ job[w] \in Scans /\ Holds(w) /\ ScanInv(job[w]) /\ row[job[w]].kind # "absent"
        /\ ListedKeys \in seen[job[w]]
    BY <1>4, <1>8, Good
  <2>2. copy[w] = row[job[w]]
    BY <1>4, <2>1 DEF Holds
  <2>3. ~p.more => p.keys = Above(copy[w].cursor)
    BY <1>3 DEF Answers
  <2>4. ASSUME ~p.more, NEW k \in ListedKeys
        PROVE  k \in staged[job[w]][copy[w].pass] \cup p.keys
    <3>1. k \in Keys /\ listing[k] # 0 /\ listing[k] \in Nat
      BY <1>1 DEF ListedKeys, GithubShape
    <3>2. CASE listing[k] > copy[w].cursor
      BY <2>3, <2>4, <3>2 DEF Above
    <3>3. CASE listing[k] <= copy[w].cursor
      <4>1. copy[w].kind # "account" /\ copy[w].kind \in {"absent", "account", "overflow"}
        BY <1>2, <2>1, <2>2, <3>1, <3>3 DEF ScanInv, RowTypes
      <4> QED BY <2>1, <2>2, <3>1, <3>3, <4>1 DEF ScanInv
    <3> QED BY <1>2, <3>1, <3>2, <3>3
  <2>5. copy[w].kind = "account" /\ ~p.more => p.keys = ListedKeys
    <3> SUFFICES ASSUME copy[w].kind = "account", ~p.more PROVE p.keys = ListedKeys
      OBVIOUS
    <3>1. copy[w].cursor = 0
      BY <2>1, <2>2 DEF ScanInv
    <3>2. \A k \in ListedKeys : listing[k] > 0
      BY <1>1 DEF ListedKeys, GithubShape
    <3> QED BY <2>3, <3>1, <3>2 DEF Above
  <2>6. p.total = Cardinality(ListedKeys)
    BY <1>3 DEF Answers
  <2>7. Counted(w)'
    BY <1>4, <1>6, <2>1, <2>4, <2>5, <2>6 DEF Counted
  <2> QED BY <1>4, <1>6, <2>1, <2>2, <2>7 DEF Holds
<1>9. WorkInv(w)'
  BY <1>1, <1>3, <1>4, <1>6, <1>7, <1>8 DEF WorkInv, Owns, Answers
<1> QED BY <1>6, <1>9, WalkKeeps DEF FetchPage, rows

\* A worker that turns to REST keeps its claim and drops its copy of the cursor.
LEMMA GoToRESTKeeps ==
  ASSUME IInv, NEW w \in Workers, GoToREST(w)
  PROVE  IInv'
<1>1. GithubShape /\ WorkShape /\ WorkInv(w) /\ GithubStays
  BY FrameStays DEF GoToREST, IInv, Shapes
<1>2. /\ copy' = [copy EXCEPT ![w] = Row(copy[w].kind)] /\ at' = [at EXCEPT ![w] = "rest"]
      /\ UNCHANGED <<row, holder, staged, job, page, snap, seen>>
      /\ at[w] = "claimed" /\ lastId' = lastId
  BY <1>1 DEF GoToREST, Goto, rows, GithubStays
<1>3. Row(copy[w].kind) \in RowTypes /\ Row(copy[w].kind).cursor = 0
  BY <1>1, KeyScanAssumption DEF Row, RowTypes, WorkShape, Unknown
<1>4. /\ WorkShape' /\ OthersStay(w) /\ at'[w] = "rest" /\ copy'[w] = Row(copy[w].kind)
      /\ page'[w] = page[w] /\ snap'[w] = snap[w] /\ job'[w] = job[w]
  BY <1>1, <1>2, <1>3 DEF WorkShape, OthersStay
<1>5. snap[w].keys = {}
  BY <1>1, <1>2 DEF WorkInv
<1>6. ASSUME Owns(w) PROVE Holds(w)'
  <2>1. row[job[w]].kind # "absent"
    BY <1>2, <1>6, Good
  <2> QED BY <1>2, <1>4, <1>5, <2>1 DEF Holds
<1>7. WorkInv(w)'
  BY <1>1, <1>2, <1>3, <1>4, <1>6 DEF WorkInv, Owns, GithubShape
<1> QED BY <1>4, <1>7, WalkKeeps DEF GoToREST, rows

\* An account that REST does not find lists nothing now.
LEMMA RESTMissingKeeps ==
  ASSUME IInv, NEW w \in Workers, RESTMissing(w)
  PROVE  IInv'
<1>1. WorkShape /\ WorkInv(w) /\ GithubStays
  BY FrameStays DEF RESTMissing, IInv, Shapes
<1>2. /\ at' = [at EXCEPT ![w] = "missing"] /\ gone
      /\ UNCHANGED <<row, holder, staged, job, copy, page, snap, seen>>
      /\ at[w] = "rest" /\ lastId' = lastId
  BY <1>1 DEF RESTMissing, Goto, rows, GithubStays
<1>3. WorkShape' /\ OthersStay(w) /\ at'[w] = "missing"
  BY <1>1, <1>2 DEF WorkShape, OthersStay
<1>4. ASSUME Owns(w) PROVE Holds(w)'
  <2>1. row[job[w]].kind # "absent" /\ ListedKeys \in seen[job[w]] /\ ListedKeys = {}
    BY <1>2, <1>4, Good DEF ListedKeys
  <2> QED BY <1>2, <1>3, <2>1 DEF Holds
<1>5. WorkInv(w)'
  BY <1>1, <1>2, <1>3, <1>4 DEF WorkInv, Owns
<1> QED BY <1>3, <1>5, WalkKeeps DEF RESTMissing, rows

\* A page of a REST snapshot; a snapshot of one page is the listing of now.
LEMMA RESTReadKeeps ==
  ASSUME IInv, NEW w \in Workers, RESTRead(w)
  PROVE  IInv'
<1> DEFINE x == snap[w]
           n == x.page + 1
           keys == x.keys \cup RESTPage(n)
           s1 == [x EXCEPT !.page = n, !.keys = keys]
           s2 == [NoSnap EXCEPT !.passes = 1, !.first = keys]
           s3 == [NoSnap EXCEPT !.passes = x.passes, !.keys = keys]
<1>1. GithubShape /\ WorkShape /\ WorkInv(w) /\ GithubStays
  BY FrameStays DEF RESTRead, IInv, Shapes
<1>2. /\ UNCHANGED <<row, holder, staged, job, copy, page, seen>>
      /\ at[w] = "rest" /\ lastId' = lastId
  BY <1>1 DEF RESTRead, rows, GithubStays
<1>3. x \in Snaps /\ RESTPage(n) \subseteq ListedKeys /\ ListedKeys \subseteq Keys
  BY <1>1, ListedAreFinite DEF WorkShape, RESTPage
<1>4. x.page \in Nat /\ x.passes \in {0, 1} /\ keys \in SUBSET Keys /\ n \in Nat /\ n # 0
  BY <1>3 DEF Snaps
<1>5. /\ s1 \in Snaps /\ s1.page = n /\ s1.keys = keys
      /\ s2 \in Snaps /\ s2.keys = {}
      /\ s3 \in Snaps /\ s3.keys = keys /\ s3.passes = x.passes
  BY <1>3, <1>4 DEF Snaps, NoSnap
<1>6. \/ snap' = [snap EXCEPT ![w] = s1] /\ at' = at
      \/ snap' = [snap EXCEPT ![w] = s2] /\ at' = at
      \/ /\ snap' = [snap EXCEPT ![w] = s3] /\ ~RESTHasNext(n) /\ ~(n > 1 /\ x.passes = 0)
         /\ \E a \in {"failed", "snapshot"} : at' = [at EXCEPT ![w] = a]
  BY DEF RESTRead, Goto
<1> HIDE DEF s1, s2, s3
<1>7. /\ WorkShape' /\ OthersStay(w)
      /\ \/ snap'[w] = s1 /\ at'[w] = "rest"
         \/ snap'[w] = s2 /\ at'[w] = "rest"
         \/ /\ snap'[w] = s3 /\ ~RESTHasNext(n) /\ ~(n > 1 /\ x.passes = 0)
            /\ at'[w] \in {"failed", "snapshot"}
  <2>1. CASE snap' = [snap EXCEPT ![w] = s1] /\ at' = at
    BY <1>1, <1>2, <1>5, <2>1 DEF WorkShape, OthersStay
  <2>2. CASE snap' = [snap EXCEPT ![w] = s2] /\ at' = at
    BY <1>1, <1>2, <1>5, <2>2 DEF WorkShape, OthersStay
  <2>3. CASE /\ snap' = [snap EXCEPT ![w] = s3] /\ ~RESTHasNext(n) /\ ~(n > 1 /\ x.passes = 0)
             /\ \E a \in {"failed", "snapshot"} : at' = [at EXCEPT ![w] = a]
    BY <1>1, <1>2, <1>5, <2>3 DEF WorkShape, OthersStay
  <2> QED BY <1>6, <2>1, <2>2, <2>3
<1>8. ASSUME Owns(w) PROVE Holds(w)'
  <2>1. row[job[w]].kind # "absent" /\ ListedKeys \in seen[job[w]] /\ Holds(w)
    BY <1>2, <1>8, Good
  <2>2. keys \subseteq UNION seen[job[w]]
    BY <1>2, <1>3, <2>1 DEF Holds
  <2>3. ASSUME ~RESTHasNext(n), ~(n > 1 /\ x.passes = 0), x.passes = 0
        PROVE  keys = ListedKeys
    <3>1. n = 1 /\ x.page = 0
      BY <1>4, <2>3
    <3>2. x.keys = {}
      BY <1>2, <2>1, <3>1 DEF Holds
    <3> QED BY <1>1, <2>3, <3>1, <3>2, OnePageIsAll
  <2> HIDE DEF x, keys, n
  <2>4. CASE snap'[w] = s1 /\ at'[w] = "rest"
    BY <1>2, <1>4, <1>5, <2>1, <2>2, <2>4 DEF Holds
  <2>5. CASE snap'[w] = s2 /\ at'[w] = "rest"
    BY <1>2, <1>5, <2>1, <2>5 DEF Holds
  <2>6. CASE /\ snap'[w] = s3 /\ ~RESTHasNext(n) /\ ~(n > 1 /\ x.passes = 0)
             /\ at'[w] \in {"failed", "snapshot"}
    BY <1>2, <1>5, <2>1, <2>2, <2>3, <2>6 DEF Holds
  <2> QED BY <1>7, <2>4, <2>5, <2>6
<1>9. WorkInv(w)'
  BY <1>1, <1>2, <1>7, <1>8 DEF WorkInv, Owns
<1> QED BY <1>7, <1>9, WalkKeeps DEF RESTRead, rows

-----------------------------------------------------------------------------
(* What a worker commits *)

\* A worker that has an answer, and with it a good claim.
LEMMA Committing ==
  ASSUME IInv, NEW w \in Workers, at[w] # "idle"
  PROVE  /\ job[w] \in Scans /\ copy[w] \in RowTypes /\ page[w] \in Pages /\ snap[w] \in Snaps
         /\ staged[job[w]] \in (SUBSET Keys) \X (SUBSET Keys)
         /\ page[w].cursor <= lastId
         /\ IndexShape
  BY DEF IInv, Shapes, WorkShape, RowShape, WorkInv

\* The first page of an account: the whole set, or the begin of an overflow scan.
LEMMA CommitFirstKeeps ==
  ASSUME IInv, NEW w \in Workers, CommitFirst(w)
  PROVE  IInv'
<1> DEFINE p == page[w]
           r == [NoRow EXCEPT !.cursor = p.cursor, !.expected = p.total,
                              !.observed = Cardinality(p.keys)]
           st == <<p.keys, {}>>
<1>1. GithubStays /\ at[w] = "answered" /\ copy[w].kind = "account"
  BY FrameStays DEF CommitFirst
<1>2. /\ job[w] \in Scans /\ p \in Pages /\ p.cursor <= lastId /\ IndexShape
  BY <1>1, Committing
<1>3. CASE ~Owns(w)
  BY <1>1, <1>3, RestartKeeps DEF CommitFirst
<1>4. CASE Owns(w) /\ ~p.more
  <2>1. Observe(p.keys) /\ End(w) /\ p.keys \subseteq Keys
    BY <1>2, <1>4 DEF CommitFirst, Pages
  <2> QED BY <1>1, <1>2, <2>1, ObserveShape, DoneKeeps
<1>5. CASE Owns(w) /\ p.more
  <2>1. Continue(w, r, st) /\ owner' = "known"
    BY <1>5 DEF CommitFirst
  <2>2. Holds(w) /\ ScanInv(job[w]) /\ row[job[w]].kind # "absent"
    BY <1>1, <1>5, Good
  <2>3. copy[w].cursor = 0
    BY <1>1, <2>2 DEF Holds, ScanInv
  <2>4. Ahead(w)
    BY <1>1 DEF IInv, WorkInv
  <2>5. p.keys \in SUBSET Keys /\ p.total \in Nat /\ p.cursor \in Nat /\ Cardinality(p.keys) \in Nat
    BY <1>2, ListedAreFinite DEF Pages
  <2>6. r \in RowTypes /\ r.cursor = p.cursor /\ r.pass = 1
    <3> DEFINE n == Cardinality(p.keys)
    <3>1. NoRow \in RowTypes /\ NoRow.pass = 1
      BY EmptyTyped DEF NoRow, Row
    <3>2. p.cursor \in Nat /\ p.total \in Nat /\ n \in Nat
      BY <2>5
    <3> HIDE DEF p, n
    <3>3. LET q == [NoRow EXCEPT !.cursor = p.cursor, !.expected = p.total, !.observed = n] IN
          q \in RowTypes /\ q.cursor = p.cursor /\ q.pass = 1
      BY <3>1, <3>2 DEF RowTypes
    <3> QED BY <3>3 DEF n
  <2>7. listing \in [Keys -> Nat]
    BY DEF IInv, Shapes, GithubShape
  <2>8. \A k \in Keys : listing[k] # 0 /\ listing[k] <= p.cursor => k \in p.keys
    BY <2>3, <2>4, <2>7 DEF Ahead
  <2>9. st \in (SUBSET Keys) \X (SUBSET Keys) /\ st[1] = p.keys
    BY <2>5
  <2> HIDE DEF p, r, st
  <2> QED BY <1>1, <1>2, <2>1, <2>2, <2>6, <2>8, <2>9, ContinueKeeps
<1> QED BY <1>3, <1>4, <1>5

\* The stage with a page added to pass n.
WithPage(s, n, keys) == [s EXCEPT ![n] = @ \cup keys]

\* A stage with a page is a stage.
LEMMA WithPageTyped ==
  ASSUME NEW s \in (SUBSET Keys) \X (SUBSET Keys), NEW n \in {1, 2}, NEW keys \in SUBSET Keys
  PROVE  /\ WithPage(s, n, keys) \in (SUBSET Keys) \X (SUBSET Keys)
         /\ WithPage(s, n, keys)[n] = s[n] \cup keys
<1>1. CASE n = 1
  BY <1>1 DEF WithPage
<1>2. CASE n = 2
  BY <1>2 DEF WithPage
<1> QED BY <1>1, <1>2

\* A pass that has staged as many keys as its last page counted has staged what
\* was listed when that page was requested.
LEMMA PassWasListed ==
  ASSUME IInv, NEW w \in Workers, at[w] = "answered", Owns(w), ~page[w].more,
         Cardinality(staged[job[w]][copy[w].pass] \cup page[w].keys) = page[w].total
  PROVE  staged[job[w]][copy[w].pass] \cup page[w].keys \in seen[job[w]]
<1> DEFINE S == staged[job[w]][copy[w].pass] \cup page[w].keys
<1>1. Holds(w) /\ Counted(w)
  BY Good DEF Holds
<1>2. PICK L \in seen[job[w]] : page[w].total = Cardinality(L) /\ L \subseteq S
  BY <1>1 DEF Counted
<1>3. S \subseteq Keys
  <2>1. /\ copy[w] \in RowTypes /\ page[w] \in Pages
        /\ staged[job[w]] \in (SUBSET Keys) \X (SUBSET Keys)
    BY Committing
  <2>2. copy[w].pass \in {1, 2} /\ page[w].keys \subseteq Keys
    BY <2>1 DEF RowTypes, Pages
  <2> QED BY <2>1, <2>2
<1> HIDE DEF S
<1>4. Cardinality(L) = Cardinality(S)
  BY <1>2 DEF S
<1>5. L = S
  BY <1>2, <1>3, <1>4, SmallerSet
<1> QED BY <1>2, <1>5 DEF S

\* What CommitPage makes of the stage and of the count.
PageStage(w) == WithPage(staged[job[w]], copy[w].pass, page[w].keys)
PageCount(w) == copy[w].observed + Cardinality(page[w].keys)

\* What the commit of a page may come to.
LEMMA CommitPageCases ==
  ASSUME NEW w \in Workers, CommitPage(w)
  PROVE  /\ at[w] = "answered" /\ copy[w].kind = "overflow" /\ GithubStays
         /\ \/ Owns(w) /\ RestartScan(w)
            \/ Restart
            \/ Requeue(w)
            \/ /\ Owns(w) /\ page[w].more /\ owner' = owner
               /\ Continue(w, [copy[w] EXCEPT !.cursor = page[w].cursor,
                                 !.expected = page[w].total, !.observed = PageCount(w)],
                           PageStage(w))
            \/ Owns(w) /\ ~page[w].more /\ EndPass(w, PageStage(w), page[w].total)
  BY FrameStays DEF CommitPage, PageStage, PageCount, WithPage

\* The stage with the page of the worker, and its count.
LEMMA PageStageTyped ==
  ASSUME IInv, NEW w \in Workers, at[w] # "idle"
  PROVE  /\ PageStage(w) \in (SUBSET Keys) \X (SUBSET Keys)
         /\ PageStage(w)[copy[w].pass] = staged[job[w]][copy[w].pass] \cup page[w].keys
         /\ PageCount(w) \in Nat /\ copy[w].pass \in {1, 2}
<1>1. /\ copy[w] \in RowTypes /\ page[w] \in Pages
      /\ staged[job[w]] \in (SUBSET Keys) \X (SUBSET Keys)
  BY Committing
<1>2. copy[w].pass \in {1, 2} /\ page[w].keys \in SUBSET Keys /\ copy[w].observed \in Nat
  BY <1>1 DEF RowTypes, Pages
<1>3. Cardinality(page[w].keys) \in Nat
  BY <1>2, ListedAreFinite
<1>4. PageCount(w) \in Nat
  BY <1>2, <1>3 DEF PageCount
<1> QED BY <1>1, <1>2, <1>4, WithPageTyped DEF PageStage

\* A committed page moves the cursor to its end and stages it.
LEMMA CommitPageKeeps ==
  ASSUME IInv, NEW w \in Workers, CommitPage(w)
  PROVE  IInv'
<1> DEFINE c == copy[w]
           p == page[w]
           st == PageStage(w)
           r1 == [c EXCEPT !.cursor = p.cursor, !.expected = p.total, !.observed = PageCount(w)]
           r2 == [c EXCEPT !.pass = 2, !.cursor = 0, !.observed = 0, !.expected = p.total]
<1>1. at[w] = "answered" /\ c.kind = "overflow" /\ GithubStays
  BY CommitPageCases
<1>2. job[w] \in Scans /\ c \in RowTypes /\ p \in Pages /\ p.cursor <= lastId /\ IndexShape
  BY <1>1, Committing
<1>3. /\ st \in (SUBSET Keys) \X (SUBSET Keys) /\ PageCount(w) \in Nat
      /\ st[c.pass] = staged[job[w]][c.pass] \cup p.keys /\ c.pass \in {1, 2}
  BY <1>1, PageStageTyped
<1>4. listing \in [Keys -> Nat] /\ lastId \in Nat
  BY DEF IInv, Shapes, GithubShape
<1>5. CASE Restart
  BY <1>1, <1>5, RestartKeeps
<1>6. CASE Requeue(w)
  BY <1>1, <1>6, RequeueKeeps
<1>7. ASSUME Owns(w)
      PROVE  Holds(w) /\ ScanInv(job[w]) /\ row[job[w]].kind # "absent" /\ row[job[w]] = c
  BY <1>1, <1>7, Good DEF Holds
<1>8. CASE Owns(w) /\ RestartScan(w)
  BY <1>1, <1>2, <1>7, <1>8, RestartScanKeeps
<1>9. CASE Owns(w) /\ owner' = owner /\ Continue(w, r1, st)
  <2>1. p.cursor \in Nat /\ p.total \in Nat
    BY <1>2 DEF Pages
  <2>2. r1 \in RowTypes /\ r1.cursor = p.cursor /\ r1.pass = c.pass
    BY <1>2, <1>3, <2>1 DEF RowTypes
  <2>3. Ahead(w)
    BY <1>1 DEF IInv, WorkInv
  <2>4. ASSUME NEW k \in Keys, listing[k] # 0, listing[k] <= p.cursor
        PROVE  k \in st[c.pass]
    <3>0. listing[k] \in Nat /\ c.cursor \in Nat
      BY <1>2, <1>4 DEF RowTypes
    <3>1. CASE listing[k] <= c.cursor
      BY <1>1, <1>3, <1>7, <1>9, <2>4, <3>1 DEF ScanInv
    <3>2. CASE c.cursor < listing[k]
      BY <1>3, <2>3, <2>4, <3>2 DEF Ahead
    <3> QED BY <3>0, <3>1, <3>2
  <2> HIDE DEF c, p, st, r1
  <2> QED BY <1>1, <1>2, <1>3, <1>7, <1>9, <2>2, <2>4, ContinueKeeps
<1>10. CASE Owns(w) /\ EndPass(w, st, p.total)
  <2>1. CASE RestartScan(w)
    BY <1>1, <1>2, <1>7, <1>10, <2>1, RestartScanKeeps
  <2>2. CASE Continue(w, r2, st) /\ owner' = owner
    <3>1. r2 \in RowTypes /\ r2.cursor = 0
      BY <1>2 DEF RowTypes, Pages
    <3>2. \A k \in Keys : ~(listing[k] # 0 /\ listing[k] <= 0)
      BY <1>4
    <3> HIDE DEF r2, st
    <3> QED BY <1>1, <1>2, <1>3, <1>4, <1>7, <1>10, <2>2, <3>1, <3>2, ContinueKeeps
  <2>3. CASE Observe(st[2]) /\ End(w)
    <3>1. st[2] \subseteq Keys
      BY <1>3
    <3> QED BY <1>1, <1>2, <2>3, <3>1, ObserveShape, DoneKeeps
  <2> QED BY <1>10, <2>1, <2>2, <2>3 DEF EndPass
<1> HIDE DEF c, p, st
<1> QED BY <1>5, <1>6, <1>8, <1>9, <1>10, CommitPageCases DEF c, p, st

\* A REST answer that is committed ends the scan, or the row is given back.
LEMMA CommitRESTKeeps ==
  ASSUME IInv, NEW w \in Workers, CommitSnapshot(w) \/ CommitMissing(w)
  PROVE  IInv'
<1>1. GithubStays /\ at[w] # "idle"
  BY FrameStays DEF CommitSnapshot, CommitMissing
<1>2. job[w] \in Scans /\ snap[w] \in Snaps /\ IndexShape
  BY <1>1, Committing
<1>3. CASE Restart
  BY <1>1, <1>3, RestartKeeps
<1>4. CASE RequeueOrFail(w)
  BY <1>1, <1>4, RequeueOrFailKeeps
<1>5. CASE Observe(snap[w].keys) /\ End(w)
  <2>1. snap[w].keys \subseteq Keys
    BY <1>2 DEF Snaps
  <2> QED BY <1>1, <1>2, <1>5, <2>1, ObserveShape, DoneKeeps
<1>6. CASE present' = {} /\ owner' = (IF owner = "none" THEN "none" ELSE "inaccessible") /\ End(w)
  <2>1. IndexShape'
    BY <1>6 DEF IndexShape
  <2> QED BY <1>1, <1>2, <1>6, <2>1, DoneKeeps
<1> QED BY <1>3, <1>4, <1>5, <1>6 DEF CommitSnapshot, CommitMissing

-----------------------------------------------------------------------------
(* Every step *)

\* The invariant holds before the first scan.
LEMMA InitIsInv == Init => IInv
<1> SUFFICES ASSUME Init PROVE IInv
  OBVIOUS
<1> DEFINE ids == {InitialListing[k] : k \in Keys} \cup {0}
<1>1. ids \subseteq Nat /\ ids # {} /\ \A k \in Keys : InitialListing[k] \in ids
  BY KeyScanAssumption
<1>2. IsFiniteSet(ids)
  <2> DEFINE image == {InitialListing[k] : k \in Keys}
  <2>1. InitialListing \in Surjection(Keys, image)
    BY KeyScanAssumption DEF Surjection
  <2>2. IsFiniteSet(image)
    <3> HIDE DEF image
    <3> QED BY <2>1, KeyScanAssumption, FS_Surjection
  <2> QED BY <2>2, FS_AddElement
<1>3. Max(ids) \in Nat /\ \A i \in ids : i <= Max(ids)
  <2> HIDE DEF ids
  <2> QED BY <1>1, <1>2, MaxIsGreatest
<1>4. lastId = Max(ids)
  BY DEF Init
<1> HIDE DEF ids
<1>5. GithubShape
  BY <1>1, <1>3, <1>4, KeyScanAssumption DEF Init, GithubShape
<1>6. NoRow \in RowTypes /\ NoPage \in Pages /\ NoSnap \in Snaps
  BY EmptyTyped
<1>7. IndexShape /\ RowShape /\ WorkShape
  BY <1>6 DEF Init, IndexShape, RowShape, WorkShape
<1>8. /\ NoRow.cursor = 0 /\ NoRow.kind = "absent" /\ NoPage.cursor = 0 /\ NoSnap.keys = {}
      /\ lastId \in Nat
  BY <1>5 DEF NoRow, Row, NoPage, NoSnap, GithubShape
<1>9. \A s \in Scans : ScanInv(s)
  BY <1>8 DEF Init, ScanInv
<1>10. \A w \in Workers : WorkInv(w)
  BY <1>8 DEF Init, WorkInv
<1> QED BY <1>5, <1>7, <1>9, <1>10 DEF IInv, Shapes

\* The steps of a worker with a row.
LEMMA WorkerKeeps ==
  ASSUME IInv, NEW w \in Workers,
         FetchPage(w) \/ FetchFails(w) \/ GoToREST(w) \/ Commit(w) \/ RESTStep(w)
  PROVE  IInv'
<1>1. CASE FetchFails(w) \/ RESTFails(w)
  <2>1. GithubStays /\ at[w] # "idle" /\ (Requeue(w) \/ RequeueOrFail(w))
    BY <1>1, FrameStays DEF FetchFails, RESTFails
  <2> QED BY <2>1, RequeueKeeps, RequeueOrFailKeeps
<1>2. CASE FetchPage(w) \/ GoToREST(w) \/ RESTRead(w) \/ RESTMissing(w)
  BY <1>2, FetchKeeps, GoToRESTKeeps, RESTReadKeeps, RESTMissingKeeps
<1>3. CASE Commit(w)
  BY <1>3, CommitFirstKeeps, CommitPageKeeps, CommitRESTKeeps DEF Commit
<1> QED BY <1>1, <1>2, <1>3 DEF RESTStep

\* Every step keeps the invariant.
LEMMA StepKeeps == IInv /\ [Next]_vars => IInv'
<1> SUFFICES ASSUME IInv, [Next]_vars PROVE IInv'
  OBVIOUS
<1>1. CASE UNCHANGED vars
  <2>1. UNCHANGED <<listing, lastId, gone, present, owner, row, holder, staged>>
        /\ UNCHANGED <<at, job, copy, page, snap, seen>>
    BY <1>1 DEF vars, github, index, rows, work
  <2>2. Shapes'
    BY <2>1 DEF IInv, Shapes, GithubShape, IndexShape, RowShape, WorkShape
  <2>3. \A s \in Scans : ScanInv(s)'
    BY <2>1 DEF IInv, ScanInv, ListedKeys
  <2>4. GithubMoves
    BY <2>1, StayingMoves DEF IInv, Shapes, GithubStays
  <2>5. ASSUME NEW w \in Workers PROVE WorkInv(w)'
    <3>1. WorkInv(w) /\ Shapes
      BY DEF IInv
    <3>2. WorkerStays(w)
      BY <2>1 DEF WorkerStays, RowStays
    <3> QED BY <2>4, <3>1, <3>2, WorkerKept
  <2> QED BY <2>2, <2>3, <2>5 DEF IInv
<1>2. CASE \E k \in Keys : AddKey(k) \/ RemoveKey(k)
  BY <1>2, GithubKeeps
<1>3. CASE ChangeAccess
  BY <1>3, AccessKeeps
<1>4. CASE \E s \in Scans : Enqueue(s) \/ ReapExpiredLeases(s)
  BY <1>4, EnqueueKeeps, ReapKeeps
<1>5. CASE \E w \in Workers : \E s \in Scans : Claim(w, s)
  BY <1>5, ClaimKeeps
<1>6. CASE \E w \in Workers : FetchPage(w) \/ FetchFails(w) \/ GoToREST(w)
                              \/ Commit(w) \/ RESTStep(w)
  BY <1>6, WorkerKeeps
<1>7. CASE Crash
  BY <1>7, RestartKeeps DEF Crash, GithubStays, github
<1> QED BY <1>1, <1>2, <1>3, <1>4, <1>5, <1>6, <1>7 DEF Next

\* The invariant holds always.
LEMMA AlwaysInv == Spec => []IInv
BY InitIsInv, StepKeeps, PTL DEF Spec

-----------------------------------------------------------------------------
(* The results *)

\* TypeOK: every variable of a scan, its workers and the index has its type, and
\* an account that is not known or inaccessible shows no keys.
THEOREM TypeCorrect == Spec => []TypeOK
<1>1. IInv => TypeOK
  BY DEF IInv, Shapes, GithubShape, IndexShape, RowShape, WorkShape, TypeOK
<1> QED BY <1>1, AlwaysInv, PTL

\* PassCoversItsPrefix: no retry, stale claim or restart makes a pass skip a page.
THEOREM PrefixIsStaged == Spec => []PassCoversItsPrefix
<1>1. IInv => PassCoversItsPrefix
  BY DEF IInv, ScanInv, PassCoversItsPrefix, ListedKeys
<1> QED BY <1>1, AlwaysInv, PTL

\* What a commit shows was listed while the scan was under way.
ShowsListed(w) ==
  /\ job[w] # NoScan /\ row[job[w]] # NoRow /\ row'[job[w]] = NoRow
  /\ \/ present' \in seen[job[w]]
     \/ snap[w].passes = 1 /\ present' \subseteq UNION seen[job[w]]

\* A good claim whose scan ends with such a set.
LEMMA EndShows ==
  ASSUME IInv, NEW w \in Workers, at[w] # "idle", Owns(w), End(w),
         present' \in seen[job[w]] \/ (snap[w].passes = 1 /\ present' \subseteq UNION seen[job[w]])
  PROVE  ShowsListed(w)
<1>1. job[w] \in Scans /\ row[job[w]].kind # "absent"
  BY Good
<1>2. job[w] # NoScan /\ row[job[w]] # NoRow
  BY <1>1, KeyScanAssumption DEF NoRow, Row
<1>3. row'[job[w]] = NoRow
  BY <1>1 DEF End, IInv, Shapes, RowShape
<1> QED BY <1>2, <1>3 DEF ShowsListed

\* A commit that changes the index shows a set that was listed.
LEMMA CommitShows ==
  ASSUME IInv, NEW w \in Workers, Commit(w), present' # present
  PROVE  ShowsListed(w)
<1>1. at[w] # "idle"
  BY DEF Commit, CommitFirst, CommitPage, CommitSnapshot, CommitMissing
<1>2. ~Restart /\ ~Requeue(w) /\ ~RequeueOrFail(w) /\ ~RestartScan(w)
      /\ \A r, st : ~Continue(w, r, st)
  BY DEF Restart, Requeue, RequeueOrFail, RestartScan, Continue, index
<1>3. CASE CommitFirst(w)
  <2>1. /\ at[w] = "answered" /\ copy[w].kind = "account" /\ Owns(w) /\ ~page[w].more
        /\ present' = page[w].keys /\ End(w)
    BY <1>2, <1>3 DEF CommitFirst, Observe
  <2>2. page[w].keys \in seen[job[w]]
    BY <2>1, Good DEF Holds, Counted
  <2> QED BY <1>1, <2>1, <2>2, EndShows
<1>4. CASE CommitPage(w)
  <2>1. /\ at[w] = "answered" /\ Owns(w) /\ ~page[w].more
        /\ EndPass(w, PageStage(w), page[w].total)
    BY <1>2, <1>4, CommitPageCases
  <2>2. /\ Cardinality(PageStage(w)[copy[w].pass]) = page[w].total /\ copy[w].pass # 1
        /\ Observe(PageStage(w)[2]) /\ End(w)
    BY <1>2, <2>1 DEF EndPass
  <2>3. /\ PageStage(w)[copy[w].pass] = staged[job[w]][copy[w].pass] \cup page[w].keys
        /\ copy[w].pass = 2
    BY <1>1, <2>2, PageStageTyped
  <2>4. PageStage(w)[2] \in seen[job[w]]
    BY <2>1, <2>2, <2>3, PassWasListed
  <2>5. present' = PageStage(w)[2]
    BY <2>2 DEF Observe
  <2> QED BY <1>1, <2>1, <2>2, <2>4, <2>5, EndShows
<1>5. CASE CommitSnapshot(w)
  <2>1. at[w] = "snapshot" /\ Owns(w) /\ present' = snap[w].keys /\ End(w)
    BY <1>2, <1>5 DEF CommitSnapshot, Observe
  <2>2. Holds(w) /\ snap[w].passes \in {0, 1}
    BY <1>1, <2>1, Good, Committing DEF Snaps
  <2>3. present' \in seen[job[w]] \/ (snap[w].passes = 1 /\ present' \subseteq UNION seen[job[w]])
    BY <2>1, <2>2 DEF Holds
  <2> QED BY <1>1, <2>1, <2>3, EndShows
<1>6. CASE CommitMissing(w)
  <2>1. at[w] = "missing" /\ Owns(w) /\ present' = {} /\ End(w)
    BY <1>2, <1>6 DEF CommitMissing
  <2>2. {} \in seen[job[w]]
    BY <2>1, Good DEF Holds
  <2> QED BY <1>1, <2>1, <2>2, EndShows
<1> QED BY <1>3, <1>4, <1>5, <1>6 DEF Commit

\* IndexedSetWasListed: the index shows only sets of keys that GitHub listed at one
\* moment of the scan, apart from REST snapshots of several pages.
THEOREM IndexIsListed == Spec => IndexedSetWasListed
<1> DEFINE Listed == present' # present => \E w \in Workers : ShowsListed(w)
<1>1. ASSUME IInv, [Next]_vars PROVE [Listed]_vars
  <2>1. CASE UNCHANGED vars
    BY <2>1
  <2>2. CASE \E w \in Workers : Commit(w)
    BY <1>1, <2>2, CommitShows
  <2>3. CASE \/ \E k \in Keys : AddKey(k) \/ RemoveKey(k)
             \/ ChangeAccess \/ Crash
             \/ \E s \in Scans : Enqueue(s) \/ ReapExpiredLeases(s)
    BY <2>3 DEF AddKey, RemoveKey, ChangeAccess, Changed, Crash, Restart, Enqueue,
                ReapExpiredLeases, index
  <2>4. CASE \E w \in Workers : \/ \E s \in Scans : Claim(w, s)
                                \/ FetchPage(w) \/ FetchFails(w) \/ GoToREST(w) \/ RESTStep(w)
    BY <2>4 DEF Claim, FetchPage, FetchFails, GoToREST, RESTStep, RESTRead, RESTMissing, RESTFails,
                RequeueOrFail, Requeue, Restart, index
  <2> QED BY <1>1, <2>1, <2>2, <2>3, <2>4 DEF Next
<1> QED BY <1>1, AlwaysInv, PTL DEF Spec, IndexedSetWasListed, ShowsListed

=============================================================================
