-------------------------- MODULE FreshnessProofs ---------------------------
(***************************************************************************)
(* Theorems about Freshness: no account is missed between the tail and the *)
(* runs, no owner is in the list of zero-key rechecks, and the types.      *)
(***************************************************************************)
EXTENDS Freshness, FiniteSetTheorems, TLAPS

USE FreshnessAssumption

TailStates == [phase : {"start", "first", "double", "bisect", "loop", "apply"}, low : Nat,
               high : Nat, page : SUBSET Ids, last : Nat, more : BOOLEAN]

\* The search for the end of the ids keeps its lower bound below the last id,
\* and a page in flight holds all accounts up to its last id.
SearchInv ==
  /\ tail.phase \in {"start", "first"} => tail.low = 0 /\ tail.high = 0
  /\ tail.phase = "double" => tail.low < tail.high /\ tail.low < lastId
  /\ tail.phase = "bisect" => \/ tail.low = 0 /\ tail.high = 0
                              \/ tail.low < tail.high /\ tail.low < lastId
  /\ tail.phase \in {"loop", "apply"} => initialized
  /\ tail.phase = "apply" =>
       /\ highwater <= tail.last /\ tail.last <= lastId
       /\ \A a \in Users : highwater < a /\ a <= tail.last /\ a \notin hidden => a \in tail.page

\* What NoAccountIsMissed needs to be kept.
TailInv ==
  /\ lastId \in Ids /\ content \in [Ids -> Contents]
  /\ highwater \in Nat /\ highwater <= lastId
  /\ tail \in TailStates
  /\ \A a \in Ids : content[a] = Gone => a \in hidden
  /\ SearchInv
  /\ NoAccountIsMissed

-----------------------------------------------------------------------------
(* Pages *)

\* The listed accounts are finitely many ids up to the last one.
LEMMA ListedFinite ==
  ASSUME TailInv
  PROVE  IsFiniteSet(Listed) /\ Listed \subseteq 1 .. lastId /\ 1 .. lastId \subseteq Ids
<1>1. lastId \in Nat /\ MaxId \in Nat /\ lastId <= MaxId
  BY DEF TailInv, Ids
<1>2. IsFiniteSet(1 .. lastId)
  BY <1>1, FS_Interval
<1>3. Listed \subseteq 1 .. lastId
  BY DEF Listed
<1>4. IsFiniteSet(Listed)
  BY <1>2, <1>3, FS_Subset
<1>5. 1 .. lastId \subseteq Ids
  BY <1>1 DEF Ids
<1> QED BY <1>3, <1>4, <1>5

\* A user that was never gone is listed.
LEMMA SeenIsListed ==
  ASSUME TailInv, NEW a \in Users, a <= lastId, a \notin hidden
  PROVE  a \in Listed
BY DEF TailInv, Listed, Users, Ids

\* A page has no gap: what is listed between its start and its last is in it.
LEMMA PageHasNoGap ==
  ASSUME TailInv, NEW a \in Listed, NEW last \in Page(highwater), highwater < a, a <= last
  PROVE  a \in Page(highwater)
<1> DEFINE Before(x) == {b \in Listed : highwater < b /\ b < x}
<1>1. last \in Listed /\ Cardinality(Before(last)) < PageSize
  BY DEF Page
<1>2. IsFiniteSet(Before(last))
  BY ListedFinite, FS_Subset
<1>3. a \in Int /\ last \in Int /\ highwater \in Int /\ Listed \subseteq Int
  BY <1>1, ListedFinite DEF TailInv
<1>4. Before(a) \subseteq Before(last)
  <2>1. ASSUME NEW b \in Listed, b < a PROVE b < last
    <3>1. b \in Int
      BY <1>3
    <3> QED BY <1>3, <2>1, <3>1
  <2> QED BY <2>1
<1>5. /\ IsFiniteSet(Before(a)) /\ Cardinality(Before(a)) <= Cardinality(Before(last))
  BY <1>2, <1>4, FS_Subset
<1>6. Cardinality(Before(a)) \in Nat /\ Cardinality(Before(last)) \in Nat
  BY <1>2, <1>5, FS_CardinalityType
<1>7. Cardinality(Before(a)) < PageSize
  BY <1>1, <1>5, <1>6
<1> QED BY <1>7 DEF Page

\* There is more after an id only below the last one.
LEMMA MoreIsBelow ==
  ASSUME TailInv, NEW n \in Nat, MoreAfter(n)
  PROVE  n < lastId
<1>1. PICK a \in Listed : a > n
  BY DEF MoreAfter
<1>2. a \in 1 .. lastId /\ lastId \in Nat
  BY ListedFinite DEF TailInv, Ids
<1> QED BY <1>1, <1>2

-----------------------------------------------------------------------------
(* Steps *)

\* Every step keeps the invariant of the tail.
LEMMA TailInvStep == TailInv /\ [Next]_vars => TailInv'
<1> SUFFICES ASSUME TailInv, [Next]_vars PROVE TailInv'
  OBVIOUS
<1> USE DEF github, tailState, Probing, TailFrame, JobFrame
<1>0. /\ lastId \in Ids /\ lastId \in Nat /\ content \in [Ids -> Contents]
      /\ highwater \in Nat /\ highwater <= lastId /\ tail \in TailStates
      /\ \A a \in Ids : content[a] = Gone => a \in hidden
      /\ SearchInv /\ NoAccountIsMissed
      /\ Users \subseteq Ids /\ Ids \subseteq Nat
  BY DEF TailInv, Users, Ids
<1>1. CASE CreateAccount
  <2>1. lastId' \in Ids /\ lastId' = lastId + 1 /\ lastId' \in Nat
    BY <1>0, <1>1 DEF CreateAccount, Ids
  <2>2. UNCHANGED <<content, highwater, tail, hidden, initialized, found, left>>
    BY <1>1 DEF CreateAccount
  <2>3. SearchInv'
    BY <1>0, <2>1, <2>2 DEF SearchInv, TailStates
  <2>4. NoAccountIsMissed'
    BY <1>0, <2>1, <2>2 DEF NoAccountIsMissed
  <2> QED BY <1>0, <2>1, <2>2, <2>3, <2>4 DEF TailInv
<1>2. ASSUME NEW a \in Users, ChangeAccount(a) PROVE TailInv'
  <2>1. PICK c \in Contents : /\ content' = [content EXCEPT ![a] = c]
                              /\ hidden' = IF c = Gone THEN hidden \cup {a} ELSE hidden
    BY <1>2 DEF ChangeAccount
  <2>2. hidden \subseteq hidden' /\ content' \in [Ids -> Contents]
        /\ \A b \in Ids : content'[b] = Gone => b \in hidden'
    BY <1>0, <2>1
  <2>3. UNCHANGED <<lastId, highwater, tail, initialized, found, left>>
    BY <1>2 DEF ChangeAccount
  <2>4. SearchInv'
    BY <1>0, <2>2, <2>3 DEF SearchInv
  <2>5. NoAccountIsMissed'
    BY <1>0, <2>2, <2>3 DEF NoAccountIsMissed
  <2> QED BY <1>0, <2>2, <2>3, <2>4, <2>5 DEF TailInv
<1>3. ASSUME tail' \in TailStates, SearchInv',
             UNCHANGED <<lastId, content, hidden, highwater, initialized, found, left>>
      PROVE  TailInv'
  BY <1>0, <1>3 DEF TailInv, NoAccountIsMissed
<1>4. CASE StartTail
  <2>1. /\ tail' = [tail EXCEPT !.phase = IF initialized THEN "loop" ELSE "first"]
        /\ tail.phase = "start"
        /\ UNCHANGED <<lastId, content, hidden, highwater, initialized, found, left>>
    BY <1>4 DEF StartTail
  <2>2. tail' \in TailStates
    BY <1>0, <2>1 DEF TailStates
  <2>3. SearchInv'
    BY <1>0, <2>1 DEF SearchInv, TailStates
  <2> QED BY <1>3, <2>1, <2>2, <2>3
<1>5. CASE ProbeFirst
  <2>1. /\ UNCHANGED <<lastId, content, hidden, highwater, initialized, found, left>>
        /\ tail.phase = "first"
    BY <1>5 DEF ProbeFirst
  <2>2. CASE MoreAfter(0)
    <3>1. tail' = [tail EXCEPT !.phase = "double", !.high = 1]
      BY <1>5, <2>2 DEF ProbeFirst
    <3>2. 0 < lastId
      BY <2>2, MoreIsBelow
    <3>3. tail' \in TailStates
      BY <1>0, <3>1 DEF TailStates
    <3>4. SearchInv'
      BY <1>0, <2>1, <3>1, <3>2 DEF SearchInv, TailStates
    <3> QED BY <1>3, <2>1, <3>3, <3>4
  <2>3. CASE ~MoreAfter(0)
    <3>1. tail' = [tail EXCEPT !.phase = "bisect"]
      BY <1>5, <2>3 DEF ProbeFirst
    <3>2. tail' \in TailStates
      BY <1>0, <3>1 DEF TailStates
    <3>3. SearchInv'
      BY <1>0, <2>1, <3>1 DEF SearchInv, TailStates
    <3> QED BY <1>3, <2>1, <3>2, <3>3
  <2> QED BY <2>2, <2>3
<1>6. CASE ProbeDouble
  <2>1. /\ UNCHANGED <<lastId, content, hidden, highwater, initialized, found, left>>
        /\ tail.phase = "double" /\ tail.low < tail.high /\ tail.low < lastId
    BY <1>0, <1>6 DEF ProbeDouble, SearchInv
  <2>2. tail.low \in Nat /\ tail.high \in Nat
    BY <1>0 DEF TailStates
  <2>3. CASE MoreAfter(tail.high)
    <3>1. tail' = [tail EXCEPT !.low = tail.high, !.high = 2 * tail.high]
      BY <1>6, <2>3 DEF ProbeDouble
    <3>2. tail.high < lastId /\ 2 * tail.high \in Nat /\ tail.high < 2 * tail.high
      BY <2>1, <2>2, <2>3, MoreIsBelow
    <3>3. tail' \in TailStates /\ tail'.low = tail.high /\ tail'.high = 2 * tail.high
          /\ tail'.phase = "double"
      BY <1>0, <2>1, <2>2, <3>1, <3>2 DEF TailStates
    <3>4. SearchInv'
      BY <2>1, <3>2, <3>3 DEF SearchInv
    <3> QED BY <1>3, <2>1, <3>3, <3>4
  <2>4. CASE ~MoreAfter(tail.high)
    <3>1. tail' = [tail EXCEPT !.phase = "bisect"]
      BY <1>6, <2>4 DEF ProbeDouble
    <3>2. tail' \in TailStates
      BY <1>0, <3>1 DEF TailStates
    <3>3. SearchInv'
      BY <1>0, <2>1, <3>1 DEF SearchInv, TailStates
    <3> QED BY <1>3, <2>1, <3>2, <3>3
  <2> QED BY <2>3, <2>4
<1>7. CASE ProbeMiddle
  <2> DEFINE middle == tail.low + (tail.high - tail.low) \div 2
  <2>1. /\ UNCHANGED <<lastId, content, hidden, highwater, initialized, found, left>>
        /\ tail.phase = "bisect" /\ tail.high - tail.low > 1
    BY <1>7 DEF ProbeMiddle
  <2>2. tail.low \in Nat /\ tail.high \in Nat
    BY <1>0 DEF TailStates
  <2>3. tail.low < lastId
    BY <1>0, <2>1, <2>2 DEF SearchInv
  <2>4. middle \in Nat /\ tail.low < middle /\ middle < tail.high
    BY <2>1, <2>2
  <2>5. tail' = IF MoreAfter(middle) THEN [tail EXCEPT !.low = middle]
                ELSE [tail EXCEPT !.high = middle]
    BY <1>7 DEF ProbeMiddle
  <2>6. MoreAfter(middle) => middle < lastId
    BY <2>4, MoreIsBelow
  <2> HIDE DEF middle
  <2>7. CASE MoreAfter(middle)
    <3>1. tail' \in TailStates /\ tail'.phase = "bisect" /\ tail'.low = middle
          /\ tail'.high = tail.high
      BY <1>0, <2>1, <2>4, <2>5, <2>7 DEF TailStates
    <3>2. SearchInv'
      BY <2>1, <2>4, <2>6, <2>7, <3>1 DEF SearchInv
    <3> QED BY <1>3, <2>1, <3>1, <3>2
  <2>8. CASE ~MoreAfter(middle)
    <3>1. tail' \in TailStates /\ tail'.phase = "bisect" /\ tail'.low = tail.low
          /\ tail'.high = middle
      BY <1>0, <2>1, <2>4, <2>5, <2>8 DEF TailStates
    <3>2. SearchInv'
      BY <2>1, <2>3, <2>4, <3>1 DEF SearchInv
    <3> QED BY <1>3, <2>1, <3>1, <3>2
  <2> QED BY <2>7, <2>8
<1>8. CASE InitializeLiveTail
  <2>1. /\ tail.phase = "bisect" /\ tail.high - tail.low <= 1
        /\ initialized' = TRUE /\ highwater' = tail.high /\ left' = 1 .. tail.high
        /\ tail' = [AtStart EXCEPT !.phase = "loop"]
        /\ UNCHANGED <<lastId, content, hidden, found>>
    BY <1>8 DEF InitializeLiveTail
  <2>2. tail.low \in Nat /\ tail.high \in Nat
    BY <1>0 DEF TailStates
  <2>3. tail.high <= lastId
    BY <1>0, <2>1, <2>2 DEF SearchInv
  <2>4. tail' \in TailStates /\ tail'.phase = "loop"
    BY <2>1 DEF AtStart, TailStates
  <2>5. SearchInv'
    BY <2>1, <2>4 DEF SearchInv
  <2>6. NoAccountIsMissed'
    <3>1. \A a \in Users : a \in 1 .. tail.high \/ a > tail.high
      BY <2>2 DEF Users, Ids
    <3> QED BY <2>1, <3>1 DEF NoAccountIsMissed
  <2> QED BY <1>0, <2>1, <2>2, <2>3, <2>4, <2>5, <2>6 DEF TailInv
<1>9. CASE FetchTailPage
  <2>1. /\ UNCHANGED <<lastId, content, hidden, highwater, initialized, found, left>>
        /\ tail.phase = "loop" /\ initialized
    BY <1>0, <1>9 DEF FetchTailPage, SearchInv
  <2>2. PICK last \in Ids \cup {highwater} :
          /\ IsLast(last, Page(highwater))
          /\ tail' = [tail EXCEPT !.phase = "apply", !.page = Page(highwater), !.last = last,
                                  !.more = MoreAfter(last)]
    BY <1>9 DEF FetchTailPage
  <2>3. Page(highwater) \subseteq Listed /\ Listed \subseteq 1 .. lastId /\ Page(highwater) \subseteq Ids
    BY ListedFinite DEF Page
  <2>4. last \in Nat /\ highwater <= last /\ last <= lastId
    BY <1>0, <2>2, <2>3 DEF IsLast
  <2>5. ASSUME NEW a \in Users, highwater < a, a <= last, a \notin hidden
        PROVE  a \in Page(highwater)
    <3>1. a \in Nat /\ a <= lastId
      BY <1>0, <2>4, <2>5
    <3>2. a \in Listed
      BY <2>5, <3>1, SeenIsListed
    <3>3. last \in Page(highwater)
      BY <1>0, <2>2, <2>4, <2>5, <3>1 DEF IsLast
    <3> QED BY <2>5, <3>2, <3>3, PageHasNoGap
  <2>6. MoreAfter(last) \in BOOLEAN
    BY DEF MoreAfter
  <2>7. /\ tail' \in TailStates /\ tail'.phase = "apply" /\ tail'.last = last
        /\ tail'.page = Page(highwater)
    BY <1>0, <2>2, <2>3, <2>4, <2>6 DEF TailStates
  <2>8. SearchInv'
    BY <2>1, <2>4, <2>5, <2>7 DEF SearchInv
  <2> QED BY <1>3, <2>1, <2>7, <2>8
<1>10. CASE ApplyTailPage
  <2>1. /\ tail.phase = "apply" /\ found' = found \cup (tail.page \cap Users)
        /\ highwater' = tail.last /\ tail' = [AtStart EXCEPT !.phase = "loop"]
        /\ UNCHANGED <<lastId, content, hidden, initialized, left>>
    BY <1>10 DEF ApplyTailPage
  <2>2. /\ highwater <= tail.last /\ tail.last <= lastId /\ tail.last \in Nat /\ initialized
        /\ \A a \in Users : highwater < a /\ a <= tail.last /\ a \notin hidden => a \in tail.page
    BY <1>0, <2>1 DEF SearchInv, TailStates
  <2>3. tail' \in TailStates /\ tail'.phase = "loop"
    BY <2>1 DEF AtStart, TailStates
  <2>4. SearchInv'
    BY <2>1, <2>2, <2>3 DEF SearchInv
  <2>5. NoAccountIsMissed'
    <3> SUFFICES ASSUME NEW a \in Users, a <= lastId, a \notin hidden
                 PROVE  a \in found' \cup left \/ a > tail.last
      BY <2>1 DEF NoAccountIsMissed
    <3>1. a \in Nat
      BY <1>0
    <3>2. a \in found \cup left \/ a > highwater
      BY <1>0, <2>2 DEF NoAccountIsMissed
    <3> QED BY <1>0, <2>1, <2>2, <3>1, <3>2
  <2> QED BY <1>0, <2>1, <2>2, <2>3, <2>4, <2>5 DEF TailInv
<1>11. ASSUME NEW a \in Ids, MainDiscovers(a) PROVE TailInv'
  <2>1. /\ left' = left \ {a} /\ found' = found \cup ({a} \cap Listed \cap Users)
        /\ UNCHANGED <<lastId, content, hidden, highwater, initialized, tail>>
    BY <1>11 DEF MainDiscovers
  <2>2. SearchInv'
    BY <1>0, <2>1 DEF SearchInv
  <2>3. \A b \in Users : b <= lastId /\ b \notin hidden => b \in Listed
    BY SeenIsListed
  <2>4. NoAccountIsMissed'
    BY <1>0, <2>1, <2>3 DEF NoAccountIsMissed
  <2> QED BY <1>0, <2>1, <2>2, <2>4 DEF TailInv
<1>12. CASE NextRun
  <2>1. /\ left' = 1 .. highwater
        /\ UNCHANGED <<lastId, content, hidden, highwater, initialized, tail, found>>
    BY <1>12 DEF NextRun
  <2>2. SearchInv'
    BY <1>0, <2>1 DEF SearchInv
  <2>3. \A b \in Users : b \in 1 .. highwater \/ b > highwater
    BY <1>0 DEF Users, Ids
  <2>4. NoAccountIsMissed'
    BY <2>1, <2>3 DEF NoAccountIsMissed
  <2> QED BY <1>0, <2>1, <2>2, <2>4 DEF TailInv
<1>13. CASE Crash
  <2>1. /\ tail' = AtStart
        /\ UNCHANGED <<lastId, content, hidden, highwater, initialized, found, left>>
    BY <1>13 DEF Crash
  <2>2. tail' \in TailStates /\ SearchInv'
    BY <2>1 DEF AtStart, TailStates, SearchInv
  <2> QED BY <1>3, <2>1, <2>2
<1>14. CASE UNCHANGED <<lastId, content, hidden, highwater, initialized, found, left, tail>>
  <2>1. SearchInv'
    BY <1>0, <1>14 DEF SearchInv
  <2> QED BY <1>0, <1>3, <1>14, <2>1
<1>15. ASSUME \/ \E a \in Users : OwnerFallsDue(a) \/ RecheckFallsDue(a)
              \/ EnqueueDueOwners \/ EnqueueDueZeroKeyRechecks
              \/ \E s \in Sources, a \in Users :
                   Fetch(s, a) \/ Complete(s, a) \/ RequeueAccount(s, a)
              \/ UNCHANGED vars
       PROVE  TailInv'
  BY <1>14, <1>15 DEF OwnerFallsDue, RecheckFallsDue, EnqueueDueOwners, EnqueueDueZeroKeyRechecks,
                      Fetch, Complete, CompleteAccount, CompleteInaccessible, RequeueAccount, vars
<1> QED BY <1>1, <1>2, <1>4, <1>5, <1>6, <1>7, <1>8, <1>9, <1>10, <1>11, <1>12, <1>13, <1>15
        DEF Next, TailStep

\* The tail has not started: nothing is followed and nothing is behind it.
LEMMA TailInvInit == Init => TailInv
<1> SUFFICES ASSUME Init PROVE TailInv
  OBVIOUS
<1>1. lastId \in Ids /\ highwater = 0 /\ tail = AtStart /\ initialized = FALSE
  BY DEF Init
<1>2. content \in [Ids -> KeySets]
  BY DEF Init
<1>4. content \in [Ids -> Contents] /\ \A a \in Ids : content[a] # Gone
  BY <1>2 DEF Contents
<1>5. tail \in TailStates /\ SearchInv
  BY <1>1 DEF AtStart, TailStates, SearchInv
<1>6. NoAccountIsMissed
  BY <1>1 DEF NoAccountIsMissed
<1> QED BY <1>1, <1>4, <1>5, <1>6 DEF TailInv, Ids

\* NoAccountIsMissed: for any page size, any order of creations, requests,
\* commits and restarts, every user that was never gone is found, or left to
\* the run, or above the highwater of the tail.
THEOREM NoneIsMissed == Spec => []NoAccountIsMissed
<1>1. TailInv => NoAccountIsMissed
  BY DEF TailInv
<1> QED BY <1>1, TailInvInit, TailInvStep, PTL DEF Spec

-----------------------------------------------------------------------------
(* Owners and rechecks *)

\* What OwnersAreNotRechecked needs to be kept.
OwnerInv ==
  /\ DOMAIN owner = Users /\ DOMAIN recheck = Users
  /\ owner = [a \in Users |-> owner[a]] /\ recheck = [a \in Users |-> recheck[a]]
  /\ OwnersAreNotRechecked

\* Every step keeps it: an answer that makes an owner forgets the recheck, and
\* one that makes a recheck found no owner.
LEMMA OwnerInvStep == OwnerInv /\ [Next]_vars => OwnerInv'
<1> SUFFICES ASSUME OwnerInv, [Next]_vars PROVE OwnerInv'
  OBVIOUS
<1> USE DEF schedules
<1>1. CASE UNCHANGED <<owner, recheck>>
  BY <1>1 DEF OwnerInv, OwnersAreNotRechecked
<1>2. ASSUME NEW s \in Sources, NEW a \in Users, CompleteAccount(s, a) PROVE OwnerInv'
  <2>1. CASE IsOwner(a, job[s][a])
    <3>1. /\ owner' = [owner EXCEPT ![a] = job[s][a]]
          /\ recheck' = [recheck EXCEPT ![a] = NotRechecked]
      BY <1>2, <2>1 DEF CompleteAccount, ObserveOwner, ForgetRecheck
    <3> QED BY <3>1 DEF OwnerInv, OwnersAreNotRechecked
  <2>2. CASE ~IsOwner(a, job[s][a])
    <3>1. owner[a] = None /\ NoteZeroKeys(s, a)
      BY <1>2, <2>2 DEF CompleteAccount, IsOwner
    <3>2. /\ UNCHANGED owner
          /\ UNCHANGED recheck \/ \E r : recheck' = [recheck EXCEPT ![a] = r]
      BY <3>1 DEF NoteZeroKeys, ForgetRecheck
    <3> QED BY <3>1, <3>2 DEF OwnerInv, OwnersAreNotRechecked
  <2> QED BY <2>1, <2>2
<1>3. ASSUME NEW s \in Sources, NEW a \in Users, CompleteInaccessible(s, a) PROVE OwnerInv'
  <2>1. /\ owner' = [owner EXCEPT ![a] = IF @ = None THEN None ELSE Gone]
        /\ recheck' = [recheck EXCEPT ![a] = NotRechecked]
    BY <1>3 DEF CompleteInaccessible, ForgetRecheck
  <2> QED BY <2>1 DEF OwnerInv, OwnersAreNotRechecked
<1>4. CASE TailStep
  BY <1>1, <1>4 DEF TailStep, StartTail, ProbeFirst, ProbeDouble, ProbeMiddle, InitializeLiveTail,
                    FetchTailPage, ApplyTailPage, Probing, TailFrame
<1>5. ASSUME \/ CreateAccount \/ (\E a \in Users : ChangeAccount(a))
             \/ (\E a \in Ids : MainDiscovers(a)) \/ NextRun
             \/ (\E a \in Users : OwnerFallsDue(a) \/ RecheckFallsDue(a))
             \/ EnqueueDueOwners \/ EnqueueDueZeroKeyRechecks
             \/ (\E s \in Sources, a \in Users : Fetch(s, a) \/ RequeueAccount(s, a))
             \/ Crash \/ UNCHANGED vars
      PROVE  OwnerInv'
  BY <1>1, <1>5 DEF CreateAccount, ChangeAccount, MainDiscovers, NextRun, OwnerFallsDue,
                    RecheckFallsDue, EnqueueDueOwners, EnqueueDueZeroKeyRechecks, Fetch,
                    RequeueAccount, Crash, TailFrame, vars
<1> QED BY <1>2, <1>3, <1>4, <1>5 DEF Next, Complete

\* OwnersAreNotRechecked: whatever the answers and the order in which those of
\* several sources are committed, no owner is in zero_key_rechecks.
THEOREM NoOwnerIsRechecked == Spec => []OwnersAreNotRechecked
<1>1. Init => OwnerInv
  BY DEF Init, OwnerInv, OwnersAreNotRechecked
<1>2. OwnerInv => OwnersAreNotRechecked
  BY DEF OwnerInv
<1> QED BY <1>1, <1>2, OwnerInvStep, PTL DEF Spec

-----------------------------------------------------------------------------
(* Types *)

\* The rows, with the due lists as sequences of users.
RowsInv ==
  /\ initialized \in BOOLEAN /\ etag \in (SUBSET Ids) \cup {NoETag} /\ left \in SUBSET Ids
  /\ job \in [Sources -> [Users -> Contents \cup {None, Queued}]]
  /\ owner \in [Users -> Contents \cup {None}] /\ overdue \in Seq(Users)
  /\ recheck \in [Users -> {NotRechecked} \cup 0 .. Ages - 1] /\ recheckDue \in Seq(Users)
  /\ found \in SUBSET Users /\ hidden \in SUBSET Ids
  /\ events \in 0 .. MaxEvents

\* An account taken off a list of due ones leaves a list of due ones.
LEMMA WithoutIsDue ==
  ASSUME NEW due \in Seq(Users), NEW a
  PROVE  Without(due, a) \in Seq(Users)
<1>1. CASE ~Contains(due, a)
  BY <1>1 DEF Without
<1>2. CASE Contains(due, a)
  <2>1. PICK n : n = CHOOSE i \in DOMAIN due : due[i] = a
    OBVIOUS
  <2>2. n \in 1 .. Len(due)
    BY <1>2, <2>1 DEF Contains
  <2>3. SubSeq(due, 1, n - 1) \in Seq(Users) /\ SubSeq(due, n + 1, Len(due)) \in Seq(Users)
    BY <2>2
  <2>4. Without(due, a) = SubSeq(due, 1, n - 1) \o SubSeq(due, n + 1, Len(due))
    BY <1>2, <2>1 DEF Without, RemoveAt
  <2> QED BY <2>3, <2>4
<1> QED BY <1>1, <1>2

\* Rows that are inserted, and answers and resets of rows, have their type.
LEMMA EnqueueIsTyped ==
  ASSUME NEW rows \in [Sources -> [Users -> Contents \cup {None, Queued}]], NEW s \in Sources,
         NEW accounts
  PROVE  Enqueue(rows, s, accounts) \in [Sources -> [Users -> Contents \cup {None, Queued}]]
<1>1. [a \in Users |-> IF a \in accounts /\ rows[s][a] = None THEN Queued ELSE rows[s][a]]
        \in [Users -> Contents \cup {None, Queued}]
  OBVIOUS
<1> QED BY <1>1 DEF Enqueue

\* Rows with one answer changed are rows.
LEMMA AnswerIsTyped ==
  ASSUME NEW rows \in [Sources -> [Users -> Contents \cup {None, Queued}]], NEW s \in Sources,
         NEW a \in Users, NEW c \in Contents \cup {None, Queued}
  PROVE  [rows EXCEPT ![s][a] = c] \in [Sources -> [Users -> Contents \cup {None, Queued}]]
<1>1. [rows[s] EXCEPT ![a] = c] \in [Users -> Contents \cup {None, Queued}]
  OBVIOUS
<1> QED BY <1>1

\* The answer of an account, committed.
LEMMA CompleteRows ==
  ASSUME RowsInv, NEW s \in Sources, NEW a \in Users, Complete(s, a)
  PROVE  RowsInv'
<1> USE DEF schedules, JobFrame, github, tailState
<1>1. /\ job' = [job EXCEPT ![s][a] = None]
      /\ UNCHANGED <<events, initialized, etag, left, found, hidden>>
  BY DEF Complete, CompleteAccount, CompleteInaccessible
<1>2. job' \in [Sources -> [Users -> Contents \cup {None, Queued}]]
  BY <1>1, AnswerIsTyped DEF RowsInv
<1>3. /\ Without(overdue, a) \in Seq(Users) /\ Without(recheckDue, a) \in Seq(Users)
      /\ overdue \in Seq(Users) /\ recheckDue \in Seq(Users)
      /\ owner \in [Users -> Contents \cup {None}]
      /\ recheck \in [Users -> {NotRechecked} \cup 0 .. Ages - 1]
  BY WithoutIsDue DEF RowsInv
<1>4. ForgetRecheck(a) => /\ recheck' \in [Users -> {NotRechecked} \cup 0 .. Ages - 1]
                          /\ recheckDue' \in Seq(Users)
  BY <1>3 DEF ForgetRecheck
<1>5. CASE CompleteInaccessible(s, a)
  <2>1. owner' = [owner EXCEPT ![a] = IF owner[a] = None THEN None ELSE Gone]
        /\ UNCHANGED overdue /\ ForgetRecheck(a)
    BY <1>5 DEF CompleteInaccessible
  <2>2. owner' \in [Users -> Contents \cup {None}]
    BY <1>3, <2>1 DEF Contents
  <2> QED BY <1>1, <1>2, <1>3, <1>4, <2>1, <2>2 DEF RowsInv
<1>6. CASE CompleteAccount(s, a) /\ IsOwner(a, job[s][a])
  <2>1. job[s][a] \in KeySets /\ ObserveOwner(a, job[s][a])
    BY <1>6 DEF CompleteAccount
  <2>2. owner' = [owner EXCEPT ![a] = job[s][a]] /\ overdue' = Without(overdue, a)
        /\ ForgetRecheck(a)
    BY <2>1 DEF ObserveOwner
  <2>3. owner' \in [Users -> Contents \cup {None}]
    BY <1>3, <2>1, <2>2 DEF Contents
  <2> QED BY <1>1, <1>2, <1>3, <1>4, <2>2, <2>3 DEF RowsInv
<1>7. CASE CompleteAccount(s, a) /\ ~IsOwner(a, job[s][a])
  <2>1. NoteZeroKeys(s, a) /\ UNCHANGED <<owner, overdue>>
    BY <1>7 DEF CompleteAccount, NoteZeroKeys
  <2>2. /\ recheck' \in [Users -> {NotRechecked} \cup 0 .. Ages - 1] /\ recheckDue' \in Seq(Users)
    <3>1. CASE ForgetRecheck(a)
      BY <1>4, <3>1
    <3>2. CASE UNCHANGED <<recheck, recheckDue>>
      BY <1>3, <3>2
    <3>3. CASE recheck' = [recheck EXCEPT ![a] = 0] /\ UNCHANGED recheckDue
      BY <1>3, <3>3
    <3>4. CASE /\ recheck[a] \in 0 .. LastStage - 1 /\ recheck' = [recheck EXCEPT ![a] = recheck[a] + 1]
               /\ recheckDue' = Without(recheckDue, a)
      <4>1. recheck[a] + 1 \in 0 .. Ages - 1
        BY <3>4 DEF LastStage
      <4> QED BY <1>3, <3>4, <4>1
    <3> QED BY <2>1, <3>1, <3>2, <3>3, <3>4 DEF NoteZeroKeys
  <2> QED BY <1>1, <1>2, <1>3, <2>1, <2>2 DEF RowsInv
<1> QED BY <1>5, <1>6, <1>7 DEF Complete

\* Every step keeps the types.
LEMMA RowsInvStep ==
  ASSUME RowsInv, TailInv, TailInv', [Next]_vars
  PROVE  RowsInv'
<1> USE DEF schedules, JobFrame, TailFrame, Probing, github, tailState
<1>1. ASSUME UNCHANGED <<initialized, etag, left, job, schedules, found, hidden, events>>
      PROVE  RowsInv'
  BY <1>1 DEF RowsInv
<1>2. CASE CreateAccount \/ StartTail \/ ProbeFirst \/ ProbeDouble \/ ProbeMiddle \/ FetchTailPage
           \/ UNCHANGED vars
  BY <1>1, <1>2 DEF CreateAccount, StartTail, ProbeFirst, ProbeDouble, ProbeMiddle, FetchTailPage, vars
<1>3. ASSUME NEW a \in Users, ChangeAccount(a) PROVE RowsInv'
  <2>1. /\ hidden' \in {hidden, hidden \cup {a}} /\ events < MaxEvents /\ events' = events + 1
        /\ UNCHANGED <<initialized, etag, left, job, schedules, found>>
    BY <1>3 DEF ChangeAccount
  <2>2. hidden' \in SUBSET Ids /\ events' \in 0 .. MaxEvents
    BY <2>1 DEF RowsInv, Users
  <2> QED BY <2>1, <2>2 DEF RowsInv
<1>4. CASE InitializeLiveTail
  <2>1. /\ initialized' = TRUE /\ etag' = NoETag /\ left' = 1 .. tail.high /\ highwater' = tail.high
        /\ UNCHANGED <<job, schedules, found, hidden, events>>
    BY <1>4 DEF InitializeLiveTail
  <2>2. left' \in SUBSET Ids
    <3>1. highwater' \in Nat /\ highwater' <= lastId' /\ lastId' \in Ids
      BY DEF TailInv
    <3> QED BY <2>1, <3>1 DEF Ids
  <2> QED BY <2>1, <2>2 DEF RowsInv
<1>5. CASE ApplyTailPage
  <2>1. /\ job' = Enqueue(job, "tail", tail.page \cap Users)
        /\ found' = found \cup (tail.page \cap Users)
        /\ etag' \in {NoETag, tail.page}
        /\ UNCHANGED <<initialized, left, schedules, hidden, events>>
    BY <1>5 DEF ApplyTailPage
  <2>2. tail.page \in SUBSET Ids
    BY DEF TailInv, TailStates
  <2>3. job' \in [Sources -> [Users -> Contents \cup {None, Queued}]]
    BY <2>1, EnqueueIsTyped DEF RowsInv, Sources
  <2> QED BY <2>1, <2>2, <2>3 DEF RowsInv
<1>6. ASSUME NEW a \in Ids, MainDiscovers(a) PROVE RowsInv'
  <2>1. /\ left' = left \ {a} /\ job' = Enqueue(job, "global", {a} \cap Listed \cap Users)
        /\ found' = found \cup ({a} \cap Listed \cap Users)
        /\ UNCHANGED <<initialized, etag, schedules, hidden, events>>
    BY <1>6 DEF MainDiscovers
  <2>2. job' \in [Sources -> [Users -> Contents \cup {None, Queued}]]
    BY <2>1, EnqueueIsTyped DEF RowsInv, Sources
  <2> QED BY <2>1, <2>2 DEF RowsInv
<1>7. CASE NextRun
  <2>1. left' = 1 .. highwater
        /\ UNCHANGED <<initialized, etag, job, schedules, found, hidden, events>>
    BY <1>7 DEF NextRun
  <2>2. left' \in SUBSET Ids
    <3>1. highwater \in Nat /\ highwater <= lastId /\ lastId \in Ids
      BY DEF TailInv
    <3> QED BY <2>1, <3>1 DEF Ids
  <2> QED BY <2>1, <2>2 DEF RowsInv
<1>8. ASSUME NEW a \in Users, OwnerFallsDue(a) \/ RecheckFallsDue(a) PROVE RowsInv'
  <2>1. /\ overdue' \in {overdue, Append(overdue, a)}
        /\ recheckDue' \in {recheckDue, Append(recheckDue, a)}
        /\ UNCHANGED <<initialized, etag, left, job, owner, recheck, found, hidden, events>>
    BY <1>8 DEF OwnerFallsDue, RecheckFallsDue
  <2>2. \A due \in Seq(Users) : Append(due, a) \in Seq(Users)
    OBVIOUS
  <2>3. overdue \in Seq(Users) /\ recheckDue \in Seq(Users)
    BY DEF RowsInv
  <2>4. overdue' \in Seq(Users) /\ recheckDue' \in Seq(Users)
    BY <2>1, <2>2, <2>3
  <2> QED BY <2>1, <2>4 DEF RowsInv
<1>9. CASE EnqueueDueOwners \/ EnqueueDueZeroKeyRechecks
  <2>1. /\ \E s \in Sources : \E accounts : job' = Enqueue(job, s, accounts)
        /\ UNCHANGED <<initialized, etag, left, schedules, found, hidden, events>>
    BY <1>9 DEF EnqueueDueOwners, EnqueueDueZeroKeyRechecks, Sources
  <2>2. job' \in [Sources -> [Users -> Contents \cup {None, Queued}]]
    BY <2>1, EnqueueIsTyped DEF RowsInv
  <2> QED BY <2>1, <2>2 DEF RowsInv
<1>10. ASSUME NEW s \in Sources, NEW a \in Users, Fetch(s, a) \/ RequeueAccount(s, a) PROVE RowsInv'
  <2>1. /\ \E c \in {content[a], Queued} : job' = [job EXCEPT ![s][a] = c]
        /\ UNCHANGED <<initialized, etag, left, schedules, found, hidden>>
        /\ events' \in {events, events + 1} /\ events' = events + 1 => events < MaxEvents \/ events' = events
    BY <1>10 DEF Fetch, RequeueAccount
  <2>2. content[a] \in Contents
    BY DEF TailInv, Users
  <2>3. job' \in [Sources -> [Users -> Contents \cup {None, Queued}]]
    BY <2>1, <2>2, AnswerIsTyped DEF RowsInv
  <2>4. events' \in 0 .. MaxEvents
    BY <1>10 DEF RowsInv, Fetch, RequeueAccount
  <2> QED BY <2>1, <2>3, <2>4 DEF RowsInv
<1>11. CASE Crash
  <2>1. /\ job' = [s \in Sources |-> [a \in Users |-> IF job[s][a] = None THEN None ELSE Queued]]
        /\ events < MaxEvents /\ events' = events + 1
        /\ UNCHANGED <<initialized, etag, left, schedules, found, hidden>>
    BY <1>11 DEF Crash
  <2>2. job' \in [Sources -> [Users -> Contents \cup {None, Queued}]]
    BY <2>1
  <2>3. events' \in 0 .. MaxEvents
    BY <2>1 DEF RowsInv
  <2> QED BY <2>1, <2>2, <2>3 DEF RowsInv
<1> QED BY <1>2, <1>3, <1>4, <1>5, <1>6, <1>7, <1>8, <1>9, <1>10, <1>11, CompleteRows
        DEF Next, TailStep

\* TypeOK: every variable has its type, among them the stage of a recheck, which
\* stays below the number of ages, and the highwater, which stays below the last id.
THEOREM TypeCorrect == Spec => []TypeOK
<1>1. Init => RowsInv
  <2> SUFFICES ASSUME Init PROVE RowsInv
    OBVIOUS
  <2>1. overdue \in Seq(Users) /\ recheckDue \in Seq(Users) /\ initialized \in BOOLEAN
    <3>1. <<>> \in Seq(Users)
      OBVIOUS
    <3>2. overdue = <<>> /\ recheckDue = <<>> /\ initialized = FALSE
      BY DEF Init
    <3> QED BY <3>1, <3>2
  <2>2. job \in [Sources -> [Users -> Contents \cup {None, Queued}]]
    <3>1. [a \in Users |-> None] \in [Users -> Contents \cup {None, Queued}]
      OBVIOUS
    <3> QED BY <3>1 DEF Init
  <2>3. /\ owner \in [Users -> Contents \cup {None}]
        /\ recheck \in [Users -> {NotRechecked} \cup 0 .. Ages - 1]
    <3>1. [a \in Users |-> None] \in [Users -> Contents \cup {None}]
      OBVIOUS
    <3>2. [a \in Users |-> NotRechecked] \in [Users -> {NotRechecked} \cup (0 .. Ages - 1)]
      OBVIOUS
    <3> QED BY <3>1, <3>2 DEF Init
  <2>4. /\ etag \in (SUBSET Ids) \cup {NoETag} /\ left \in SUBSET Ids
        /\ found \in SUBSET Users /\ hidden \in SUBSET Ids /\ events \in 0 .. MaxEvents
    BY DEF Init
  <2> QED BY <2>1, <2>2, <2>3, <2>4 DEF RowsInv
<1>2. TailInv /\ RowsInv => TypeOK
  <2> SUFFICES ASSUME TailInv, RowsInv PROVE TypeOK
    OBVIOUS
  <2>1. \A due \in Seq(Users) : ToSet(due) \subseteq Users
    BY DEF ToSet
  <2>2. ToSet(overdue) \subseteq Users /\ ToSet(recheckDue) \subseteq Users
    BY <2>1 DEF RowsInv
  <2>3. highwater \in 0 .. MaxId
    BY DEF TailInv, Ids
  <2>4. /\ tail.phase \in {"start", "first", "double", "bisect", "loop", "apply"}
        /\ tail.low \in Nat /\ tail.high \in Nat /\ tail.page \subseteq Ids /\ tail.last \in Nat
        /\ tail.more \in BOOLEAN
    BY DEF TailInv, TailStates
  <2>5. lastId \in Ids /\ content \in [Ids -> Contents]
    BY DEF TailInv
  <2> QED BY <2>2, <2>3, <2>4, <2>5 DEF RowsInv, TypeOK
<1>3. RowsInv /\ TailInv /\ TailInv' /\ [Next]_vars => RowsInv'
  BY RowsInvStep
<1> QED BY <1>1, <1>2, <1>3, TailInvInit, TailInvStep, PTL DEF Spec

=============================================================================
