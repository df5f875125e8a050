------------------------ MODULE EnumerationShardsProofs ------------------------
(* Proofs about EnumerationShards, for any range, workers, listing and bounds. *)
EXTENDS EnumerationShards, FiniteSetTheorems, TLAPS

\* A set of naturals that is not empty has a least element.
LEMMA LeastExists ==
  ASSUME NEW S, S \subseteq Nat, S # {}
  PROVE  \E x \in S : \A y \in S : x <= y
<1> DEFINE R == StrictSubsetOrdering(Nat)
           T == {0 .. x : x \in S}
<1>1. T \subseteq FiniteSubsetsOf(Nat) /\ T # {}
  <2>1. \A x \in S : 0 .. x \in SUBSET Nat /\ IsFiniteSet(0 .. x)
    BY FS_Interval
  <2> QED BY <2>1 DEF FiniteSubsetsOf
<1>2. PICK I \in T : \A J \in T : <<J, I>> \notin R
  <2>1. IsWellFoundedOn(R, FiniteSubsetsOf(Nat))
    BY FS_StrictSubsetOrderingWellFounded
  <2> HIDE DEF R, T
  <2> QED BY <1>1, <2>1, WFMin
<1>3. PICK x \in S : I = 0 .. x
  BY <1>2
<1>4. ASSUME NEW y \in S, y < x PROVE FALSE
  <2>1. 0 .. y \in T /\ 0 .. y \in SUBSET Nat /\ I \in SUBSET Nat
    BY <1>3
  <2>2. 0 .. y \subseteq I /\ x \in I /\ x \notin 0 .. y
    BY <1>3, <1>4
  <2>3. <<0 .. y, I>> \in R
    BY <2>1, <2>2 DEF StrictSubsetOrdering
  <2> QED BY <1>2, <2>1, <2>3
<1> QED BY <1>4

\* Min is what it says.
LEMMA MinIsLeast ==
  ASSUME NEW S, S \subseteq Nat, S # {}
  PROVE  Min(S) \in S /\ \A y \in S : Min(S) <= y
  BY LeastExists DEF Min

\* A bounded set of naturals has a greatest element.
LEMMA MaxIsGreatest ==
  ASSUME NEW S, S \subseteq Nat, S # {}, NEW b \in Nat, \A y \in S : y <= b
  PROVE  Max(S) \in S /\ \A y \in S : y <= Max(S)
<1> DEFINE T == {b - y : y \in S}
<1>1. T \subseteq Nat /\ T # {}
  <2>1. ASSUME NEW y \in S PROVE b - y \in Nat
    OBVIOUS
  <2> QED BY <2>1
<1>2. PICK x \in T : \A y \in T : x <= y
  BY <1>1, LeastExists
<1>3. PICK m \in S : x = b - m
  BY <1>2
<1>4. \A y \in S : y <= m
  <2> SUFFICES ASSUME NEW y \in S PROVE y <= m
    OBVIOUS
  <2>1. b - m <= b - y
    BY <1>2, <1>3
  <2>2. y \in Nat /\ m \in Nat
    OBVIOUS
  <2> QED BY <2>1, <2>2
<1>5. \E z \in S : \A y \in S : z >= y
  BY <1>3, <1>4
<1> QED BY <1>5 DEF Max

-----------------------------------------------------------------------------
(* A page and the range behind it *)

\* The listing of a page has no gaps.
LEMMA ListingIsClosed ==
  ASSUME NEW since \in Nat, NEW o \in Listing(since), NEW p \in Objects, since < p, p <= o
  PROVE  p \in Listing(since)
<1> DEFINE below(x) == {q \in Objects : since < q /\ q < x}
<1>1. Objects \subseteq Nat /\ PageSize \in Nat
  BY EnumAssumption
<1>2. o \in Nat /\ p \in Nat /\ o > since
  BY <1>1 DEF Listing
<1>3. below(o) \in SUBSET Nat /\ IsFiniteSet(below(o))
  <2>1. below(o) \subseteq Nat
    BY <1>1
  <2>2. \A x \in below(o) : x <= o
    BY <1>1, <1>2
  <2> HIDE DEF below
  <2> QED BY <1>2, <2>1, <2>2, FS_BoundedSetOfNaturals
<1>4. below(p) \subseteq below(o)
  <2>1. ASSUME NEW q \in Objects, q < p PROVE q < o
    BY <1>1, <1>2, <2>1
  <2> QED BY <2>1
<1>5. Cardinality(below(o)) < PageSize
  BY DEF Listing
<1>6. IsFiniteSet(below(p)) /\ Cardinality(below(p)) <= Cardinality(below(o))
  <2> HIDE DEF below
  <2> QED BY <1>3, <1>4, FS_Subset
<1>7. Cardinality(below(p)) \in Nat /\ Cardinality(below(o)) \in Nat
  <2> HIDE DEF below
  <2> QED BY <1>3, <1>6, FS_CardinalityType
<1>8. Cardinality(below(p)) < PageSize
  <2> HIDE DEF below
  <2> QED BY <1>1, <1>5, <1>6, <1>7
<1> QED BY <1>1, <1>2, <1>8 DEF Listing

\* The last object of a page, or the cursor of an empty one.
Last(since) == Max(Listing(since) \cup {since})

\* The cursor of the next page is at or after the cursor and every object of the page.
LEMMA LastIsGreatest ==
  ASSUME NEW since \in Nat
  PROVE  /\ Last(since) \in Nat /\ Last(since) >= since
         /\ Last(since) # since => Last(since) \in Listing(since)
         /\ \A p \in Listing(since) : p <= Last(since)
<1> DEFINE S == Listing(since) \cup {since}
<1>1. PICK top \in Nat : Objects \subseteq Nat /\ \A p \in Objects : p <= top
  BY EnumAssumption
<1>2. S \subseteq Nat /\ S # {}
  BY <1>1 DEF Listing
<1>3. \A p \in S : p <= top + since
  BY <1>1 DEF Listing
<1>4. Max(S) \in S /\ \A p \in S : p <= Max(S)
  <2>1. top + since \in Nat
    OBVIOUS
  <2> HIDE DEF S
  <2> QED BY <1>2, <1>3, <2>1, MaxIsGreatest
<1> QED BY <1>2, <1>4 DEF Last

\* What a page sees up to its last object, it sees all of.
LEMMA ListingIsPrefix ==
  ASSUME NEW since \in Nat, NEW id \in Objects, since < id, id <= Last(since)
  PROVE  id \in Listing(since)
<1>1. id \in Nat
  BY EnumAssumption
<1>2. Last(since) \in Listing(since)
  BY <1>1, LastIsGreatest
<1> QED BY <1>2, ListingIsClosed

\* A link that is there leads beyond the page, and past no object of the listing.
LEMMA LinkIsNear ==
  ASSUME NEW since \in Nat, NEW link \in Links(since), link # NoLink
  PROVE  /\ link \in Nat /\ link > since
         /\ \A id \in Objects : id <= link => id <= Last(since)
<1> DEFINE later == {o \in Objects : o > Last(since)}
<1>1. Objects \subseteq Nat
  BY EnumAssumption
<1>2. Last(since) \in Nat
  BY LastIsGreatest
<1>3. later # {} /\ link \in Max({Last(since), since + 1}) .. (Min(later) - 1)
  BY DEF Links, Last
<1>4. Max({Last(since), since + 1}) \in Nat /\ Max({Last(since), since + 1}) >= since + 1
  <2> DEFINE S == {Last(since), since + 1}
  <2>1. S \subseteq Nat /\ S # {} /\ since + 1 \in S
    BY <1>2
  <2>2. Last(since) + since + 1 \in Nat /\ \A y \in S : y <= Last(since) + since + 1
    BY <1>2
  <2> HIDE DEF S
  <2>3. Max(S) \in S /\ \A y \in S : y <= Max(S)
    BY <2>1, <2>2, MaxIsGreatest
  <2> QED BY <2>1, <2>3 DEF S
<1>5. Min(later) \in later /\ \A y \in later : Min(later) <= y
  <2>1. later \subseteq Nat
    BY <1>1
  <2> HIDE DEF later
  <2> QED BY <1>3, <2>1, MinIsLeast
<1>6. Min(later) \in Nat
  BY <1>1, <1>5
<1>7. link \in Nat /\ link > since /\ link < Min(later)
  BY <1>3, <1>4, <1>6
<1>8. ASSUME NEW id \in Objects, id <= link PROVE id <= Last(since)
  BY <1>1, <1>2, <1>5, <1>6, <1>7, <1>8
<1> QED BY <1>7, <1>8

\* planEnumerationPage moves the cursor within the shard, and takes every user it passes.
LEMMA PlanTakesAll ==
  ASSUME NEW next \in Nat, NEW upper \in Nat, next <= upper, NEW link \in Links(next),
         Plan(next, upper, link).reached \/ link # NoLink
  PROVE  LET plan == Plan(next, upper, link) IN
         /\ plan.users \in SUBSET Users /\ plan.reached \in BOOLEAN /\ plan.next \in next .. upper
         /\ \A id \in Users : next < id /\ id <= plan.next => id \in plan.users
<1> DEFINE plan == Plan(next, upper, link)
<1>0. Users \subseteq Objects /\ Objects \subseteq Nat /\ link \in Nat /\ Last(next) \in Nat
  <2>1. NoLink \in Nat
    BY DEF NoLink
  <2> QED BY <2>1, LinkIsNear, LastIsGreatest, EnumAssumption
<1>1. plan.reached <=> next >= upper \/ Last(next) >= upper \/ link >= upper
  BY DEF Plan, Last
<1>2. plan.next = IF plan.reached THEN upper ELSE link
  BY DEF Plan
<1>3. plan.users = IF next >= upper THEN {} ELSE {o \in Listing(next) \cap Users : o <= upper}
  BY DEF Plan
<1>4. plan.reached \/ link # NoLink
  OBVIOUS
<1> HIDE DEF plan
<1>5. plan.next \in next .. upper
  <2>1. CASE plan.reached
    BY <1>2, <2>1
  <2>2. CASE ~plan.reached
    <3>1. plan.next = link /\ link > next
      BY <1>2, <1>4, <2>2, LinkIsNear
    <3>2. link < upper
      BY <1>0, <1>1, <2>2
    <3> QED BY <1>0, <3>1, <3>2
  <2> QED BY <2>1, <2>2
<1>6. ASSUME NEW id \in Users, next < id, id <= plan.next PROVE id \in plan.users
  <2>1. id \in Objects /\ id \in Nat /\ id <= upper /\ ~(next >= upper)
    BY <1>0, <1>5, <1>6
  <2>2. id <= Last(next)
    <3>1. CASE plan.reached /\ Last(next) >= upper
      BY <1>0, <2>1, <3>1
    <3>2. CASE link # NoLink /\ id <= link
      BY <2>1, <3>2, LinkIsNear
    <3>3. CASE plan.reached /\ link >= upper
      <4>1. link # NoLink /\ id <= link
        BY <1>0, <1>6, <2>1, <3>3 DEF NoLink
      <4> QED BY <2>1, <4>1, LinkIsNear
    <3> QED BY <1>1, <1>2, <1>4, <1>6, <2>1, <3>1, <3>2, <3>3
  <2>3. id \in Listing(next)
    BY <1>6, <2>1, <2>2, ListingIsPrefix
  <2> QED BY <1>3, <2>1, <2>3
<1>7. plan.users \in SUBSET Users
  BY <1>3
<1>8. plan.reached \in BOOLEAN
  BY DEF plan, Plan
<1> QED BY <1>5, <1>6, <1>7, <1>8 DEF plan

-----------------------------------------------------------------------------
(* Cutting a range *)

Statuses == {"pending", "retry", "running", "completed"}
Purposes == {"primary", "repair"}
ShardRows == [purpose : Purposes, lower : 0 .. Cutoff, upper : 0 .. Cutoff,
              next : 0 .. Cutoff, status : Statuses]

\* A row as it is inserted.
Fresh(s) ==
  s \in ShardRows /\ s.lower <= s.upper /\ s.next = s.lower /\ s.status = "pending"

\* What Shard makes is a row that nobody has touched.
LEMMA ShardIsFresh ==
  ASSUME NEW purpose \in Purposes, NEW lower \in 0 .. Cutoff, NEW upper \in lower .. Cutoff
  PROVE  /\ Fresh(Shard(purpose, lower, upper))
         /\ Shard(purpose, lower, upper).lower = lower /\ Shard(purpose, lower, upper).upper = upper
         /\ Shard(purpose, lower, upper).purpose = purpose
  BY EnumAssumption DEF Fresh, Shard, ShardRows, Statuses

\* Division rounds down.
LEMMA Quotient ==
  ASSUME NEW n \in Nat, NEW d \in Nat \ {0}
  PROVE  n \div d \in Nat /\ d * (n \div d) <= n /\ n < d * (n \div d) + d
  OBVIOUS

\* Products by a number grow with the other factor.
LEMMA Multiples ==
  ASSUME NEW a \in Nat, NEW b \in Nat, NEW d \in Nat, a <= b
  PROVE  d * a \in Nat /\ d * a <= d * b /\ d * (a + 1) = d * a + d
  OBVIOUS

\* What is in a part is in the whole.
LEMMA InRange ==
  ASSUME NEW lower \in Nat, NEW upper \in Nat, NEW a \in lower .. upper, NEW b \in a .. upper,
         NEW id \in Nat, a < id, id <= b
  PROVE  lower < id /\ id <= upper
  OBVIOUS

\* Ranges that begin where the one before ends hold each ID between the first
\* lower bound and the last upper bound once.
LEMMA ChainTiles ==
  ASSUME NEW n \in Nat \ {0}, NEW lo \in [1 .. n -> Nat], NEW hi \in [1 .. n -> Nat],
         \A k \in 1 .. n - 1 : hi[k] = lo[k + 1],
         \A i, j \in 1 .. n : i < j => hi[i] <= lo[j],
         NEW id \in Nat, lo[1] < id, id <= hi[n]
  PROVE  \E k \in 1 .. n : /\ lo[k] < id /\ id <= hi[k]
                           /\ \A j \in 1 .. n \ {k} : ~(lo[j] < id /\ id <= hi[j])
<1> DEFINE S == {k \in 1 .. n : id <= hi[k]}
<1>1. S \subseteq Nat /\ S # {}
  <2>1. n \in S
    OBVIOUS
  <2>2. S \subseteq 1 .. n /\ 1 .. n \subseteq Nat
    OBVIOUS
  <2> HIDE DEF S
  <2> QED BY <2>1, <2>2
<1>2. PICK k \in S : \A y \in S : k <= y
  <2> HIDE DEF S
  <2> QED BY <1>1, LeastExists
<1>3. k \in 1 .. n /\ id <= hi[k]
  OBVIOUS
<1>4. lo[k] < id
  <2>1. CASE k = 1
    BY <2>1
  <2>2. CASE k # 1
    <3>1. k - 1 \in 1 .. n - 1 /\ k - 1 \notin S
      BY <1>2, <1>3, <2>2
    <3>2. ~(id <= hi[k - 1]) /\ hi[k - 1] = lo[(k - 1) + 1] /\ (k - 1) + 1 = k
      BY <1>3, <3>1
    <3>3. hi[k - 1] \in Nat
      BY <3>1
    <3> QED BY <3>2, <3>3
  <2> QED BY <2>1, <2>2
<1>5. ASSUME NEW j \in 1 .. n \ {k} PROVE ~(lo[j] < id /\ id <= hi[j])
  <2>1. CASE j < k
    BY <1>2, <1>3, <2>1
  <2>2. CASE j > k
    BY <1>3, <2>2
  <2> QED BY <1>3, <2>1, <2>2
<1> QED BY <1>3, <1>4, <1>5

\* A greater number has no smaller quotient.
LEMMA QuotientsGrow ==
  ASSUME NEW a \in Nat, NEW b \in Nat, a <= b, NEW d \in Nat \ {0}
  PROVE  a \div d <= b \div d
<1> DEFINE p == a \div d
           q == b \div d
<1>1. p \in Nat /\ q \in Nat /\ d * p <= a /\ b < d * q + d
  BY Quotient
<1> HIDE DEF p, q
<1>2. d * p < d * q + d
  BY <1>1
<1>3. CASE q + 1 <= p
  <2>1. d * (q + 1) <= d * p /\ d * (q + 1) = d * q + d
    BY <1>1, <1>3, Multiples
  <2> QED BY <1>1, <1>2, <2>1
<1> QED BY <1>1, <1>3 DEF p, q

\* A part of a range, by index over count, is not longer than the range.
LEMMA PartIsWithin ==
  ASSUME NEW n \in Nat, NEW d \in Nat \ {0}, NEW k \in 0 .. d
  PROVE  n * k \in Nat /\ (n * k) \div d \in 0 .. n
<1> DEFINE q == (n * k) \div d
<1>1. n * k \in Nat /\ n * k <= n * d /\ n * d = d * n
  BY Multiples
<1>2. q \in Nat /\ d * q <= n * k
  BY <1>1, Quotient
<1> HIDE DEF q
<1>3. CASE n + 1 <= q
  <2>1. d * (n + 1) <= d * q /\ d * (n + 1) = d * n + d
    BY <1>2, <1>3, Multiples
  <2> QED BY <1>1, <1>2, <2>1
<1>4. q <= n
  BY <1>2, <1>3
<1> QED BY <1>1, <1>2, <1>4 DEF q

\* SeedEnumerationRepair inserts shards within the range it was given.
LEMMA RepairShardsAreFresh ==
  ASSUME NEW g \in RepairRanges
  PROVE  /\ RepairShards(g[1], g[2], g[3]) \in [1 .. g[3] -> ShardRows] /\ g[3] \in Nat
         /\ \A k \in 1 .. g[3] : /\ Fresh(RepairShards(g[1], g[2], g[3])[k])
                                 /\ RepairShards(g[1], g[2], g[3])[k].purpose = "repair"
<1>1. g[1] \in Nat /\ g[2] \in Nat /\ g[3] \in Nat \ {0} /\ g[1] < g[2] /\ g[2] <= Cutoff
      /\ Cutoff \in Nat
  BY EnumAssumption
<1> DEFINE n == g[2] - g[1]
           cut(k) == g[1] + (n * k) \div g[3]
           shards_ == RepairShards(g[1], g[2], g[3])
<1>2. n \in Nat /\ g[1] + n = g[2]
  BY <1>1
<1>3. ASSUME NEW k \in 1 .. g[3]
      PROVE  cut(k - 1) \in 0 .. Cutoff /\ cut(k) \in cut(k - 1) .. Cutoff
  <2>1. k \in 0 .. g[3] /\ k - 1 \in 0 .. g[3] /\ k - 1 \in Nat /\ k - 1 <= k /\ k \in Nat
    BY <1>1
  <2>2. (n * k) \div g[3] \in 0 .. n /\ (n * (k - 1)) \div g[3] \in 0 .. n
    <3> HIDE DEF n
    <3> QED BY <1>1, <1>2, <2>1, PartIsWithin
  <2>3. n * (k - 1) \in Nat /\ n * k \in Nat /\ n * (k - 1) <= n * k
    <3> HIDE DEF n
    <3> QED BY <1>2, <2>1, Multiples
  <2>4. (n * (k - 1)) \div g[3] <= (n * k) \div g[3]
    <3> HIDE DEF n
    <3> QED BY <1>1, <2>3, QuotientsGrow
  <2> HIDE DEF n
  <2> QED BY <1>1, <1>2, <2>2, <2>4
<1>4. shards_ = [k \in 1 .. g[3] |-> Shard("repair", cut(k - 1), cut(k))]
  BY DEF RepairShards
<1>5. ASSUME NEW k \in 1 .. g[3]
      PROVE  Fresh(shards_[k]) /\ shards_[k].purpose = "repair"
  <2>1. shards_[k] = Shard("repair", cut(k - 1), cut(k))
    BY <1>4
  <2> HIDE DEF cut, shards_
  <2> QED BY <1>3, <2>1, ShardIsFresh DEF Purposes
<1>6. shards_ \in [1 .. g[3] -> ShardRows]
  <2>1. \A k \in 1 .. g[3] : shards_[k] \in ShardRows
    BY <1>5 DEF Fresh
  <2>2. shards_ = [k \in 1 .. g[3] |-> shards_[k]]
    BY <1>4
  <2> HIDE DEF shards_
  <2> QED BY <2>1, <2>2
<1> QED BY <1>1, <1>5, <1>6

\* A row holds an ID.
Has(s, id) == s.lower < id /\ id <= s.upper

\* EnsureEnumerationShards inserts shards that hold each ID below the cutoff once.
LEMMA PrimaryShardsAreFresh ==
  ASSUME Desired >= 2
  PROVE  /\ PrimaryCount \in Nat /\ PrimaryShards \in [1 .. PrimaryCount -> ShardRows]
         /\ \A k \in 1 .. PrimaryCount : Fresh(PrimaryShards[k])
                                         /\ PrimaryShards[k].purpose = "primary"
         /\ \A id \in 1 .. Cutoff : \E k \in 1 .. PrimaryCount :
              /\ Has(PrimaryShards[k], id)
              /\ \A j \in 1 .. PrimaryCount \ {k} : ~Has(PrimaryShards[j], id)
<1> DEFINE span == PrimarySpan
           count == (Cutoff + span - 1) \div span
           n == PrimaryCount
           lo == [k \in 1 .. n |-> (k - 1) * span]
           hi == [k \in 1 .. n |-> IF k = Desired \/ (k - 1) * span + span > Cutoff THEN Cutoff
                                   ELSE (k - 1) * span + span]
<1>1. Cutoff \in Nat \ {0} /\ Desired \in Nat \ {0}
  BY EnumAssumption
<1>2. span \in Nat \ {0}
  BY <1>1, Quotient DEF PrimarySpan
<1>3. count \in Nat /\ span * count <= Cutoff + span - 1 /\ Cutoff - 1 < span * count
  <2> HIDE DEF span
  <2>1. Cutoff + span - 1 \in Nat
    BY <1>1, <1>2
  <2>2. /\ count \in Nat /\ span * count <= Cutoff + span - 1
        /\ Cutoff + span - 1 < span * count + span
    BY <1>2, <2>1, Quotient
  <2>3. span * count \in Nat
    BY <1>2, <2>2, Multiples
  <2> HIDE DEF count
  <2> QED BY <1>1, <1>2, <2>2, <2>3
<1>4. count # 0
  <2> HIDE DEF span, count
  <2> QED BY <1>1, <1>2, <1>3
<1>5. n \in Nat \ {0} /\ n \in {Desired, count} /\ n <= count
  <2>1. n = Min({Desired, count})
    BY DEF PrimaryCount
  <2> HIDE DEF count, span, n
  <2> DEFINE S == {Desired, count}
  <2>2. S \subseteq Nat \ {0} /\ count \in S /\ S # {}
    BY <1>1, <1>3, <1>4
  <2> HIDE DEF S
  <2>3. Min(S) \in S /\ \A y \in S : Min(S) <= y
    BY <2>2, MinIsLeast
  <2> QED BY <2>1, <2>2, <2>3 DEF S
<1> HIDE DEF span, count, n
<1>6. ASSUME NEW k \in 1 .. n
      PROVE  /\ (k - 1) * span = span * (k - 1) /\ span * (k - 1) \in Nat /\ span * k \in Nat
             /\ (k - 1) * span + span = span * k /\ (k - 1) * span <= Cutoff - 1
             /\ k # n => k # Desired /\ span * k <= Cutoff - 1
             /\ k = n => k = Desired \/ span * k >= Cutoff
  <2>1. k \in Nat /\ k - 1 \in Nat /\ k <= count /\ (k - 1) + 1 = k /\ k - 1 <= k
    BY <1>3, <1>5
  <2>2. /\ span * (k - 1) \in Nat /\ span * k \in Nat /\ span * k = span * (k - 1) + span
        /\ span * k <= span * count
    BY <1>2, <1>3, <2>1, Multiples
  <2>3. (k - 1) * span = span * (k - 1)
    BY <1>2, <2>1
  <2>4. span * count \in Nat
    BY <1>2, <1>3, Multiples
  <2>5. (k - 1) * span <= Cutoff - 1
    BY <1>1, <1>2, <1>3, <2>2, <2>3, <2>4
  <2>6. ASSUME k # n PROVE k # Desired /\ span * k <= Cutoff - 1
    <3>1. k + 1 <= count /\ k + 1 \in Nat /\ k < n
      BY <1>3, <1>5, <2>6
    <3>2. span * (k + 1) = span * k + span /\ span * (k + 1) <= span * count
      BY <1>2, <1>3, <2>1, <3>1, Multiples
    <3>3. span * k <= Cutoff - 1
      BY <1>1, <1>2, <1>3, <2>2, <2>4, <3>2
    <3>4. n <= Desired
      <4>1. Desired \in {Desired, count} /\ count \in Nat
        BY <1>3
      <4> DEFINE S == {Desired, count}
      <4>2. S \subseteq Nat /\ S # {} /\ Desired \in S
        BY <1>1, <1>3
      <4>3. Min(S) <= Desired
        <5> HIDE DEF S
        <5> QED BY <4>2, MinIsLeast
      <4> QED BY <4>3 DEF n, count, span, PrimaryCount
    <3> QED BY <1>1, <1>5, <3>1, <3>3, <3>4
  <2>7. ASSUME k = n, k # Desired PROVE span * k >= Cutoff
    <3>1. k = count
      BY <1>5, <2>7
    <3> QED BY <1>1, <1>3, <2>4, <3>1
  <2> QED BY <2>2, <2>3, <2>5, <2>6, <2>7
<1>7. ASSUME NEW k \in 1 .. n
      PROVE  /\ lo[k] = span * (k - 1) /\ lo[k] \in 0 .. Cutoff /\ hi[k] \in lo[k] .. Cutoff
             /\ k # n => hi[k] = span * k
             /\ k = n => hi[k] = Cutoff
  BY <1>1, <1>2, <1>6
<1>8. PrimaryShards = [k \in 1 .. n |-> Shard("primary", lo[k], hi[k])]
  BY DEF PrimaryShards, n, span
<1>9. ASSUME NEW k \in 1 .. n
      PROVE  /\ Fresh(PrimaryShards[k]) /\ PrimaryShards[k].purpose = "primary"
             /\ PrimaryShards[k].lower = lo[k] /\ PrimaryShards[k].upper = hi[k]
  <2>1. PrimaryShards[k] = Shard("primary", lo[k], hi[k])
    BY <1>8
  <2> HIDE DEF lo, hi
  <2> QED BY <1>7, <2>1, ShardIsFresh DEF Purposes
<1>10. ASSUME NEW id \in 1 .. Cutoff
       PROVE  \E k \in 1 .. n : /\ lo[k] < id /\ id <= hi[k]
                                /\ \A j \in 1 .. n \ {k} : ~(lo[j] < id /\ id <= hi[j])
  <2>1. lo \in [1 .. n -> Nat] /\ hi \in [1 .. n -> Nat]
    <3>1. \A k \in 1 .. n : lo[k] \in Nat /\ hi[k] \in Nat
      <4> HIDE DEF lo, hi
      <4> QED BY <1>1, <1>7
    <3>2. lo = [k \in 1 .. n |-> lo[k]] /\ hi = [k \in 1 .. n |-> hi[k]]
      OBVIOUS
    <3> HIDE DEF lo, hi
    <3> QED BY <3>1, <3>2
  <2> HIDE DEF lo, hi
  <2>2. \A k \in 1 .. n - 1 : hi[k] = lo[k + 1]
    <3> SUFFICES ASSUME NEW k \in 1 .. n - 1 PROVE hi[k] = lo[k + 1]
      OBVIOUS
    <3>1. k \in 1 .. n /\ k + 1 \in 1 .. n /\ k # n /\ (k + 1) - 1 = k
      BY <1>5
    <3> QED BY <1>7, <3>1
  <2>3. \A i, j \in 1 .. n : i < j => hi[i] <= lo[j]
    <3> SUFFICES ASSUME NEW i \in 1 .. n, NEW j \in 1 .. n, i < j PROVE hi[i] <= lo[j]
      OBVIOUS
    <3>1. i # n /\ i \in Nat /\ j - 1 \in Nat /\ i <= j - 1
      BY <1>5
    <3>2. span * i <= span * (j - 1)
      BY <1>2, <3>1, Multiples
    <3> QED BY <1>7, <3>1, <3>2
  <2>4. lo[1] < id /\ id <= hi[n] /\ id \in Nat
    <3>1. 1 \in 1 .. n /\ n \in 1 .. n
      BY <1>5
    <3>2. lo[1] = span * (1 - 1) /\ hi[n] = Cutoff
      BY <1>7, <3>1
    <3>3. span * (1 - 1) = 0
      BY <1>2
    <3> QED BY <1>1, <3>2, <3>3
  <2> QED BY <1>5, <2>1, <2>2, <2>3, <2>4, ChainTiles
<1>11. PrimaryShards \in [1 .. n -> ShardRows]
  <2>1. \A k \in 1 .. n : PrimaryShards[k] \in ShardRows
    BY <1>9 DEF Fresh
  <2>2. PrimaryShards = [k \in 1 .. n |-> PrimaryShards[k]]
    BY <1>8
  <2> QED BY <2>1, <2>2
<1> HIDE DEF lo, hi
<1> QED BY <1>5, <1>9, <1>10, <1>11 DEF n, Has

\* Parts that begin at lower, stay below upper and hold each ID between once.
Tiles(parts, lower, upper, pieces) ==
  /\ \A k \in 1 .. pieces : /\ parts[k].lower \in lower .. upper
                            /\ parts[k].upper \in parts[k].lower .. upper
  /\ parts[1].lower = lower
  /\ \A id \in (lower + 1) .. upper : \E k \in 1 .. pieces :
       /\ Has(parts[k], id)
       /\ \A j \in 1 .. pieces \ {k} : ~Has(parts[j], id)

\* A split of a range holds each of its IDs once.
LEMMA SplitTiles ==
  ASSUME NEW lower \in Nat, NEW upper \in Nat, NEW pieces \in Nat, pieces >= 2, lower <= upper
  PROVE  Tiles(Split(lower, upper, pieces), lower, upper, pieces)
<1> DEFINE step == (upper - lower) \div pieces
           parts == Split(lower, upper, pieces)
           lo == [k \in 1 .. pieces |-> lower + step * (k - 1)]
           hi == [k \in 1 .. pieces |-> IF k = pieces THEN upper ELSE lower + step * k]
<1>1. step \in Nat /\ step * pieces <= upper - lower
  <2>1. upper - lower \in Nat /\ pieces \in Nat \ {0}
    OBVIOUS
  <2>2. step \in Nat /\ pieces * step <= upper - lower
    BY <2>1, Quotient
  <2> HIDE DEF step
  <2> QED BY <2>2
<1>2. parts = [k \in 1 .. pieces |-> [lower |-> lo[k], upper |-> hi[k]]]
  BY DEF Split
<1> HIDE DEF step, parts
<1>3. ASSUME NEW k \in 1 .. pieces
      PROVE  /\ lo[k] \in lower .. upper /\ hi[k] \in lo[k] .. upper
             /\ lo[k] = lower + step * (k - 1) /\ step * (k - 1) \in Nat /\ step * k \in Nat
             /\ k # pieces => hi[k] = lower + step * k
             /\ k = pieces => hi[k] = upper
  <2>1. k \in Nat /\ k - 1 \in Nat /\ k - 1 <= k /\ k <= pieces /\ k - 1 <= pieces
    OBVIOUS
  <2>2. /\ step * (k - 1) \in Nat /\ step * k \in Nat /\ step * (k - 1) <= step * k
        /\ step * k <= step * pieces /\ step * (k - 1) <= step * pieces
        /\ step * pieces \in Nat
    BY <1>1, <2>1, Multiples
  <2> QED BY <1>1, <2>2
<1>4. ASSUME NEW id \in (lower + 1) .. upper
      PROVE  \E k \in 1 .. pieces : /\ lo[k] < id /\ id <= hi[k]
                                    /\ \A j \in 1 .. pieces \ {k} : ~(lo[j] < id /\ id <= hi[j])
  <2>1. lo \in [1 .. pieces -> Nat] /\ hi \in [1 .. pieces -> Nat]
    <3>1. \A k \in 1 .. pieces : lo[k] \in Nat /\ hi[k] \in Nat
      <4> HIDE DEF lo, hi
      <4> QED BY <1>3
    <3>2. lo = [k \in 1 .. pieces |-> lo[k]] /\ hi = [k \in 1 .. pieces |-> hi[k]]
      OBVIOUS
    <3> HIDE DEF lo, hi
    <3> QED BY <3>1, <3>2
  <2> HIDE DEF lo, hi
  <2>2. \A k \in 1 .. pieces - 1 : hi[k] = lo[k + 1]
    <3> SUFFICES ASSUME NEW k \in 1 .. pieces - 1 PROVE hi[k] = lo[k + 1]
      OBVIOUS
    <3>1. k \in 1 .. pieces /\ k + 1 \in 1 .. pieces /\ k # pieces /\ (k + 1) - 1 = k
      OBVIOUS
    <3> QED BY <1>3, <3>1
  <2>3. \A i, j \in 1 .. pieces : i < j => hi[i] <= lo[j]
    <3> SUFFICES ASSUME NEW i \in 1 .. pieces, NEW j \in 1 .. pieces, i < j PROVE hi[i] <= lo[j]
      OBVIOUS
    <3>1. i # pieces /\ i \in Nat /\ j - 1 \in Nat /\ i <= j - 1
      OBVIOUS
    <3>2. step * i <= step * (j - 1)
      BY <1>1, <3>1, Multiples
    <3> QED BY <1>3, <3>1, <3>2
  <2>4. lo[1] < id /\ id <= hi[pieces] /\ id \in Nat
    <3>1. lo[1] = lower + step * (1 - 1) /\ hi[pieces] = upper
      BY <1>3
    <3> QED BY <1>1, <3>1
  <2>5. pieces \in Nat \ {0}
    OBVIOUS
  <2> QED BY <2>1, <2>2, <2>3, <2>4, <2>5, ChainTiles
<1>5. \A k \in 1 .. pieces : parts[k].lower = lo[k] /\ parts[k].upper = hi[k]
  BY <1>2
<1>6. lo[1] = lower
  <2>1. lo[1] = lower + step * (1 - 1)
    BY <1>3
  <2> QED BY <1>1, <2>1
<1> HIDE DEF lo, hi
<1>7. \A k \in 1 .. pieces : /\ parts[k].lower \in lower .. upper
                             /\ parts[k].upper \in parts[k].lower .. upper
  BY <1>3, <1>5
<1>8. parts[1].lower = lower
  BY <1>5, <1>6
<1>9. \A id \in (lower + 1) .. upper : \E k \in 1 .. pieces :
        Has(parts[k], id) /\ \A j \in 1 .. pieces \ {k} : ~Has(parts[j], id)
  BY <1>4, <1>5 DEF Has
<1> QED BY <1>7, <1>8, <1>9 DEF parts, Tiles

-----------------------------------------------------------------------------
(* The inductive invariant *)

Copies == [next : Nat, upper : Nat]
Pages == [users : SUBSET Users, next : Nat, reached : BOOLEAN, rows : BOOLEAN, last : BOOLEAN]

Shapes ==
  /\ shards \in Seq(ShardRows) /\ enumComplete \in BOOLEAN /\ discovered \in SUBSET Users
  /\ seeded \in SUBSET RepairRanges /\ up \in BOOLEAN /\ faults \in 0 .. MaxFaults
  /\ phase \in [EnumWorkers -> {"idle", "fetch", "commit", "rebalance", "gone"}]
  /\ own \in [EnumWorkers -> Nat] /\ copy \in [EnumWorkers -> Copies]
  /\ page \in [EnumWorkers -> Pages]

\* The checkpoint of a shard is within its range.
Ordered == \A i \in Ids : shards[i].lower <= shards[i].next /\ shards[i].next <= shards[i].upper

\* A worker in a phase with a shard has one, alone, and knows what the table has.
Owns(w) ==
  /\ phase[w] \in {"fetch", "commit", "rebalance"} => own[w] # 0
  /\ own[w] # 0 =>
       /\ own[w] \in Ids /\ shards[own[w]].status = "running"
       /\ copy[w] = [next |-> shards[own[w]].next, upper |-> shards[own[w]].upper]
       /\ \A v \in EnumWorkers \ {w} : own[v] # own[w]

\* A page under way has all users between the checkpoint and its cursor.
Brings(w) ==
  phase[w] = "commit" =>
    /\ copy[w].next <= page[w].next /\ page[w].next <= copy[w].upper
    /\ \A id \in Users : copy[w].next < id /\ id <= page[w].next => id \in page[w].users

Owners == \A w \in EnumWorkers : Owns(w) /\ Brings(w)

IInv == Shapes /\ Ordered /\ NothingSkipped /\ Owners

\* The invariant holds of the empty tables.
LEMMA InitIsInv == Init => IInv
<1> SUFFICES ASSUME Init PROVE IInv
  OBVIOUS
<1>1. NoCopy \in Copies /\ NoPage \in Pages /\ 0 \in 0 .. MaxFaults
  BY EnumAssumption DEF NoCopy, NoPage, Copies, Pages
<1>2. shards \in Seq(ShardRows) /\ Ids = {}
  BY DEF Init, Ids
<1>3. Shapes
  BY <1>1, <1>2 DEF Init, Shapes
<1>4. Ordered /\ NothingSkipped
  BY <1>2 DEF Ordered, NothingSkipped
<1>5. Owners
  BY DEF Init, Owners, Owns, Brings
<1> QED BY <1>3, <1>4, <1>5 DEF IInv

\* Rows t are the rows s, followed by the n rows of f.
Extends(t, s, n, f) ==
  /\ t \in Seq(ShardRows) /\ Len(s) \in Nat /\ DOMAIN s = 1 .. Len(s)
  /\ DOMAIN t = 1 .. (Len(s) + n)
  /\ \A i \in DOMAIN s : i \in DOMAIN t /\ t[i] = s[i]
  /\ \A i \in DOMAIN t \ DOMAIN s : i - Len(s) \in 1 .. n /\ t[i] = f[i - Len(s)]
  /\ \A k \in 1 .. n : Len(s) + k \in DOMAIN t \ DOMAIN s /\ t[Len(s) + k] = f[k]

\* Appending a function over 1 .. n adds n rows and moves none.
LEMMA Appended ==
  ASSUME NEW s \in Seq(ShardRows), NEW n \in Nat, NEW f \in [1 .. n -> ShardRows]
  PROVE  Extends(s \o f, s, n, f)
<1>1. f \in Seq(ShardRows) /\ Len(f) = n
  OBVIOUS
<1>2. s \o f \in Seq(ShardRows) /\ Len(s \o f) = Len(s) + n
  BY <1>1
<1>3. \A i \in 1 .. (Len(s) + n) : (s \o f)[i] = IF i <= Len(s) THEN s[i] ELSE f[i - Len(s)]
  BY <1>1
<1>4. Len(s) \in Nat /\ DOMAIN s = 1 .. Len(s) /\ DOMAIN (s \o f) = 1 .. (Len(s) + n)
  BY <1>2
<1> DEFINE t == s \o f
<1>5. \A k \in 1 .. n : Len(s) + k \in 1 .. (Len(s) + n) /\ ~(Len(s) + k <= Len(s))
                       /\ (Len(s) + k) - Len(s) = k
  BY <1>4
<1> HIDE DEF t
<1>6. t \in Seq(ShardRows) /\ DOMAIN t = 1 .. (Len(s) + n)
      /\ \A i \in 1 .. (Len(s) + n) : t[i] = IF i <= Len(s) THEN s[i] ELSE f[i - Len(s)]
  BY <1>2, <1>3, <1>4 DEF t
<1>7. \A i \in DOMAIN s : i \in DOMAIN t /\ t[i] = s[i]
  BY <1>4, <1>6
<1>8. \A i \in DOMAIN t \ DOMAIN s : i - Len(s) \in 1 .. n /\ t[i] = f[i - Len(s)]
  BY <1>4, <1>6
<1>9. \A k \in 1 .. n : Len(s) + k \in DOMAIN t \ DOMAIN s /\ t[Len(s) + k] = f[k]
  BY <1>4, <1>5, <1>6
<1> QED BY <1>4, <1>6, <1>7, <1>8, <1>9 DEF Extends, t

\* Steps that leave checkpoints alone, shorten a range down to its checkpoint at most, and
\* insert fresh rows keep what concerns the rows.
LEMMA RowsKept ==
  ASSUME Shapes, Ordered, NothingSkipped, shards' \in Seq(ShardRows),
         discovered \subseteq discovered',
         \A i \in Ids' : \/ Fresh(shards'[i])
                         \/ /\ i \in Ids /\ shards'[i].lower = shards[i].lower
                            /\ shards'[i].next = shards[i].next
                            /\ shards'[i].next <= shards'[i].upper
  PROVE  Ordered' /\ NothingSkipped'
<1>1. \A i \in Ids' : shards'[i] \in ShardRows
  BY DEF Ids
<1>2. Ordered'
  <2> SUFFICES ASSUME NEW i \in Ids'
               PROVE  shards'[i].lower <= shards'[i].next /\ shards'[i].next <= shards'[i].upper
    BY DEF Ordered
  <2>1. CASE Fresh(shards'[i])
    <3>1. shards'[i].lower \in Nat /\ shards'[i].next = shards'[i].lower
      BY <1>1, <2>1, EnumAssumption DEF Fresh, ShardRows
    <3> QED BY <2>1, <3>1 DEF Fresh
  <2>2. CASE ~Fresh(shards'[i])
    BY <2>2 DEF Ordered
  <2> QED BY <2>1, <2>2
<1>3. NothingSkipped'
  <2> SUFFICES ASSUME NEW i \in Ids', NEW id \in Users, shards'[i].lower < id, id <= shards'[i].next
               PROVE  id \in discovered'
    BY DEF NothingSkipped
  <2>1. id \in Nat /\ Cutoff \in Nat
    BY EnumAssumption
  <2>2. ~Fresh(shards'[i])
    BY <1>1, <2>1 DEF Fresh, ShardRows
  <2> QED BY <2>2 DEF NothingSkipped
<1> QED BY <1>2, <1>3

\* Steps that leave the workers and the rows there are alone.
LEMMA OwnersKept ==
  ASSUME Owners, UNCHANGED workerVars, \A i \in Ids : i \in Ids' /\ shards'[i] = shards[i]
  PROVE  Owners'
  BY DEF Owners, Owns, Brings, workerVars

-----------------------------------------------------------------------------
(* The steps keep it *)

\* EnsureEnumerationShards makes untouched rows of which nobody has a copy.
LEMMA EnsureKeeps ==
  ASSUME IInv, NEW w \in EnumWorkers, EnsureEnumerationShards(w)
  PROVE  IInv'
<1>1. shards = <<>> /\ Ids = {} /\ Desired >= 2 /\ shards' = PrimaryShards
  BY DEF EnsureEnumerationShards, Ids
<1>2. /\ PrimaryCount \in Nat /\ PrimaryShards \in [1 .. PrimaryCount -> ShardRows]
      /\ \A k \in 1 .. PrimaryCount : Fresh(PrimaryShards[k])
  BY <1>1, PrimaryShardsAreFresh
<1>3. shards' \in Seq(ShardRows) /\ Ids' = 1 .. PrimaryCount
  BY <1>1, <1>2 DEF Ids
<1>4. Ordered' /\ NothingSkipped'
  <2>1. \A i \in Ids' : Fresh(shards'[i])
    BY <1>1, <1>2, <1>3
  <2>2. discovered \subseteq discovered'
    BY DEF EnsureEnumerationShards
  <2> QED BY <1>3, <2>1, <2>2, RowsKept DEF IInv
<1>5. Owners'
  <2>1. UNCHANGED workerVars
    BY DEF EnsureEnumerationShards
  <2> QED BY <1>1, <2>1, OwnersKept DEF IInv
<1>6. Shapes'
  BY <1>3 DEF IInv, Shapes, EnsureEnumerationShards, workerVars
<1> QED BY <1>4, <1>5, <1>6 DEF IInv

\* The shard a worker claims is claimable.
LEMMA FirstIsClaimable ==
  ASSUME Shapes, Claimable # {}
  PROVE  FirstClaimable \in Claimable
<1> DEFINE repair == {i \in Claimable : shards[i].purpose = "repair"}
           S == IF repair # {} THEN repair ELSE Claimable
<1>1. S \subseteq Nat /\ S # {} /\ S \subseteq Claimable
  <2>1. Claimable \subseteq Nat
    BY DEF Claimable, Ids, Shapes
  <2> QED BY <2>1
<1>2. Min(S) \in S
  <2> HIDE DEF S
  <2> QED BY <1>1, MinIsLeast
<1> QED BY <1>1, <1>2 DEF FirstClaimable

\* A claim gives the worker a copy of a row that no other worker has.
LEMMA ClaimKeeps ==
  ASSUME IInv, NEW w \in EnumWorkers, ClaimEnumerationShard(w)
  PROVE  IInv'
<1> DEFINE i == FirstClaimable
<1>1. /\ shards' = [shards EXCEPT ![i].status = "running"]
      /\ phase' = [phase EXCEPT ![w] = "fetch"] /\ own' = [own EXCEPT ![w] = i]
      /\ copy' = [copy EXCEPT ![w] = [next |-> shards[i].next, upper |-> shards[i].upper]]
      /\ UNCHANGED <<enumComplete, discovered, seeded, page, up, faults>>
  BY DEF ClaimEnumerationShard, Become
<1>2. i \in Ids /\ shards[i].status \in {"pending", "retry"} /\ i \in Nat \ {0}
  <2>1. i \in Claimable
    BY FirstIsClaimable DEF ClaimEnumerationShard, IInv
  <2> QED BY <2>1 DEF Claimable, Ids, IInv, Shapes
<1> HIDE DEF i
<1>3. shards \in Seq(ShardRows) /\ shards[i] \in ShardRows
  BY <1>2 DEF IInv, Shapes, Ids
<1>4. /\ shards' \in Seq(ShardRows) /\ Ids' = Ids
      /\ \A j \in Ids : /\ shards'[j].lower = shards[j].lower /\ shards'[j].next = shards[j].next
                        /\ shards'[j].upper = shards[j].upper
                        /\ j # i => shards'[j] = shards[j]
      /\ shards'[i].status = "running"
  <2>1. [shards[i] EXCEPT !.status = "running"] \in ShardRows
    BY <1>3 DEF ShardRows, Statuses
  <2>2. shards' = [shards EXCEPT ![i] = [shards[i] EXCEPT !.status = "running"]]
    BY <1>1
  <2>3. shards' \in Seq(ShardRows) /\ Ids' = Ids
    BY <1>2, <1>3, <2>1, <2>2 DEF Ids
  <2>4. shards'[i] = [shards[i] EXCEPT !.status = "running"]
        /\ \A j \in Ids \ {i} : shards'[j] = shards[j]
    BY <1>2, <2>2 DEF Ids
  <2>5. /\ shards'[i].lower = shards[i].lower /\ shards'[i].next = shards[i].next
        /\ shards'[i].upper = shards[i].upper /\ shards'[i].status = "running"
    BY <1>3, <2>4 DEF ShardRows
  <2> QED BY <2>3, <2>4, <2>5
<1>5. Ordered' /\ NothingSkipped'
  <2>1. \A j \in Ids' : /\ j \in Ids /\ shards'[j].lower = shards[j].lower
                        /\ shards'[j].next = shards[j].next /\ shards'[j].next <= shards'[j].upper
    BY <1>4 DEF IInv, Ordered
  <2> QED BY <1>1, <1>4, <2>1, RowsKept DEF IInv
<1>6. Owners'
  <2> SUFFICES ASSUME NEW v \in EnumWorkers PROVE (Owns(v) /\ Brings(v))'
    BY DEF Owners
  <2>0. /\ own \in [EnumWorkers -> Nat] /\ copy \in [EnumWorkers -> Copies]
        /\ phase \in [EnumWorkers -> {"idle", "fetch", "commit", "rebalance", "gone"}]
    BY DEF IInv, Shapes
  <2>1. \A u \in EnumWorkers : own[u] # i
    BY <1>2 DEF IInv, Owners, Owns
  <2>2. CASE v = w
    <3>1. /\ phase'[w] = "fetch" /\ own'[w] = i
          /\ copy'[w] = [next |-> shards[i].next, upper |-> shards[i].upper]
          /\ \A u \in EnumWorkers \ {w} : own'[u] = own[u]
      BY <1>1, <2>0
    <3> QED BY <1>2, <1>4, <2>1, <2>2, <3>1 DEF Owns, Brings
  <2>3. CASE v # w
    <3>1. /\ phase'[v] = phase[v] /\ own'[v] = own[v] /\ copy'[v] = copy[v] /\ page' = page
          /\ \A u \in EnumWorkers : own'[u] \in {own[u], i}
      BY <1>1, <2>0, <2>3
    <3>2. Owns(v) /\ Brings(v)
      BY DEF IInv, Owners
    <3> QED BY <1>4, <2>1, <3>1, <3>2 DEF Owns, Brings
  <2> QED BY <2>2, <2>3
<1>7. Shapes'
  <2>1. [next |-> shards[i].next, upper |-> shards[i].upper] \in Copies
    BY <1>3, EnumAssumption DEF ShardRows, Copies
  <2> QED BY <1>1, <1>2, <1>4, <2>1 DEF IInv, Shapes
<1> QED BY <1>5, <1>6, <1>7 DEF IInv

\* A page that is planned brings all users up to its next checkpoint.
LEMMA ApplyKeeps ==
  ASSUME IInv, NEW w \in EnumWorkers, ApplyPage(w)
  PROVE  IInv'
<1>1. phase[w] = "fetch" /\ phase' = [phase EXCEPT ![w] = "commit"]
      /\ UNCHANGED <<shards, enumComplete, discovered, seeded, own, copy, up, faults>>
  BY DEF ApplyPage
<1> DEFINE next == copy[w].next
           upper == copy[w].upper
<1>2. next \in Nat /\ upper \in Nat /\ next <= upper
  <2>1. own[w] # 0
    BY <1>1 DEF IInv, Owners, Owns
  <2>2. own[w] \in Ids /\ next = shards[own[w]].next /\ upper = shards[own[w]].upper
    <3>1. Owns(w)
      BY DEF IInv, Owners
    <3>2. own[w] \in Ids
          /\ copy[w] = [next |-> shards[own[w]].next, upper |-> shards[own[w]].upper]
      BY <2>1, <3>1 DEF Owns
    <3> QED BY <3>2
  <2>3. shards[own[w]] \in ShardRows
    BY <2>2 DEF IInv, Shapes, Ids
  <2> QED BY <2>2, <2>3, EnumAssumption DEF IInv, Ordered, ShardRows
<1>3. PICK link \in Links(next), rows \in BOOLEAN, last \in BOOLEAN :
        /\ Plan(next, upper, link).reached \/ link # NoLink
        /\ page' = [page EXCEPT ![w] =
             [users |-> Plan(next, upper, link).users, next |-> Plan(next, upper, link).next,
              reached |-> Plan(next, upper, link).reached, rows |-> rows, last |-> last]]
  BY DEF ApplyPage
<1> DEFINE plan == Plan(next, upper, link)
<1>4. /\ plan.users \in SUBSET Users /\ plan.reached \in BOOLEAN /\ plan.next \in next .. upper
      /\ \A id \in Users : next < id /\ id <= plan.next => id \in plan.users
  <2> HIDE DEF next, upper
  <2> QED BY <1>2, <1>3, PlanTakesAll
<1> HIDE DEF plan
<1>5. page'[w].users = plan.users /\ page'[w].next = plan.next /\ page'[w] \in Pages
      /\ \A v \in EnumWorkers \ {w} : page'[v] = page[v]
  <2>1. page \in [EnumWorkers -> Pages]
    BY DEF IInv, Shapes
  <2>2. page'[w] = [users |-> plan.users, next |-> plan.next, reached |-> plan.reached,
                    rows |-> rows, last |-> last]
    BY <1>3, <2>1 DEF plan
  <2>3. page'[w] \in Pages
    BY <1>2, <1>4, <2>2 DEF Pages
  <2> QED BY <1>3, <2>1, <2>2, <2>3
<1>6. Owners'
  <2> SUFFICES ASSUME NEW v \in EnumWorkers PROVE (Owns(v) /\ Brings(v))'
    BY DEF Owners
  <2>0. phase \in [EnumWorkers -> {"idle", "fetch", "commit", "rebalance", "gone"}]
        /\ Owns(v) /\ Brings(v)
    BY DEF IInv, Shapes, Owners
  <2>1. CASE v = w
    <3>1. Owns(w)'
      BY <1>1, <2>0, <2>1 DEF Owns, Ids
    <3>2. Brings(w)'
      <4>1. copy'[w].next = next /\ copy'[w].upper = upper
        BY <1>1
      <4> HIDE DEF next, upper
      <4> QED BY <1>2, <1>4, <1>5, <4>1 DEF Brings
    <3> QED BY <2>1, <3>1, <3>2
  <2>2. CASE v # w
    BY <1>1, <1>5, <2>0, <2>2 DEF Owns, Brings, Ids
  <2> QED BY <2>1, <2>2
<1>7. Shapes'
  <2>1. page' \in [EnumWorkers -> Pages]
    BY <1>3, <1>5 DEF IInv, Shapes
  <2> QED BY <1>1, <2>1 DEF IInv, Shapes
<1>8. Ordered' /\ NothingSkipped'
  BY <1>1 DEF IInv, Ordered, NothingSkipped, Ids
<1> QED BY <1>6, <1>7, <1>8 DEF IInv

\* A worker's own row, changed.
LEMMA RowChanged ==
  ASSUME shards \in Seq(ShardRows), NEW o \in Ids, NEW row \in ShardRows,
         shards' = [shards EXCEPT ![o] = row]
  PROVE  /\ shards' \in Seq(ShardRows) /\ Ids' = Ids /\ shards'[o] = row
         /\ \A j \in Ids \ {o} : shards'[j] = shards[j]
  BY DEF Ids

\* What a worker past its claim holds.
LEMMA Holding ==
  ASSUME IInv, NEW w \in EnumWorkers, own[w] # 0
  PROVE  /\ own[w] \in Ids /\ own[w] \in Nat /\ shards[own[w]] \in ShardRows
         /\ shards[own[w]].status = "running"
         /\ copy[w] = [next |-> shards[own[w]].next, upper |-> shards[own[w]].upper]
         /\ shards[own[w]].lower <= shards[own[w]].next
         /\ shards[own[w]].next <= shards[own[w]].upper
         /\ \A v \in EnumWorkers \ {w} : own[v] # own[w]
<1>1. Owns(w)
  BY DEF IInv, Owners
<1>2. own[w] \in Ids
  BY <1>1 DEF Owns
<1>3. shards[own[w]] \in ShardRows /\ own[w] \in Nat
  BY <1>2 DEF IInv, Shapes, Ids
<1> QED BY <1>1, <1>2, <1>3 DEF Owns, IInv, Ordered

\* The checkpoint moves to the end of the page, whose users are discovered by then.
LEMMA CommitKeeps ==
  ASSUME IInv, NEW w \in EnumWorkers, CommitPage(w)
  PROVE  IInv'
<1> DEFINE o == own[w]
           row == [shards[o] EXCEPT !.next = page[w].next,
                                    !.status = IF page[w].reached THEN "completed" ELSE "running"]
<1>1. phase[w] = "commit" /\ o # 0 /\ Brings(w)
  <2>1. Owns(w) /\ Brings(w)
    BY DEF IInv, Owners
  <2> QED BY <2>1 DEF CommitPage, Owns
<1>2. /\ o \in Ids /\ o \in Nat /\ shards[o] \in ShardRows
      /\ copy[w] = [next |-> shards[o].next, upper |-> shards[o].upper]
      /\ \A v \in EnumWorkers \ {w} : own[v] # o
  BY <1>1, Holding
<1>3. /\ shards' = [shards EXCEPT ![o] = row]
      /\ discovered' = discovered \cup page[w].users
      /\ UNCHANGED <<seeded, up, faults>>
      /\ page' = [page EXCEPT ![w] = NoPage]
  BY DEF CommitPage
<1>4. /\ phase' = [phase EXCEPT ![w] = IF page[w].reached THEN "idle" ELSE "rebalance"]
      /\ own' = [own EXCEPT ![w] = IF page[w].reached THEN 0 ELSE o]
      /\ copy' = [copy EXCEPT ![w] = IF page[w].reached THEN NoCopy
                                     ELSE [copy[w] EXCEPT !.next = page[w].next]]
  BY DEF CommitPage, Become
<1>5. page[w] \in Pages /\ page[w].users \in SUBSET Users /\ page[w].next \in Nat
  BY DEF IInv, Shapes, Pages
<1>6. page[w].next >= shards[o].next /\ page[w].next <= shards[o].upper
  BY <1>1, <1>2 DEF Brings
<1>7. /\ row \in ShardRows /\ row.lower = shards[o].lower /\ row.upper = shards[o].upper
      /\ row.next = page[w].next
      /\ row.status = IF page[w].reached THEN "completed" ELSE "running"
  <2> DEFINE status == IF page[w].reached THEN "completed" ELSE "running"
  <2>1. status \in Statuses /\ page[w].next \in 0 .. Cutoff
    <3>1. shards[o].upper \in 0 .. Cutoff /\ Cutoff \in Nat
      BY <1>2, EnumAssumption DEF ShardRows
    <3> QED BY <1>5, <1>6, <3>1 DEF Statuses
  <2> HIDE DEF status, o
  <2>2. row = [shards[o] EXCEPT !.next = page[w].next, !.status = status]
    BY DEF status
  <2> QED BY <1>2, <2>1, <2>2 DEF ShardRows, status
<1> HIDE DEF row, o
<1>8. /\ shards' \in Seq(ShardRows) /\ Ids' = Ids /\ shards'[o] = row
      /\ \A j \in Ids \ {o} : shards'[j] = shards[j]
  <2>1. shards \in Seq(ShardRows)
    BY DEF IInv, Shapes
  <2> QED BY <1>2, <1>3, <1>7, <2>1, RowChanged
<1>9. Ordered'
  <2>1. shards[o].lower <= page[w].next /\ page[w].next <= shards[o].upper
    <3>1. shards[o].lower \in Nat /\ shards[o].next \in Nat
      BY <1>2, EnumAssumption DEF ShardRows
    <3> QED BY <1>2, <1>5, <1>6, <3>1 DEF IInv, Ordered
  <2>2. \A i \in Ids : shards'[i].lower <= shards'[i].next /\ shards'[i].next <= shards'[i].upper
    BY <1>7, <1>8, <2>1 DEF IInv, Ordered
  <2> QED BY <1>8, <2>2 DEF Ordered
<1>10. NothingSkipped'
  <2> SUFFICES ASSUME NEW i \in Ids, NEW id \in Users, shards'[i].lower < id, id <= shards'[i].next
               PROVE  id \in discovered \/ id \in page[w].users
    BY <1>3, <1>8 DEF NothingSkipped
  <2>1. CASE i # o
    BY <1>8, <2>1 DEF IInv, NothingSkipped
  <2>2. CASE i = o
    <3>1. shards[o].lower < id /\ id <= page[w].next
      BY <1>7, <1>8, <2>2
    <3>2. id <= shards[o].next => id \in discovered
      BY <1>2, <3>1 DEF IInv, NothingSkipped
    <3>3. copy[w].next < id => id \in page[w].users
      BY <1>1, <3>1 DEF Brings
    <3>4. copy[w].next = shards[o].next /\ shards[o].next \in Nat /\ id \in Nat
      BY <1>2, EnumAssumption DEF ShardRows
    <3> QED BY <3>2, <3>3, <3>4
  <2> QED BY <2>1, <2>2
<1>11. Owners'
  <2> SUFFICES ASSUME NEW v \in EnumWorkers PROVE (Owns(v) /\ Brings(v))'
    BY DEF Owners
  <2>0. /\ own \in [EnumWorkers -> Nat] /\ copy \in [EnumWorkers -> Copies]
        /\ phase \in [EnumWorkers -> {"idle", "fetch", "commit", "rebalance", "gone"}]
        /\ page \in [EnumWorkers -> Pages]
    BY DEF IInv, Shapes
  <2>1. CASE v = w /\ page[w].reached
    <3>1. phase'[w] = "idle" /\ own'[w] = 0
      BY <1>4, <2>0, <2>1
    <3> QED BY <2>1, <3>1 DEF Owns, Brings
  <2>2. CASE v = w /\ ~page[w].reached
    <3>1. phase'[w] = "rebalance" /\ own'[w] = o /\ copy'[w] = [copy[w] EXCEPT !.next = page[w].next]
          /\ \A u \in EnumWorkers \ {w} : own'[u] = own[u]
      BY <1>4, <2>0, <2>2
    <3>2. copy'[w] = [next |-> page[w].next, upper |-> shards[o].upper]
      BY <1>2, <3>1
    <3>3. /\ o \in Ids' /\ shards'[o].status = "running"
          /\ copy'[w] = [next |-> shards'[o].next, upper |-> shards'[o].upper]
      BY <1>2, <1>7, <1>8, <2>2, <3>2
    <3>4. \A u \in EnumWorkers \ {w} : own'[u] # o
      BY <1>2, <3>1
    <3> QED BY <2>2, <3>1, <3>3, <3>4, <1>1 DEF Owns, Brings, o
  <2>3. CASE v # w
    <3>1. /\ phase'[v] = phase[v] /\ own'[v] = own[v] /\ copy'[v] = copy[v] /\ page'[v] = page[v]
          /\ \A u \in EnumWorkers : own'[u] \in {own[u], 0}
      BY <1>3, <1>4, <2>0, <2>3 DEF o
    <3>2. Owns(v) /\ Brings(v) /\ own[v] # o
      BY <1>2, <2>3 DEF IInv, Owners
    <3> QED BY <1>8, <3>1, <3>2 DEF Owns, Brings
  <2> QED BY <2>1, <2>2, <2>3
<1>12. Shapes'
  <2>1. NoPage \in Pages /\ NoCopy \in Copies /\ [copy[w] EXCEPT !.next = page[w].next] \in Copies
    <3>1. copy[w] \in Copies
      BY DEF IInv, Shapes
    <3> QED BY <1>5, <3>1 DEF NoPage, NoCopy, Pages, Copies
  <2>2. discovered' \in SUBSET Users
    BY <1>3, <1>5 DEF IInv, Shapes
  <2>3. enumComplete' \in BOOLEAN
    BY DEF CommitPage
  <2>4. /\ page' \in [EnumWorkers -> Pages] /\ own' \in [EnumWorkers -> Nat]
        /\ copy' \in [EnumWorkers -> Copies]
        /\ phase' \in [EnumWorkers -> {"idle", "fetch", "commit", "rebalance", "gone"}]
    BY <1>2, <1>3, <1>4, <2>1 DEF IInv, Shapes
  <2> QED BY <1>3, <1>8, <2>2, <2>3, <2>4 DEF IInv, Shapes
<1> QED BY <1>9, <1>10, <1>11, <1>12 DEF IInv

\* A shard given back has no worker and keeps its checkpoint.
LEMMA RequeueKeeps ==
  ASSUME IInv, NEW w \in EnumWorkers, RequeueEnumerationShard(w)
  PROVE  IInv'
<1> DEFINE o == own[w]
           row == [shards[o] EXCEPT !.status = "retry"]
<1>1. o # 0
  BY DEF RequeueEnumerationShard, IInv, Owners, Owns
<1>2. /\ o \in Ids /\ o \in Nat /\ shards[o] \in ShardRows
      /\ \A v \in EnumWorkers \ {w} : own[v] # o
  BY <1>1, Holding
<1>3. /\ shards' = [shards EXCEPT ![o] = row]
      /\ UNCHANGED <<enumComplete, discovered, seeded, page, up, faults>>
      /\ phase' = [phase EXCEPT ![w] = "idle"] /\ own' = [own EXCEPT ![w] = 0]
      /\ copy' = [copy EXCEPT ![w] = NoCopy]
  BY DEF RequeueEnumerationShard, Become
<1>4. /\ row \in ShardRows /\ row.lower = shards[o].lower /\ row.upper = shards[o].upper
      /\ row.next = shards[o].next
  <2> HIDE DEF o
  <2> QED BY <1>2 DEF ShardRows, Statuses
<1> HIDE DEF row, o
<1>5. /\ shards' \in Seq(ShardRows) /\ Ids' = Ids /\ shards'[o] = row
      /\ \A j \in Ids \ {o} : shards'[j] = shards[j]
  <2>1. shards \in Seq(ShardRows)
    BY DEF IInv, Shapes
  <2> QED BY <1>2, <1>3, <1>4, <2>1, RowChanged
<1>6. Ordered' /\ NothingSkipped'
  <2>1. \A j \in Ids' : /\ j \in Ids /\ shards'[j].lower = shards[j].lower
                        /\ shards'[j].next = shards[j].next /\ shards'[j].next <= shards'[j].upper
    BY <1>4, <1>5 DEF IInv, Ordered
  <2> QED BY <1>3, <1>5, <2>1, RowsKept DEF IInv
<1>7. Owners'
  <2> SUFFICES ASSUME NEW v \in EnumWorkers PROVE (Owns(v) /\ Brings(v))'
    BY DEF Owners
  <2>0. /\ own \in [EnumWorkers -> Nat] /\ copy \in [EnumWorkers -> Copies]
        /\ phase \in [EnumWorkers -> {"idle", "fetch", "commit", "rebalance", "gone"}]
    BY DEF IInv, Shapes
  <2>1. CASE v = w
    BY <1>3, <2>0, <2>1 DEF Owns, Brings
  <2>2. CASE v # w
    <3>1. /\ phase'[v] = phase[v] /\ own'[v] = own[v] /\ copy'[v] = copy[v] /\ page'[v] = page[v]
          /\ \A u \in EnumWorkers : own'[u] \in {own[u], 0}
      BY <1>3, <2>0, <2>2 DEF o
    <3>2. Owns(v) /\ Brings(v) /\ own[v] # o
      BY <1>2, <2>2 DEF IInv, Owners
    <3> QED BY <1>5, <3>1, <3>2 DEF Owns, Brings
  <2> QED BY <2>1, <2>2
<1>8. Shapes'
  <2>1. NoCopy \in Copies
    BY DEF NoCopy, Copies
  <2> QED BY <1>3, <1>5, <2>1 DEF IInv, Shapes
<1> QED BY <1>6, <1>7, <1>8 DEF IInv

\* A worker that stops on a capacity error leaves its shard to the watchdog.
LEMMA StopKeeps ==
  ASSUME IInv, NEW w \in EnumWorkers, StopOnCapacityError(w)
  PROVE  IInv'
<1>1. /\ phase' = [phase EXCEPT ![w] = "gone"] /\ own' = [own EXCEPT ![w] = 0]
      /\ copy' = [copy EXCEPT ![w] = NoCopy]
      /\ faults < MaxFaults /\ faults' = faults + 1
      /\ UNCHANGED <<shards, enumComplete, discovered, seeded, page, up>>
  BY DEF StopOnCapacityError, Become
<1>2. Ordered' /\ NothingSkipped'
  BY <1>1 DEF IInv, Ordered, NothingSkipped, Ids
<1>3. Owners'
  <2> SUFFICES ASSUME NEW v \in EnumWorkers PROVE (Owns(v) /\ Brings(v))'
    BY DEF Owners
  <2>0. /\ own \in [EnumWorkers -> Nat] /\ copy \in [EnumWorkers -> Copies]
        /\ phase \in [EnumWorkers -> {"idle", "fetch", "commit", "rebalance", "gone"}]
    BY DEF IInv, Shapes
  <2>1. CASE v = w
    BY <1>1, <2>0, <2>1 DEF Owns, Brings
  <2>2. CASE v # w
    <3>1. /\ phase'[v] = phase[v] /\ own'[v] = own[v] /\ copy'[v] = copy[v] /\ page'[v] = page[v]
          /\ \A u \in EnumWorkers : own'[u] \in {own[u], 0}
      BY <1>1, <2>0, <2>2
    <3>2. Owns(v) /\ Brings(v) /\ shards' = shards /\ Ids' = Ids
      BY <1>1 DEF IInv, Owners, Ids
    <3> QED BY <3>1, <3>2 DEF Owns, Brings
  <2> QED BY <2>1, <2>2
<1>4. Shapes'
  <2>1. NoCopy \in Copies /\ MaxFaults \in Nat
    BY EnumAssumption DEF NoCopy, Copies
  <2> QED BY <1>1, <2>1 DEF IInv, Shapes
<1> QED BY <1>2, <1>3, <1>4 DEF IInv

\* Repair shards start at their lower bound: nothing is behind their checkpoints.
LEMMA SeedKeeps ==
  ASSUME IInv, NEW g \in RepairRanges, SeedEnumerationRepair(g)
  PROVE  IInv'
<1> DEFINE new == RepairShards(g[1], g[2], g[3])
<1>1. /\ shards' = shards \o new /\ enumComplete' = FALSE /\ seeded' = seeded \cup {g}
      /\ UNCHANGED <<discovered, workerVars, up, faults>>
  BY DEF SeedEnumerationRepair
<1>2. new \in [1 .. g[3] -> ShardRows] /\ g[3] \in Nat /\ \A k \in 1 .. g[3] : Fresh(new[k])
  BY RepairShardsAreFresh
<1> HIDE DEF new
<1>3. Extends(shards', shards, g[3], new)
  <2>1. shards \in Seq(ShardRows)
    BY DEF IInv, Shapes
  <2>2. Extends(shards \o new, shards, g[3], new)
    BY <1>2, <2>1, Appended
  <2> QED BY <1>1, <2>2
<1>4. Ordered' /\ NothingSkipped'
  <2>1. \A i \in Ids' : \/ Fresh(shards'[i])
                        \/ /\ i \in Ids /\ shards'[i].lower = shards[i].lower
                           /\ shards'[i].next = shards[i].next
                           /\ shards'[i].next <= shards'[i].upper
    BY <1>2, <1>3 DEF IInv, Ordered, Ids, Extends
  <2>2. shards' \in Seq(ShardRows)
    BY <1>3 DEF Extends
  <2> QED BY <1>1, <2>1, <2>2, RowsKept DEF IInv
<1>5. Owners'
  <2>1. \A i \in Ids : i \in Ids' /\ shards'[i] = shards[i]
    BY <1>3 DEF Ids, Extends
  <2> QED BY <1>1, <2>1, OwnersKept DEF IInv
<1>6. Shapes'
  BY <1>1, <1>3 DEF IInv, Shapes, workerVars, Extends
<1> QED BY <1>4, <1>5, <1>6 DEF IInv

\* Shard o was cut: it keeps the first part, the others are new rows.
Cut(o, pieces) ==
  LET parts == Split(shards[o].next, shards[o].upper, pieces) IN
  /\ pieces \in Nat /\ pieces >= 2
  /\ shards' \in Seq(ShardRows) /\ Ids \subseteq Ids' /\ Len(shards) \in Nat
  /\ shards'[o] \in ShardRows /\ shards'[o] = [shards[o] EXCEPT !.upper = parts[1].upper]
  /\ \A j \in Ids \ {o} : shards'[j] = shards[j]
  /\ \A k \in 2 .. pieces :
       /\ Len(shards) + (k - 1) \in Ids' \ Ids
       /\ shards'[Len(shards) + (k - 1)] =
            Shard(shards[o].purpose, parts[k].lower, parts[k].upper)
  /\ \A i \in Ids' \ Ids : \E k \in 2 .. pieces : i = Len(shards) + (k - 1)

\* The shard stays as it is, and the worker goes on with it or the process ends.
Uncut(w) ==
  /\ shards' = shards
  /\ \/ Become(w, "fetch", own[w], [copy[w] EXCEPT !.upper = shards[own[w]].upper])
     \/ UNCHANGED <<phase, own, copy>>

\* A rebalance that changes the rows cuts the rest of the shard of the worker.
LEMMA RebalanceCuts ==
  ASSUME IInv, NEW w \in EnumWorkers, Rebalance(w), ~Uncut(w)
  PROVE  \E pieces \in Nat : /\ Cut(own[w], pieces)
                             /\ phase' = [phase EXCEPT ![w] = "fetch"] /\ own' = own
                             /\ copy' = [copy EXCEPT ![w].upper = shards'[own[w]].upper]
<1> DEFINE o == own[w]
           s == shards[o]
           pieces == Desired - Cardinality(Uncompleted) + 1
           parts == Split(s.next, s.upper, pieces)
           cut == [shards EXCEPT ![o].upper = parts[1].upper]
           new == [k \in 1 .. (pieces - 1) |-> Shard(s.purpose, parts[k + 1].lower, parts[k + 1].upper)]
<1>1. /\ Desired >= 2 /\ pieces >= 2 /\ s.upper - s.next >= pieces * MinPiece
      /\ shards' = cut \o new
      /\ phase' = [phase EXCEPT ![w] = "fetch"] /\ own' = [own EXCEPT ![w] = own[w]]
      /\ copy' = [copy EXCEPT ![w] = [copy[w] EXCEPT !.upper = parts[1].upper]]
  BY DEF Rebalance, Become, Uncut
<1>2. /\ o \in Ids /\ o \in Nat /\ s \in ShardRows /\ s.lower <= s.next /\ s.next <= s.upper
      /\ copy[w] = [next |-> s.next, upper |-> s.upper]
  <2>1. Owns(w) /\ phase[w] = "rebalance"
    BY DEF IInv, Owners, Rebalance
  <2>2. own[w] # 0
    BY <2>1 DEF Owns
  <2> QED BY <2>2, Holding
<1>3. pieces \in Nat
  <2>1. IsFiniteSet(Uncompleted)
    <3>1. Uncompleted \subseteq 1 .. Len(shards) /\ Len(shards) \in Nat
      BY DEF Uncompleted, Ids, IInv, Shapes
    <3>2. IsFiniteSet(1 .. Len(shards))
      BY <3>1, FS_Interval
    <3> QED BY <3>1, <3>2, FS_Subset
  <2>2. Cardinality(Uncompleted) \in Nat
    BY <2>1, FS_CardinalityType
  <2>3. pieces \in Int
    BY <2>2, EnumAssumption
  <2> HIDE DEF pieces
  <2>4. pieces >= 2
    BY <1>1
  <2> QED BY <2>3, <2>4
<1> HIDE DEF pieces
<1>4. s.next \in Nat /\ s.upper \in Nat /\ s.upper <= Cutoff /\ Cutoff \in Nat
      /\ s.purpose \in Purposes /\ s.lower \in Nat
  BY <1>2, EnumAssumption DEF ShardRows
<1>5. Tiles(parts, s.next, s.upper, pieces)
  <2>1. pieces >= 2
    BY <1>1
  <2> HIDE DEF s
  <2> QED BY <1>2, <1>3, <1>4, <2>1, SplitTiles
<1> DEFINE row == [s EXCEPT !.upper = parts[1].upper]
<1> HIDE DEF parts
<1>6. parts[1].upper \in 0 .. Cutoff
  <2>1. 1 \in 1 .. pieces
    BY <1>1, <1>3
  <2>2. parts[1].lower \in s.next .. s.upper /\ parts[1].upper \in parts[1].lower .. s.upper
    BY <1>5, <2>1 DEF Tiles
  <2> QED BY <1>4, <2>2
<1>7. row \in ShardRows
  <2> HIDE DEF s
  <2> QED BY <1>2, <1>6 DEF ShardRows
<1>8. /\ cut \in Seq(ShardRows) /\ DOMAIN cut = Ids /\ cut[o] = row /\ Len(cut) = Len(shards)
      /\ \A j \in Ids \ {o} : cut[j] = shards[j]
  <2>1. shards \in Seq(ShardRows)
    BY DEF IInv, Shapes
  <2>2. cut = [shards EXCEPT ![o] = row]
    OBVIOUS
  <2> HIDE DEF row, s, cut
  <2> QED BY <1>2, <1>7, <2>1, <2>2 DEF Ids
<1>9. pieces - 1 \in Nat /\ new \in [1 .. (pieces - 1) -> ShardRows]
  <2>1. ASSUME NEW k \in 1 .. (pieces - 1)
        PROVE  Shard(s.purpose, parts[k + 1].lower, parts[k + 1].upper) \in ShardRows
    <3>1. k + 1 \in 1 .. pieces
      BY <1>3
    <3>2. parts[k + 1].lower \in 0 .. Cutoff
          /\ parts[k + 1].upper \in parts[k + 1].lower .. Cutoff
      BY <1>4, <1>5, <3>1 DEF Tiles
    <3> HIDE DEF s
    <3> QED BY <1>4, <3>2, ShardIsFresh DEF Fresh
  <2> QED BY <1>1, <1>3, <2>1
<1>10. Extends(shards', cut, pieces - 1, new)
  <2> HIDE DEF cut, new
  <2>1. Extends(cut \o new, cut, pieces - 1, new)
    BY <1>8, <1>9, Appended
  <2> QED BY <1>1, <2>1 DEF cut, new
<1> HIDE DEF cut
<1>11. ASSUME NEW k \in 2 .. pieces
       PROVE  /\ Len(shards) + (k - 1) \in Ids' \ Ids
              /\ shards'[Len(shards) + (k - 1)] = Shard(s.purpose, parts[k].lower, parts[k].upper)
  <2>1. k - 1 \in 1 .. (pieces - 1) /\ (k - 1) + 1 = k
    BY <1>3
  <2>2. new[k - 1] = Shard(s.purpose, parts[k].lower, parts[k].upper)
    BY <2>1
  <2> HIDE DEF new
  <2> QED BY <1>8, <1>10, <2>1, <2>2 DEF Extends, Ids
<1>12. ASSUME NEW i \in Ids' \ Ids PROVE \E k \in 2 .. pieces : i = Len(shards) + (k - 1)
  <2> HIDE DEF new
  <2>1. i - Len(shards) \in 1 .. (pieces - 1) /\ Len(shards) \in Nat /\ i \in Nat
    <3>1. i \in DOMAIN shards' \ DOMAIN cut
      BY <1>8 DEF Ids
    <3> QED BY <1>8, <1>10, <3>1 DEF Extends
  <2>2. (i - Len(shards)) + 1 \in 2 .. pieces /\ i = Len(shards) + (((i - Len(shards)) + 1) - 1)
    BY <1>3, <2>1
  <2> QED BY <2>2
<1> HIDE DEF new, row
<1>13. /\ shards' \in Seq(ShardRows) /\ Ids \subseteq Ids' /\ Len(shards) \in Nat
       /\ shards'[o] = row /\ \A j \in Ids \ {o} : shards'[j] = shards[j]
  BY <1>2, <1>8, <1>10 DEF Extends, Ids
<1>14. Cut(o, pieces)
  BY <1>1, <1>3, <1>7, <1>11, <1>12, <1>13 DEF Cut, row, parts
<1>15. own' = own
  BY <1>1 DEF IInv, Shapes
<1>16. copy' = [copy EXCEPT ![w].upper = shards'[o].upper]
  <2>1. row.upper = parts[1].upper
    <3> HIDE DEF s
    <3> QED BY <1>2 DEF row, ShardRows
  <2> QED BY <1>1, <1>13, <2>1
<1> QED BY <1>1, <1>3, <1>14, <1>15, <1>16

\* What a cut leaves of the shard and what it makes.
LEMMA CutRows ==
  ASSUME Shapes, NEW o \in Ids, NEW pieces \in Nat, Cut(o, pieces), shards[o].next <= shards[o].upper
  PROVE  LET parts == Split(shards[o].next, shards[o].upper, pieces) IN
         /\ Tiles(parts, shards[o].next, shards[o].upper, pieces)
         /\ shards[o].next \in Nat /\ shards[o].upper \in Nat /\ shards[o].lower \in Nat
         /\ shards'[o].lower = shards[o].lower /\ shards'[o].next = shards[o].next
         /\ shards'[o].purpose = shards[o].purpose /\ shards'[o].status = shards[o].status
         /\ shards'[o].upper = parts[1].upper
         /\ shards[o].next <= shards'[o].upper /\ shards'[o].upper <= shards[o].upper
         /\ \A k \in 2 .. pieces :
              LET i == Len(shards) + (k - 1) IN
              /\ Fresh(shards'[i]) /\ shards'[i].purpose = shards[o].purpose
              /\ shards'[i].lower = parts[k].lower /\ shards'[i].upper = parts[k].upper
<1> DEFINE s == shards[o]
           parts == Split(s.next, s.upper, pieces)
<1>1. s \in ShardRows /\ pieces >= 2
  BY DEF Shapes, Ids, Cut
<1>2. s.next \in Nat /\ s.upper \in Nat /\ s.lower \in Nat /\ s.upper <= Cutoff /\ Cutoff \in Nat
      /\ s.purpose \in Purposes
  BY <1>1, EnumAssumption DEF ShardRows
<1>3. Tiles(parts, s.next, s.upper, pieces)
  <2>1. s.next <= s.upper
    OBVIOUS
  <2> HIDE DEF s
  <2> QED BY <1>1, <1>2, <2>1, SplitTiles
<1>4. /\ shards'[o] = [s EXCEPT !.upper = parts[1].upper]
      /\ \A k \in 2 .. pieces : shards'[Len(shards) + (k - 1)] =
            Shard(s.purpose, parts[k].lower, parts[k].upper)
  BY DEF Cut
<1> HIDE DEF s, parts
<1>5. /\ shards'[o].lower = s.lower /\ shards'[o].next = s.next /\ shards'[o].purpose = s.purpose
      /\ shards'[o].status = s.status /\ shards'[o].upper = parts[1].upper
  BY <1>1, <1>4 DEF ShardRows
<1>6. s.next <= shards'[o].upper /\ shards'[o].upper <= s.upper
  <2>1. 1 \in 1 .. pieces
    BY <1>1
  <2>2. parts[1].lower = s.next /\ parts[1].upper \in parts[1].lower .. s.upper
    BY <1>3, <2>1 DEF Tiles
  <2> QED BY <1>2, <1>5, <2>2
<1>7. ASSUME NEW k \in 2 .. pieces
      PROVE  LET i == Len(shards) + (k - 1) IN
             /\ Fresh(shards'[i]) /\ shards'[i].purpose = s.purpose
             /\ shards'[i].lower = parts[k].lower /\ shards'[i].upper = parts[k].upper
  <2>1. k \in 1 .. pieces
    OBVIOUS
  <2>2. parts[k].lower \in s.next .. s.upper /\ parts[k].upper \in parts[k].lower .. s.upper
    BY <1>3, <2>1 DEF Tiles
  <2>3. parts[k].lower \in 0 .. Cutoff /\ parts[k].upper \in parts[k].lower .. Cutoff
    BY <1>2, <2>2
  <2>4. shards'[Len(shards) + (k - 1)] = Shard(s.purpose, parts[k].lower, parts[k].upper)
    BY <1>4
  <2>5. LET q == Shard(s.purpose, parts[k].lower, parts[k].upper) IN
        Fresh(q) /\ q.purpose = s.purpose /\ q.lower = parts[k].lower /\ q.upper = parts[k].upper
    BY <1>2, <2>3, ShardIsFresh
  <2> QED BY ONLY <2>4, <2>5
<1> QED BY <1>2, <1>3, <1>5, <1>6, <1>7 DEF s, parts

\* A cut starts at the checkpoint or above it, in the shard of the worker that cuts.
LEMMA RebalanceKeeps ==
  ASSUME IInv, NEW w \in EnumWorkers, Rebalance(w)
  PROVE  IInv'
<1> DEFINE o == own[w]
<1>1. /\ o \in Ids /\ copy[w] = [next |-> shards[o].next, upper |-> shards[o].upper]
      /\ shards[o].status = "running" /\ shards[o].next <= shards[o].upper
      /\ \A v \in EnumWorkers \ {w} : own[v] # o
  <2>1. Owns(w) /\ phase[w] = "rebalance"
    BY DEF IInv, Owners, Rebalance
  <2>2. own[w] # 0
    BY <2>1 DEF Owns
  <2> QED BY <2>2, Holding
<1>2. UNCHANGED <<enumComplete, discovered, seeded, page, faults>> /\ up' \in BOOLEAN
  BY DEF Rebalance, IInv, Shapes
<1>3. CASE Uncut(w)
  <2>1. /\ shards' = shards /\ own' = own /\ copy' = copy
        /\ phase' \in {phase, [phase EXCEPT ![w] = "fetch"]}
    <3>1. own' = own /\ copy \in [EnumWorkers -> Copies] /\ shards' = shards
      BY <1>3 DEF Uncut, Become, IInv, Shapes
    <3>2. [copy[w] EXCEPT !.upper = shards[o].upper] = copy[w]
      BY <1>1
    <3>3. copy' = copy /\ phase' \in {phase, [phase EXCEPT ![w] = "fetch"]}
      BY <1>3, <3>1, <3>2 DEF Uncut, Become
    <3> QED BY <3>1, <3>3
  <2>2. Owners'
    <3> SUFFICES ASSUME NEW v \in EnumWorkers PROVE (Owns(v) /\ Brings(v))'
      BY DEF Owners
    <3>1. /\ phase \in [EnumWorkers -> {"idle", "fetch", "commit", "rebalance", "gone"}]
          /\ Owns(v) /\ Brings(v) /\ phase[w] = "rebalance" /\ own[w] # 0
      BY DEF IInv, Shapes, Owners, Owns, Rebalance
    <3>2. phase'[v] = phase[v] \/ (v = w /\ phase'[v] = "fetch")
      BY <2>1, <3>1
    <3> QED BY <1>2, <2>1, <3>1, <3>2 DEF Owns, Brings, Ids
  <2>3. Shapes' /\ Ordered' /\ NothingSkipped'
    BY <1>2, <2>1 DEF IInv, Shapes, Ordered, NothingSkipped, Ids
  <2> QED BY <2>2, <2>3 DEF IInv
<1>4. CASE ~Uncut(w)
  <2>1. PICK pieces \in Nat : /\ Cut(o, pieces) /\ phase' = [phase EXCEPT ![w] = "fetch"]
                              /\ own' = own
                              /\ copy' = [copy EXCEPT ![w].upper = shards'[o].upper]
    BY <1>4, RebalanceCuts
  <2>2. /\ shards'[o].lower = shards[o].lower /\ shards'[o].next = shards[o].next
        /\ shards'[o].status = shards[o].status /\ shards[o].next <= shards'[o].upper
        /\ \A k \in 2 .. pieces : Fresh(shards'[Len(shards) + (k - 1)])
    BY <1>1, <2>1, CutRows DEF IInv
  <2>3. /\ shards' \in Seq(ShardRows) /\ Ids \subseteq Ids'
        /\ \A j \in Ids \ {o} : shards'[j] = shards[j]
        /\ \A i \in Ids' \ Ids : \E k \in 2 .. pieces : i = Len(shards) + (k - 1)
        /\ shards'[o] \in ShardRows
    BY <2>1 DEF Cut
  <2>4. Ordered' /\ NothingSkipped'
    <3>1. ASSUME NEW i \in Ids'
          PROVE  \/ Fresh(shards'[i])
                 \/ /\ i \in Ids /\ shards'[i].lower = shards[i].lower
                    /\ shards'[i].next = shards[i].next /\ shards'[i].next <= shards'[i].upper
      <4>1. CASE i = o
        BY <1>1, <2>2, <4>1
      <4>2. CASE i \in Ids \ {o}
        BY <2>3, <4>2 DEF IInv, Ordered
      <4>3. CASE i \notin Ids
        BY <2>2, <2>3, <4>3
      <4> QED BY <4>1, <4>2, <4>3
    <3> QED BY <1>2, <2>3, <3>1, RowsKept DEF IInv
  <2>5. Owners'
    <3> SUFFICES ASSUME NEW v \in EnumWorkers PROVE (Owns(v) /\ Brings(v))'
      BY DEF Owners
    <3>0. /\ phase \in [EnumWorkers -> {"idle", "fetch", "commit", "rebalance", "gone"}]
          /\ copy \in [EnumWorkers -> Copies]
      BY DEF IInv, Shapes
    <3>1. CASE v = w
      <4>1. phase'[w] = "fetch" /\ own'[w] = o /\ copy'[w] = [copy[w] EXCEPT !.upper = shards'[o].upper]
        BY <2>1, <3>0
      <4>2. copy'[w] = [next |-> shards'[o].next, upper |-> shards'[o].upper]
        BY <1>1, <2>2, <4>1
      <4>3. \A u \in EnumWorkers \ {w} : own'[u] # o
        BY <1>1, <2>1
      <4>4. o \in Ids' /\ shards'[o].status = "running"
        BY <1>1, <2>2, <2>3
      <4>5. own[w] # 0
        BY DEF IInv, Owners, Owns, Rebalance
      <4> HIDE DEF o
      <4> QED BY <3>1, <4>1, <4>2, <4>3, <4>4, <4>5 DEF Owns, Brings, o
    <3>2. CASE v # w
      <4>1. /\ phase'[v] = phase[v] /\ own' = own /\ copy'[v] = copy[v] /\ page' = page
        BY <1>2, <2>1, <3>0, <3>2
      <4>2. Owns(v) /\ Brings(v) /\ own[v] # o
        BY <1>1, <3>2 DEF IInv, Owners
      <4> QED BY <2>3, <4>1, <4>2 DEF Owns, Brings
    <3> QED BY <3>1, <3>2
  <2>6. Shapes'
    <3>1. [copy[w] EXCEPT !.upper = shards'[o].upper] \in Copies
      <4>1. shards'[o].upper \in Nat /\ copy[w] \in Copies
        BY <2>3, EnumAssumption DEF ShardRows, IInv, Shapes
      <4> QED BY <4>1 DEF Copies
    <3>2. copy' \in [EnumWorkers -> Copies] /\ phase' \in [EnumWorkers -> {"idle", "fetch", "commit", "rebalance", "gone"}]
      BY <2>1, <3>1 DEF IInv, Shapes
    <3> QED BY <1>2, <2>1, <2>3, <3>2 DEF IInv, Shapes
  <2> QED BY <2>4, <2>5, <2>6 DEF IInv
<1> QED BY <1>3, <1>4

\* Steps of the process, and steps that change nothing here.
LEMMA RestKeeps ==
  ASSUME IInv, Watchdog \/ Crash \/ Recover \/ UNCHANGED vars
  PROVE  IInv'
<1>1. CASE Watchdog \/ Crash \/ UNCHANGED vars
  <2>1. UNCHANGED <<shards, enumComplete, discovered, seeded, workerVars>>
        /\ up' \in BOOLEAN /\ faults' \in 0 .. MaxFaults
    <3>1. MaxFaults \in Nat /\ up \in BOOLEAN /\ faults \in 0 .. MaxFaults
      BY EnumAssumption DEF IInv, Shapes
    <3>2. CASE Watchdog
      BY <3>1, <3>2 DEF Watchdog, Fail
    <3>3. CASE Crash
      <4>1. faults' \in 0 .. MaxFaults
        BY <3>1, <3>3 DEF Crash
      <4> QED BY <3>3, <4>1 DEF Crash, Fail
    <3>4. CASE UNCHANGED vars
      BY <3>1, <3>4 DEF vars, workerVars
    <3> QED BY <1>1, <3>2, <3>3, <3>4
  <2> QED BY <2>1 DEF IInv, Shapes, Ordered, NothingSkipped, Owners, Owns, Brings, Ids, workerVars
<1>2. CASE Recover
  <2>1. /\ shards' = [i \in Ids |-> [shards[i] EXCEPT !.status = Recovered(@)]]
        /\ up' = TRUE /\ phase' = [w \in EnumWorkers |-> "idle"]
        /\ own' = [w \in EnumWorkers |-> 0] /\ copy' = [w \in EnumWorkers |-> NoCopy]
        /\ page' = [w \in EnumWorkers |-> NoPage]
        /\ UNCHANGED <<enumComplete, discovered, seeded, faults>>
    BY <1>2 DEF Recover
  <2>2. ASSUME NEW i \in Ids
        PROVE  /\ shards'[i] \in ShardRows /\ shards'[i].lower = shards[i].lower
               /\ shards'[i].next = shards[i].next /\ shards'[i].upper = shards[i].upper
               /\ shards'[i].purpose = shards[i].purpose
    <3>1. shards[i] \in ShardRows
      BY DEF IInv, Shapes, Ids
    <3>2. shards'[i] = [shards[i] EXCEPT !.status = Recovered(shards[i].status)]
      BY <2>1
    <3>3. Recovered(shards[i].status) \in Statuses
      BY <3>1 DEF Recovered, ShardRows, Statuses
    <3> HIDE DEF Recovered
    <3> QED BY <3>1, <3>2, <3>3 DEF ShardRows
  <2>3. Ids' = Ids /\ shards' \in Seq(ShardRows)
    <3>1. Ids = 1 .. Len(shards) /\ Len(shards) \in Nat
      BY DEF IInv, Shapes, Ids
    <3>2. shards' \in [1 .. Len(shards) -> ShardRows]
      BY <2>1, <2>2, <3>1
    <3> QED BY <3>1, <3>2 DEF Ids
  <2>4. Ordered' /\ NothingSkipped'
    <3>1. \A i \in Ids' : /\ i \in Ids /\ shards'[i].lower = shards[i].lower
                          /\ shards'[i].next = shards[i].next /\ shards'[i].next <= shards'[i].upper
      BY <2>2, <2>3 DEF IInv, Ordered
    <3> QED BY <2>1, <2>3, <3>1, RowsKept DEF IInv
  <2>5. Owners'
    BY <2>1 DEF Owners, Owns, Brings
  <2>6. Shapes'
    <3>1. NoPage \in Pages /\ NoCopy \in Copies
      BY DEF NoPage, NoCopy, Pages, Copies
    <3> QED BY <2>1, <2>3, <3>1 DEF IInv, Shapes
  <2> QED BY <2>4, <2>5, <2>6 DEF IInv
<1> QED BY <1>1, <1>2

\* Every step keeps the invariant.
LEMMA StepKeeps == IInv /\ [Next]_vars => IInv'
  BY EnsureKeeps, ClaimKeeps, ApplyKeeps, CommitKeeps, RebalanceKeeps, RequeueKeeps, StopKeeps,
     SeedKeeps, RestKeeps DEF Next, WorkerStep

\* The invariant holds always.
LEMMA AlwaysInv == Spec => []IInv
  BY InitIsInv, StepKeeps, PTL DEF Spec

-----------------------------------------------------------------------------
(* The theorems *)

\* TypeOK: every variable has its type, for any range, listing and workers.
THEOREM TypeCorrect == Spec => []TypeOK
<1>1. IInv => TypeOK
  <2> SUFFICES ASSUME IInv PROVE TypeOK
    OBVIOUS
  <2>1. \A i \in Ids : shards[i] \in ShardRows
    BY DEF IInv, Shapes, Ids
  <2>2. \A i \in Ids : /\ shards[i].purpose \in Purposes /\ shards[i].status \in Statuses
                       /\ shards[i].lower \in 0 .. Cutoff /\ shards[i].next \in 0 .. Cutoff
                       /\ shards[i].upper \in 0 .. Cutoff
    BY <2>1 DEF ShardRows
  <2>3. ASSUME NEW w \in EnumWorkers PROVE own[w] \in 0 .. Len(shards)
    <3>1. own[w] = 0 \/ own[w] \in Ids
      BY DEF IInv, Owners, Owns
    <3>2. Ids = 1 .. Len(shards) /\ Len(shards) \in Nat
      BY DEF IInv, Shapes, Ids
    <3> QED BY <3>1, <3>2
  <2> QED BY <2>2, <2>3 DEF IInv, Shapes, TypeOK, Purposes, Statuses
<1> QED BY <1>1, AlwaysInv, PTL

\* NothingSkipped: every user behind the checkpoint of a shard has been
\* enqueued, whatever is split, requeued, repaired and restarted.
THEOREM NoneIsSkipped == Spec => []NothingSkipped
<1>1. IInv => NothingSkipped
  BY DEF IInv
<1> QED BY <1>1, AlwaysInv, PTL

\* OneOwnerPerShard: no two workers walk the same shard, and the one that does
\* has the bounds that the table has.
THEOREM ShardsHaveOneOwner == Spec => []OneOwnerPerShard
<1>1. IInv => OneOwnerPerShard
  BY DEF IInv, Owners, Owns, OneOwnerPerShard
<1> QED BY <1>1, AlwaysInv, PTL

-----------------------------------------------------------------------------
(* The primary shards tile the range *)

\* Steps that leave purposes and bounds alone, and insert repair rows only.
LEMMA TileKept ==
  ASSUME PrimaryShardsTile,
         \A i \in Ids : /\ i \in Ids' /\ shards'[i].purpose = shards[i].purpose
                        /\ shards'[i].lower = shards[i].lower
                        /\ shards'[i].upper = shards[i].upper,
         \A i \in Ids' \ Ids : shards'[i].purpose = "repair"
  PROVE  PrimaryShardsTile'
<1> SUFFICES ASSUME \E i \in Ids' : shards'[i].purpose = "primary", NEW id \in 1 .. Cutoff
             PROVE  \E i \in Ids' : /\ shards'[i].purpose = "primary" /\ Has(shards'[i], id)
                                    /\ \A j \in Ids' \ {i} : shards'[j].purpose = "primary" =>
                                         ~Has(shards'[j], id)
  BY DEF PrimaryShardsTile, Has
<1>1. PICK i \in Ids : /\ shards[i].purpose = "primary" /\ Has(shards[i], id)
                       /\ \A j \in Ids \ {i} : shards[j].purpose = "primary" => ~Has(shards[j], id)
  BY DEF PrimaryShardsTile, Has
<1> QED BY <1>1 DEF Has

\* The first division tiles the ids up to the cutoff.
LEMMA EnsureTiles ==
  ASSUME IInv, NEW w \in EnumWorkers, EnsureEnumerationShards(w)
  PROVE  PrimaryShardsTile'
<1>1. Desired >= 2 /\ shards' = PrimaryShards
  BY DEF EnsureEnumerationShards
<1>2. /\ PrimaryCount \in Nat /\ PrimaryShards \in [1 .. PrimaryCount -> ShardRows]
      /\ \A id \in 1 .. Cutoff : \E k \in 1 .. PrimaryCount :
           /\ Has(PrimaryShards[k], id)
           /\ \A j \in 1 .. PrimaryCount \ {k} : ~Has(PrimaryShards[j], id)
      /\ \A k \in 1 .. PrimaryCount : PrimaryShards[k].purpose = "primary"
  BY <1>1, PrimaryShardsAreFresh
<1>3. Ids' = 1 .. PrimaryCount
  BY <1>1, <1>2 DEF Ids
<1> QED BY <1>1, <1>2, <1>3 DEF PrimaryShardsTile, Has

\* A cut leaves each ID with the one primary shard that has it.
LEMMA CutTiles ==
  ASSUME IInv, PrimaryShardsTile, NEW o \in Ids, NEW pieces \in Nat, Cut(o, pieces)
  PROVE  PrimaryShardsTile'
<1> DEFINE parts == Split(shards[o].next, shards[o].upper, pieces)
           row(k) == Len(shards) + (k - 1)
<1>1. shards[o].lower <= shards[o].next /\ shards[o].next <= shards[o].upper
  BY DEF IInv, Ordered
<1>2. /\ Tiles(parts, shards[o].next, shards[o].upper, pieces)
      /\ shards[o].next \in Nat /\ shards[o].upper \in Nat /\ shards[o].lower \in Nat
      /\ shards'[o].lower = shards[o].lower /\ shards'[o].purpose = shards[o].purpose
      /\ shards'[o].upper = parts[1].upper
      /\ shards[o].next <= shards'[o].upper /\ shards'[o].upper <= shards[o].upper
      /\ \A k \in 2 .. pieces : /\ shards'[row(k)].purpose = shards[o].purpose
                                /\ shards'[row(k)].lower = parts[k].lower
                                /\ shards'[row(k)].upper = parts[k].upper
  BY <1>1, CutRows DEF IInv
<1>3. /\ pieces >= 2 /\ Ids \subseteq Ids' /\ Len(shards) \in Nat
      /\ \A j \in Ids \ {o} : shards'[j] = shards[j]
      /\ \A k \in 2 .. pieces : row(k) \in Ids' \ Ids
      /\ \A i \in Ids' \ Ids : \E k \in 2 .. pieces : i = row(k)
  BY DEF Cut
<1>4. CASE shards[o].purpose # "primary"
  <2> SUFFICES ASSUME \E i \in Ids' : shards'[i].purpose = "primary", NEW id \in 1 .. Cutoff
               PROVE  \E i \in Ids' : /\ shards'[i].purpose = "primary" /\ Has(shards'[i], id)
                                      /\ \A j \in Ids' \ {i} : shards'[j].purpose = "primary" =>
                                           ~Has(shards'[j], id)
    BY DEF PrimaryShardsTile, Has
  <2>1. \A i \in Ids' : shards'[i].purpose = "primary" => i \in Ids \ {o}
    <3> SUFFICES ASSUME NEW i \in Ids', shards'[i].purpose = "primary" PROVE i \in Ids \ {o}
      OBVIOUS
    <3>1. i # o
      BY <1>2, <1>4
    <3>2. CASE i \notin Ids
      <4>1. PICK k \in 2 .. pieces : i = row(k)
        BY <1>3, <3>2
      <4>2. shards'[row(k)].purpose = shards[o].purpose
        BY <1>2
      <4> QED BY <1>4, <4>1, <4>2
    <3> QED BY <3>1, <3>2
  <2>2. PICK i \in Ids : /\ shards[i].purpose = "primary" /\ Has(shards[i], id)
                         /\ \A j \in Ids \ {i} : shards[j].purpose = "primary" =>
                              ~Has(shards[j], id)
    BY <1>3, <2>1 DEF PrimaryShardsTile, Has
  <2>3. i # o
    BY <1>4, <2>2
  <2> QED BY <1>3, <2>1, <2>2, <2>3
<1>5. CASE shards[o].purpose = "primary"
  <2> SUFFICES ASSUME NEW id \in 1 .. Cutoff
               PROVE  \E i \in Ids' : /\ shards'[i].purpose = "primary" /\ Has(shards'[i], id)
                                      /\ \A j \in Ids' \ {i} : shards'[j].purpose = "primary" =>
                                           ~Has(shards'[j], id)
    BY DEF PrimaryShardsTile, Has
  <2>0. id \in Nat
    OBVIOUS
  <2>1. PICK i \in Ids : /\ shards[i].purpose = "primary" /\ Has(shards[i], id)
                         /\ \A j \in Ids \ {i} : shards[j].purpose = "primary" =>
                              ~Has(shards[j], id)
    BY <1>5 DEF PrimaryShardsTile, Has
  <2>2. ASSUME NEW k \in 2 .. pieces, Has(shards'[row(k)], id)
        PROVE  shards[o].next < id /\ id <= shards[o].upper /\ Has(parts[k], id)
    <3>1. k \in 1 .. pieces /\ Has(parts[k], id)
      BY <1>2, <2>2 DEF Has
    <3>2. parts[k].lower \in shards[o].next .. shards[o].upper
          /\ parts[k].upper \in parts[k].lower .. shards[o].upper
      BY <1>2, <3>1 DEF Tiles
    <3>3. parts[k].lower < id /\ id <= parts[k].upper
      BY <3>1 DEF Has
    <3>4. shards[o].next < id /\ id <= shards[o].upper
      <4> HIDE DEF parts
      <4> QED BY <1>2, <2>0, <3>2, <3>3, InRange
    <3> QED BY <3>1, <3>4
  <2>3. Has(shards'[o], id) => Has(shards[o], id)
    <3>1. shards'[o].upper \in Nat
      <4>1. 1 \in 1 .. pieces
        BY <1>3
      <4>2. parts[1].lower \in shards[o].next .. shards[o].upper
            /\ parts[1].upper \in parts[1].lower .. shards[o].upper
        BY <1>2, <4>1 DEF Tiles
      <4> HIDE DEF parts
      <4> QED BY <1>2, <4>2
    <3> QED BY <1>2, <2>0, <3>1 DEF Has
  <2>4. CASE i # o
    <3>1. ~Has(shards[o], id)
      BY <1>5, <2>1, <2>4
    <3>2. \A k \in 2 .. pieces : ~Has(shards'[row(k)], id)
      <4> SUFFICES ASSUME NEW k \in 2 .. pieces, Has(shards'[row(k)], id) PROVE FALSE
        OBVIOUS
      <4>1. shards[o].next < id /\ id <= shards[o].upper
        BY <2>2
      <4> QED BY <1>1, <1>2, <2>0, <3>1, <4>1 DEF Has
    <3>3. shards'[i] = shards[i] /\ i \in Ids'
      BY <1>3, <2>4
    <3>4. ASSUME NEW j \in Ids' \ {i}, shards'[j].purpose = "primary" PROVE ~Has(shards'[j], id)
      <4>1. CASE j = o
        BY <2>3, <3>1, <4>1
      <4>2. CASE j \in Ids \ {o}
        BY <1>3, <2>1, <3>4, <4>2
      <4>3. CASE j \notin Ids
        BY <1>3, <3>2, <4>3
      <4> QED BY <4>1, <4>2, <4>3
    <3> HIDE DEF parts, row
    <3> QED BY <2>1, <3>3, <3>4
  <2>5. CASE i = o /\ id <= shards[o].next
    <3>1. Has(shards'[o], id)
      <4>1. shards'[o].upper \in Nat
        <5>1. 1 \in 1 .. pieces
          BY <1>3
        <5>2. parts[1].lower \in shards[o].next .. shards[o].upper
              /\ parts[1].upper \in parts[1].lower .. shards[o].upper
          BY <1>2, <5>1 DEF Tiles
        <5> HIDE DEF parts
        <5> QED BY <1>2, <5>2
      <4> QED BY <1>2, <2>0, <2>1, <2>5, <4>1 DEF Has
    <3>2. \A k \in 2 .. pieces : ~Has(shards'[row(k)], id)
      <4> SUFFICES ASSUME NEW k \in 2 .. pieces, Has(shards'[row(k)], id) PROVE FALSE
        OBVIOUS
      <4>1. shards[o].next < id
        BY <2>2
      <4> QED BY <1>2, <2>0, <2>5, <4>1
    <3>3. ASSUME NEW j \in Ids' \ {o}, shards'[j].purpose = "primary" PROVE ~Has(shards'[j], id)
      <4>1. CASE j \in Ids
        BY <1>3, <2>1, <2>5, <3>3, <4>1
      <4>2. CASE j \notin Ids
        BY <1>3, <3>2, <4>2
      <4> QED BY <4>1, <4>2
    <3>4. o \in Ids' /\ shards'[o].purpose = "primary"
      BY <1>2, <1>3, <1>5
    <3> HIDE DEF parts, row
    <3> QED BY <3>1, <3>3, <3>4
  <2>6. CASE i = o /\ ~(id <= shards[o].next)
    <3>1. id \in (shards[o].next + 1) .. shards[o].upper
      BY <1>2, <2>0, <2>1, <2>6 DEF Has
    <3>2. PICK k \in 1 .. pieces : Has(parts[k], id)
                                   /\ \A j \in 1 .. pieces \ {k} : ~Has(parts[j], id)
      BY <1>2, <3>1 DEF Tiles
    <3>3. \A j \in (2 .. pieces) \ {k} : ~Has(shards'[row(j)], id)
      BY <2>2, <3>2
    <3>4. Has(shards'[o], id) <=> k = 1
      <4>1. parts[1].lower = shards[o].next /\ 1 \in 1 .. pieces
        BY <1>2, <1>3 DEF Tiles
      <4>2. Has(parts[1], id) <=> id <= parts[1].upper
        BY <1>2, <2>0, <2>6, <4>1 DEF Has
      <4>3. Has(shards'[o], id) <=> id <= parts[1].upper
        BY <1>2, <2>1, <2>6 DEF Has
      <4> HIDE DEF parts
      <4> QED BY <3>2, <4>1, <4>2, <4>3
    <3> DEFINE h == IF k = 1 THEN o ELSE row(k)
    <3>5. h \in Ids' /\ shards'[h].purpose = "primary" /\ Has(shards'[h], id)
      <4>1. CASE k = 1
        BY <1>2, <1>3, <1>5, <3>4, <4>1
      <4>2. CASE k # 1
        <5>1. k \in 2 .. pieces
          BY <4>2
        <5>2. /\ row(k) \in Ids' /\ shards'[row(k)].purpose = "primary"
              /\ shards'[row(k)].lower = parts[k].lower /\ shards'[row(k)].upper = parts[k].upper
          BY <1>2, <1>3, <1>5, <5>1
        <5> HIDE DEF row, parts
        <5> QED BY <3>2, <4>2, <5>2 DEF Has
      <4> QED BY <4>1, <4>2
    <3>6. ASSUME NEW j \in Ids' \ {h}, shards'[j].purpose = "primary" PROVE ~Has(shards'[j], id)
      <4>1. CASE j = o
        BY <3>4, <3>6, <4>1
      <4>2. CASE j \in Ids \ {o}
        BY <1>3, <2>1, <2>6, <3>6, <4>2
      <4>3. CASE j \notin Ids
        <5>1. PICK m \in 2 .. pieces : j = row(m)
          BY <1>3, <4>3
        <5>2. m # k
          BY <3>6, <5>1
        <5> QED BY <3>3, <5>1, <5>2
      <4> QED BY <4>1, <4>2, <4>3
    <3> HIDE DEF h
    <3> QED BY <3>5, <3>6
  <2> QED BY <2>4, <2>5, <2>6
<1> QED BY <1>4, <1>5

\* Purposes and bounds change by a cut only.
LEMMA BoundsStay ==
  ASSUME IInv, [Next]_vars, PrimaryShardsTile
  PROVE  PrimaryShardsTile'
<1> DEFINE Stay == /\ \A i \in Ids : /\ i \in Ids' /\ shards'[i].purpose = shards[i].purpose
                                     /\ shards'[i].lower = shards[i].lower
                                     /\ shards'[i].upper = shards[i].upper
                   /\ \A i \in Ids' \ Ids : shards'[i].purpose = "repair"
<1>0. shards \in Seq(ShardRows) /\ \A i \in Ids : shards[i] \in ShardRows /\ i \in 1 .. Len(shards)
  BY DEF IInv, Shapes, Ids
<1>1. ASSUME NEW i, NEW status, shards' = [shards EXCEPT ![i].status = status] PROVE Stay
  BY <1>0, <1>1 DEF Ids, ShardRows
<1>2. ASSUME NEW i, NEW next, NEW status,
             shards' = [shards EXCEPT ![i].next = next, ![i].status = status]
      PROVE  Stay
  BY <1>0, <1>2 DEF Ids, ShardRows
<1>3. ASSUME UNCHANGED shards PROVE Stay
  BY <1>3 DEF Ids
<1>4. ASSUME NEW w \in EnumWorkers, ClaimEnumerationShard(w) PROVE Stay
  <2>1. shards' = [shards EXCEPT ![FirstClaimable].status = "running"]
    BY <1>4 DEF ClaimEnumerationShard
  <2> QED BY <1>1, <2>1
<1>5. ASSUME NEW w \in EnumWorkers, RequeueEnumerationShard(w) PROVE Stay
  <2>1. shards' = [shards EXCEPT ![own[w]].status = "retry"]
    BY <1>5 DEF RequeueEnumerationShard
  <2> QED BY <1>1, <2>1
<1>6. ASSUME NEW w \in EnumWorkers, CommitPage(w) PROVE Stay
  <2>1. shards' = [shards EXCEPT ![own[w]].next = page[w].next,
                                 ![own[w]].status = IF page[w].reached THEN "completed"
                                                    ELSE "running"]
    BY <1>6 DEF CommitPage
  <2> QED BY <1>2, <2>1
<1>7. ASSUME NEW w \in EnumWorkers, ApplyPage(w) \/ StopOnCapacityError(w) PROVE Stay
  <2>1. UNCHANGED shards
    BY <1>7 DEF ApplyPage, StopOnCapacityError
  <2> QED BY <1>3, <2>1
<1>8. ASSUME Watchdog \/ Crash \/ UNCHANGED vars PROVE Stay
  <2>1. UNCHANGED shards
    BY <1>8 DEF Watchdog, Crash, Fail, vars
  <2> QED BY <1>3, <2>1
<1>9. ASSUME Recover PROVE Stay
  <2>1. shards' = [i \in Ids |-> [shards[i] EXCEPT !.status = Recovered(@)]]
    BY <1>9 DEF Recover
  <2>2. Ids' = Ids
    BY <2>1 DEF Ids
  <2>3. ASSUME NEW i \in Ids
        PROVE  /\ shards'[i].purpose = shards[i].purpose /\ shards'[i].lower = shards[i].lower
               /\ shards'[i].upper = shards[i].upper
    <3>1. shards'[i] = [shards[i] EXCEPT !.status = Recovered(shards[i].status)]
      BY <2>1
    <3> QED BY <1>0, <3>1 DEF ShardRows
  <2> QED BY <2>2, <2>3
<1>10. ASSUME NEW g \in RepairRanges, SeedEnumerationRepair(g) PROVE Stay
  <2> DEFINE new == RepairShards(g[1], g[2], g[3])
  <2>1. shards' = shards \o new
    BY <1>10 DEF SeedEnumerationRepair
  <2>2. /\ new \in [1 .. g[3] -> ShardRows] /\ g[3] \in Nat
        /\ \A k \in 1 .. g[3] : new[k].purpose = "repair"
    BY RepairShardsAreFresh
  <2> HIDE DEF new
  <2>3. Extends(shards', shards, g[3], new)
    <3>1. Extends(shards \o new, shards, g[3], new)
      BY <1>0, <2>2, Appended
    <3> QED BY <2>1, <3>1
  <2> QED BY <2>2, <2>3 DEF Extends, Ids
<1>11. ASSUME NEW w \in EnumWorkers, Rebalance(w) PROVE PrimaryShardsTile'
  <2>1. CASE Uncut(w)
    BY <1>3, <2>1, TileKept DEF Uncut
  <2>2. CASE ~Uncut(w)
    <3>1. own[w] \in Ids
      <4>1. Owns(w) /\ phase[w] = "rebalance"
        BY <1>11 DEF IInv, Owners, Rebalance
      <4> QED BY <4>1 DEF Owns
    <3>2. PICK pieces \in Nat : Cut(own[w], pieces)
      BY <1>11, <2>2, RebalanceCuts
    <3> QED BY <3>1, <3>2, CutTiles
  <2> QED BY <2>1, <2>2
<1>12. Stay => PrimaryShardsTile'
  BY TileKept
<1> HIDE DEF Stay
<1> QED BY <1>4, <1>5, <1>6, <1>7, <1>8, <1>9, <1>10, <1>11, <1>12, EnsureTiles DEF Next, WorkerStep

\* PrimaryShardsTile: once there are primary shards, each ID below the cutoff
\* is in exactly one of them, for any cutoff, number of shards and splits.
THEOREM PrimaryShardsDoTile == Spec => []PrimaryShardsTile
<1>1. Init => PrimaryShardsTile
  BY DEF Init, Ids, PrimaryShardsTile
<1> QED BY <1>1, AlwaysInv, BoundsStay, PTL DEF Spec

-----------------------------------------------------------------------------
(* Enumeration is complete when the last shard is *)

\* The repair-range command finds the run enumerated in shards.  Before them
\* its own would be all there is, and with them done the run counted as enumerated.
RepairsFollow == \A g \in RepairRanges : SeedEnumerationRepair(g) => shards # <<>>

Primary(i) == shards[i].purpose = "primary"

\* Shard o apart, the primary shards are walked.
DoneBut(o) == \A i \in Ids \ {o} : Primary(i) => shards[i].status = "completed"

\* A completed shard has its cursor at its end.
AtTheEnd == \A i \in Ids : shards[i].status = "completed" => shards[i].next = shards[i].upper

\* What a page under way says of the shard and the others.
LastPages ==
  \A w \in EnumWorkers : phase[w] = "commit" =>
    /\ page[w].reached => page[w].next = copy[w].upper
    /\ page[w].last => page[w].reached /\ DoneBut(own[w])

Walked == enumComplete => Ids # {} /\ DoneBut(0)

WalkInv ==
  /\ Ids # {} => \E i \in Ids : Primary(i)
  /\ AtTheEnd /\ LastPages /\ Walked

\* The rows after a step: purposes stay, a completed shard stays as it is, and a
\* new row is a primary one of the first insert, a repair, or cut off a worker's own.
Moves ==
  /\ \A i \in Ids : /\ i \in Ids' /\ shards'[i].purpose = shards[i].purpose
                    /\ shards[i].status = "completed" => shards'[i] = shards[i]
  /\ \A i \in Ids' \ Ids :
       /\ shards'[i].status = "pending"
       /\ \/ Ids = {} /\ shards'[i].purpose = "primary"
          \/ Ids # {} /\ shards'[i].purpose = "repair"
          \/ \E w \in EnumWorkers : /\ phase[w] = "rebalance" /\ own[w] \in Ids
                                    /\ shards'[i].purpose = shards[own[w]].purpose

\* A step on one row that is not completed.
LEMMA RowMoves ==
  ASSUME Shapes, NEW o \in Ids, shards[o].status # "completed", NEW row \in ShardRows,
         row.purpose = shards[o].purpose, shards' = [shards EXCEPT ![o] = row]
  PROVE  Moves
<1>1. shards \in Seq(ShardRows)
  BY DEF Shapes
<1>2. Ids' = Ids /\ shards'[o] = row /\ \A j \in Ids \ {o} : shards'[j] = shards[j]
  BY <1>1, RowChanged
<1> QED BY <1>2 DEF Moves

\* Claims, pages and retries move the row of one shard that is not completed.
LEMMA WorkerMoves ==
  ASSUME IInv, NEW w \in EnumWorkers,
         ClaimEnumerationShard(w) \/ CommitPage(w) \/ RequeueEnumerationShard(w)
  PROVE  Moves
<1>0. Shapes
  BY DEF IInv
<1>1. CASE ClaimEnumerationShard(w)
  <2>1. PICK i \in Nat : i = FirstClaimable /\ i \in Claimable
    <3>1. FirstClaimable \in Claimable
      BY <1>0, <1>1, FirstIsClaimable DEF ClaimEnumerationShard
    <3>2. Claimable \subseteq Nat
      BY <1>0 DEF Claimable, Ids, Shapes
    <3> QED BY <3>1, <3>2
  <2>2. i \in Ids /\ shards[i].status # "completed" /\ shards[i] \in ShardRows
    BY <1>0, <2>1 DEF Claimable, Ids, Shapes
  <2>3. shards' = [shards EXCEPT ![i] = [shards[i] EXCEPT !.status = "running"]]
    BY <1>1, <2>1 DEF ClaimEnumerationShard
  <2>4. /\ [shards[i] EXCEPT !.status = "running"] \in ShardRows
        /\ [shards[i] EXCEPT !.status = "running"].purpose = shards[i].purpose
    BY <2>2 DEF ShardRows, Statuses
  <2> QED BY <1>0, <2>2, <2>3, <2>4, RowMoves
<1>2. ASSUME phase[w] \in {"commit", "fetch"}
      PROVE  own[w] # 0 /\ own[w] \in Ids /\ shards[own[w]].status = "running"
             /\ shards[own[w]] \in ShardRows
  <2>1. own[w] # 0
    BY <1>2 DEF IInv, Owners, Owns
  <2> QED BY <2>1, Holding
<1>3. CASE RequeueEnumerationShard(w)
  <2>1. PICK i : i = own[w]
    OBVIOUS
  <2>2. i \in Ids /\ shards[i].status = "running" /\ shards[i] \in ShardRows
    BY <1>2, <1>3, <2>1 DEF RequeueEnumerationShard
  <2>3. shards' = [shards EXCEPT ![i] = [shards[i] EXCEPT !.status = "retry"]]
    BY <1>3, <2>1 DEF RequeueEnumerationShard
  <2>4. /\ [shards[i] EXCEPT !.status = "retry"] \in ShardRows
        /\ [shards[i] EXCEPT !.status = "retry"].purpose = shards[i].purpose
    BY <2>2 DEF ShardRows, Statuses
  <2>5. shards[i].status # "completed"
    BY <2>2
  <2> QED BY <1>0, <2>2, <2>3, <2>4, <2>5, RowMoves
<1>4. CASE CommitPage(w)
  <2>1. PICK i : i = own[w]
    OBVIOUS
  <2>2. i \in Ids /\ shards[i].status = "running" /\ shards[i] \in ShardRows
    BY <1>2, <1>4, <2>1 DEF CommitPage
  <2>3. PICK next, status : /\ next = page[w].next
                            /\ status = IF page[w].reached THEN "completed" ELSE "running"
    OBVIOUS
  <2>4. shards' = [shards EXCEPT ![i] = [shards[i] EXCEPT !.next = next, !.status = status]]
    BY <1>4, <2>1, <2>3 DEF CommitPage
  <2>5. next \in 0 .. Cutoff /\ status \in Statuses
    <3>1. Brings(w) /\ phase[w] = "commit" /\ own[w] # 0
      BY <1>2, <1>4 DEF IInv, Owners, CommitPage
    <3>2. copy[w] = [next |-> shards[i].next, upper |-> shards[i].upper]
      BY <2>1, <3>1, Holding
    <3>3. next <= shards[i].upper /\ next \in Nat
      BY <1>0, <2>3, <3>1, <3>2 DEF Brings, Shapes, Pages
    <3>4. shards[i].upper \in 0 .. Cutoff /\ Cutoff \in Nat
      BY <2>2, EnumAssumption DEF ShardRows
    <3> QED BY <2>3, <3>3, <3>4 DEF Statuses
  <2>6. /\ [shards[i] EXCEPT !.next = next, !.status = status] \in ShardRows
        /\ [shards[i] EXCEPT !.next = next, !.status = status].purpose = shards[i].purpose
    BY <2>2, <2>5 DEF ShardRows
  <2>7. shards[i].status # "completed"
    BY <2>2
  <2> QED BY <1>0, <2>2, <2>4, <2>6, <2>7, RowMoves
<1> QED BY <1>1, <1>3, <1>4

\* A cut shard keeps its purpose, and what is cut off has it too.
LEMMA RebalanceMoves ==
  ASSUME IInv, NEW w \in EnumWorkers, Rebalance(w)
  PROVE  Moves
<1>1. CASE Uncut(w)
  BY <1>1 DEF Uncut, Moves, Ids
<1>2. CASE ~Uncut(w)
  <2>1. phase[w] = "rebalance" /\ own[w] # 0
    BY DEF Rebalance, IInv, Owners, Owns
  <2>2. PICK o : o = own[w]
    OBVIOUS
  <2>3. /\ o \in Ids /\ shards[o] \in ShardRows /\ shards[o].status = "running"
        /\ shards[o].next <= shards[o].upper
    BY <2>1, <2>2, Holding
  <2>4. PICK pieces \in Nat : Cut(o, pieces)
    BY <1>2, <2>2, RebalanceCuts
  <2>5. /\ shards'[o].purpose = shards[o].purpose
        /\ \A k \in 2 .. pieces : /\ Fresh(shards'[Len(shards) + (k - 1)])
                                  /\ shards'[Len(shards) + (k - 1)].purpose = shards[o].purpose
    BY <2>3, <2>4, CutRows DEF IInv
  <2>6. /\ Ids \subseteq Ids' /\ \A j \in Ids \ {o} : shards'[j] = shards[j]
        /\ \A i \in Ids' \ Ids : \E k \in 2 .. pieces : i = Len(shards) + (k - 1)
    BY <2>4 DEF Cut
  <2>7. ASSUME NEW i \in Ids
        PROVE  /\ i \in Ids' /\ shards'[i].purpose = shards[i].purpose
               /\ shards[i].status = "completed" => shards'[i] = shards[i]
    <3>1. CASE i = o
      BY <2>3, <2>5, <2>6, <3>1
    <3>2. CASE i # o
      BY <2>6, <3>2
    <3> QED BY <3>1, <3>2
  <2>8. ASSUME NEW i \in Ids' \ Ids
        PROVE  shards'[i].status = "pending" /\ shards'[i].purpose = shards[own[w]].purpose
    BY <2>2, <2>5, <2>6 DEF Fresh
  <2> QED BY <2>1, <2>2, <2>3, <2>7, <2>8 DEF Moves
<1> QED BY <1>1, <1>2

\* The rows that are inserted all at once.
LEMMA InsertMoves ==
  ASSUME IInv,
         \/ \E w \in EnumWorkers : EnsureEnumerationShards(w)
         \/ shards # <<>> /\ \E g \in RepairRanges : SeedEnumerationRepair(g)
  PROVE  Moves
<1>0. shards \in Seq(ShardRows)
  BY DEF IInv, Shapes
<1>1. CASE \E w \in EnumWorkers : EnsureEnumerationShards(w)
  <2>1. Ids = {} /\ Desired >= 2 /\ shards' = PrimaryShards
    BY <1>1 DEF EnsureEnumerationShards, Ids
  <2>2. Ids' = 1 .. PrimaryCount
        /\ \A k \in 1 .. PrimaryCount : Fresh(shards'[k]) /\ shards'[k].purpose = "primary"
    BY <2>1, PrimaryShardsAreFresh DEF Ids
  <2> QED BY <2>1, <2>2 DEF Moves, Fresh
<1>2. CASE shards # <<>> /\ \E g \in RepairRanges : SeedEnumerationRepair(g)
  <2>1. PICK g \in RepairRanges : SeedEnumerationRepair(g)
    BY <1>2
  <2> DEFINE new == RepairShards(g[1], g[2], g[3])
  <2>2. shards' = shards \o new
    BY <2>1 DEF SeedEnumerationRepair
  <2>3. new \in [1 .. g[3] -> ShardRows] /\ g[3] \in Nat
        /\ \A k \in 1 .. g[3] : Fresh(new[k]) /\ new[k].purpose = "repair"
    BY RepairShardsAreFresh
  <2> HIDE DEF new
  <2>4. Extends(shards', shards, g[3], new)
    <3>1. Extends(shards \o new, shards, g[3], new)
      BY <1>0, <2>3, Appended
    <3> QED BY <2>2, <3>1
  <2>5. Ids # {}
    <3>1. Len(shards) # 0 /\ Len(shards) \in Nat /\ Ids = 1 .. Len(shards)
      BY <1>0, <1>2 DEF Ids
    <3>2. 1 \in 1 .. Len(shards)
      BY <3>1
    <3> QED BY <3>1, <3>2
  <2>6. ASSUME NEW i \in Ids' \ Ids
        PROVE  shards'[i].status = "pending" /\ shards'[i].purpose = "repair"
    BY <2>3, <2>4 DEF Extends, Ids, Fresh
  <2>7. \A i \in Ids : i \in Ids' /\ shards'[i] = shards[i]
    BY <2>4 DEF Extends, Ids
  <2> QED BY <2>5, <2>6, <2>7 DEF Moves
<1> QED BY <1>1, <1>2

\* Every step moves the rows so, if the repair-range command finds shards.
LEMMA StepMoves ==
  ASSUME IInv, [Next]_vars, [RepairsFollow]_vars
  PROVE  Moves
<1>1. ASSUME UNCHANGED shards PROVE Moves
  BY <1>1 DEF Moves, Ids
<1>2. ASSUME NEW w \in EnumWorkers, ApplyPage(w) \/ StopOnCapacityError(w) PROVE Moves
  <2>1. UNCHANGED shards
    BY <1>2 DEF ApplyPage, StopOnCapacityError
  <2> QED BY <1>1, <2>1
<1>3. ASSUME Watchdog \/ Crash \/ UNCHANGED vars PROVE Moves
  <2>1. UNCHANGED shards
    BY <1>3 DEF Watchdog, Crash, Fail, vars
  <2> QED BY <1>1, <2>1
<1>4. ASSUME Recover PROVE Moves
  <2>1. shards' = [i \in Ids |-> [shards[i] EXCEPT !.status = Recovered(@)]]
    BY <1>4 DEF Recover
  <2>2. Ids' = Ids
    BY <2>1 DEF Ids
  <2>3. ASSUME NEW i \in Ids
        PROVE  /\ shards'[i].purpose = shards[i].purpose
               /\ shards[i].status = "completed" => shards'[i] = shards[i]
    <3>1. shards'[i] = [shards[i] EXCEPT !.status = Recovered(shards[i].status)]
      BY <2>1
    <3>2. shards[i] \in ShardRows
      BY DEF IInv, Shapes, Ids
    <3>3. shards[i].status = "completed" => Recovered(shards[i].status) = shards[i].status
      BY DEF Recovered
    <3> HIDE DEF Recovered
    <3> QED BY <3>1, <3>2, <3>3 DEF ShardRows
  <2> QED BY <2>2, <2>3 DEF Moves
<1>5. ASSUME NEW g \in RepairRanges, SeedEnumerationRepair(g) PROVE Moves
  <2>1. shards # <<>>
    <3>1. CASE UNCHANGED vars
      <4>1. g \notin seeded /\ seeded' = seeded \cup {g}
        BY <1>5 DEF SeedEnumerationRepair
      <4> QED BY <3>1, <4>1 DEF vars
    <3>2. CASE RepairsFollow
      BY <1>5, <3>2 DEF RepairsFollow
    <3> QED BY <3>1, <3>2
  <2> QED BY <1>5, <2>1, InsertMoves
<1> QED BY <1>2, <1>3, <1>4, <1>5, WorkerMoves, RebalanceMoves, InsertMoves DEF Next, WorkerStep

\* A shard that a worker cuts is running, so the primary shards that are walked stay all there are.
LEMMA DoneStays ==
  ASSUME IInv, Moves, Ids # {}, NEW o, DoneBut(o),
         \A v \in EnumWorkers : phase[v] = "rebalance" => own[v] # o
  PROVE  \A i \in Ids' \ {o} : shards'[i].purpose = "primary" => shards'[i].status = "completed"
<1> SUFFICES ASSUME NEW i \in Ids' \ {o}, shards'[i].purpose = "primary"
             PROVE  shards'[i].status = "completed"
  OBVIOUS
<1>1. CASE i \in Ids
  BY <1>1 DEF Moves, DoneBut, Primary
<1>2. CASE i \notin Ids
  <2>1. PICK v \in EnumWorkers : /\ phase[v] = "rebalance" /\ own[v] \in Ids
                                 /\ shards[own[v]].purpose = "primary"
    BY <1>2 DEF Moves
  <2>2. shards[own[v]].status = "running"
    BY <2>1 DEF IInv, Owners, Owns
  <2>3. shards[own[v]].status = "completed"
    BY <2>1 DEF DoneBut, Primary
  <2> QED BY <2>2, <2>3
<1> QED BY <1>1, <1>2

\* A page under way stays as it is until it is committed or lost.
LEMMA PagesStay ==
  ASSUME IInv, [Next]_vars, NEW w \in EnumWorkers, phase'[w] = "commit", ~ApplyPage(w)
  PROVE  phase[w] = "commit" /\ page'[w] = page[w] /\ own'[w] = own[w] /\ copy'[w] = copy[w]
<1>0. /\ phase \in [EnumWorkers -> {"idle", "fetch", "commit", "rebalance", "gone"}]
      /\ own \in [EnumWorkers -> Nat] /\ copy \in [EnumWorkers -> Copies]
      /\ page \in [EnumWorkers -> Pages]
  BY DEF IInv, Shapes
<1> DEFINE Stays == phase[w] = "commit" /\ page'[w] = page[w] /\ own'[w] = own[w] /\ copy'[w] = copy[w]
<1>1. ASSUME NEW v \in EnumWorkers, NEW p, NEW s, NEW c, Become(v, p, s, c), p # "commit",
             page'[w] = page[w] \/ v = w
      PROVE  Stays
  BY <1>0, <1>1 DEF Become
<1>2. ASSUME UNCHANGED workerVars PROVE Stays
  BY <1>2 DEF workerVars
<1>3. ASSUME NEW v \in EnumWorkers, EnsureEnumerationShards(v) PROVE Stays
  <2>1. UNCHANGED workerVars
    BY <1>3 DEF EnsureEnumerationShards
  <2> QED BY <1>2, <2>1
<1>4. ASSUME NEW v \in EnumWorkers, ClaimEnumerationShard(v) PROVE Stays
  <2>1. UNCHANGED page /\ \E s, c : Become(v, "fetch", s, c)
    BY <1>4 DEF ClaimEnumerationShard
  <2> QED BY <1>1, <2>1
<1>5. ASSUME NEW v \in EnumWorkers, RequeueEnumerationShard(v) \/ StopOnCapacityError(v) PROVE Stays
  <2>1. UNCHANGED page /\ \E p \in {"idle", "gone"} : Become(v, p, 0, NoCopy)
    BY <1>5 DEF RequeueEnumerationShard, StopOnCapacityError
  <2> QED BY <1>1, <2>1
<1>6. ASSUME NEW v \in EnumWorkers, CommitPage(v) PROVE Stays
  <2>1. page' = [page EXCEPT ![v] = NoPage]
        /\ \E p \in {"idle", "rebalance"} : \E s, c : Become(v, p, s, c)
    BY <1>6 DEF CommitPage
  <2>2. page'[w] = page[w] \/ v = w
    BY <1>0, <2>1
  <2> QED BY <1>1, <2>1, <2>2
<1>7. ASSUME NEW v \in EnumWorkers, Rebalance(v) PROVE Stays
  <2>1. CASE UNCHANGED <<phase, own, copy>>
    BY <1>7, <2>1 DEF Rebalance
  <2>2. CASE ~UNCHANGED <<phase, own, copy>>
    <3>1. UNCHANGED page /\ \E s, c : Become(v, "fetch", s, c)
      BY <1>7, <2>2 DEF Rebalance
    <3> QED BY <1>1, <3>1
  <2> QED BY <2>1, <2>2
<1>8. ASSUME NEW v \in EnumWorkers, v # w, ApplyPage(v) PROVE Stays
  <2>1. /\ phase' = [phase EXCEPT ![v] = "commit"] /\ UNCHANGED <<own, copy>>
        /\ \E q : page' = [page EXCEPT ![v] = q]
    BY <1>8 DEF ApplyPage
  <2> QED BY <1>0, <1>8, <2>1
<1>9. ASSUME NEW g \in RepairRanges, SeedEnumerationRepair(g) PROVE Stays
  <2>1. UNCHANGED workerVars
    BY <1>9 DEF SeedEnumerationRepair
  <2> QED BY <1>2, <2>1
<1>10. ASSUME Watchdog \/ Crash \/ UNCHANGED vars PROVE Stays
  <2>1. UNCHANGED workerVars
    BY <1>10 DEF Watchdog, Crash, Fail, vars
  <2> QED BY <1>2, <2>1
<1>11. ~Recover
  BY DEF Recover
<1> HIDE DEF Stays
<1>12. Stays
  BY <1>3, <1>4, <1>5, <1>6, <1>7, <1>8, <1>9, <1>10, <1>11 DEF Next, WorkerStep
<1> QED BY <1>12 DEF Stays

\* A run with shards has a primary one, as nothing comes before the first division.
LEMMA PrimaryStays ==
  ASSUME IInv, Moves, Ids # {} => \E i \in Ids : Primary(i)
  PROVE  Ids' # {} => \E i \in Ids' : shards'[i].purpose = "primary"
<1>1. CASE Ids # {}
  BY <1>1 DEF Moves, Primary
<1>2. CASE Ids = {}
  BY <1>2 DEF Moves
<1> QED BY <1>1, <1>2

\* Only the page that reaches the end of a shard completes it.
LEMMA EndStays ==
  ASSUME IInv, [Next]_vars, Moves, AtTheEnd, LastPages
  PROVE  AtTheEnd'
<1> SUFFICES ASSUME NEW i \in Ids', shards'[i].status = "completed"
             PROVE  shards'[i].next = shards'[i].upper
  BY DEF AtTheEnd
<1>1. i \in Ids
  BY DEF Moves
<1>2. CASE shards[i].status = "completed"
  BY <1>1, <1>2 DEF Moves, AtTheEnd
<1>3. CASE shards[i].status # "completed"
  <2>0. shards \in Seq(ShardRows) /\ shards[i] \in ShardRows /\ i \in DOMAIN shards
    BY <1>1 DEF IInv, Shapes, Ids
  <2> DEFINE Same == shards'[i].status = shards[i].status
  <2>1. ASSUME UNCHANGED shards PROVE Same
    BY <2>1
  <2>2. ASSUME NEW o, NEW status, status # "completed", shards' = [shards EXCEPT ![o].status = status]
        PROVE  FALSE
    BY <1>3, <2>0, <2>2 DEF ShardRows
  <2>3. ~\E w \in EnumWorkers : EnsureEnumerationShards(w)
    BY <1>1 DEF EnsureEnumerationShards, Ids
  <2>4. ~\E w \in EnumWorkers : ClaimEnumerationShard(w)
    BY <2>2 DEF ClaimEnumerationShard
  <2>5. ~\E w \in EnumWorkers : RequeueEnumerationShard(w)
    BY <2>2 DEF RequeueEnumerationShard
  <2>6. ~\E w \in EnumWorkers : ApplyPage(w) \/ StopOnCapacityError(w)
    BY <1>3, <2>1 DEF ApplyPage, StopOnCapacityError
  <2>7. ~(Watchdog \/ Crash \/ UNCHANGED vars)
    BY <1>3, <2>1 DEF Watchdog, Crash, Fail, vars
  <2>8. ~Recover
    <3> SUFFICES ASSUME Recover PROVE FALSE
      OBVIOUS
    <3>1. shards'[i] = [shards[i] EXCEPT !.status = Recovered(shards[i].status)]
      BY <1>1 DEF Recover
    <3>2. Recovered(shards[i].status) # "completed"
      BY <1>3 DEF Recovered
    <3> HIDE DEF Recovered
    <3> QED BY <2>0, <3>1, <3>2 DEF ShardRows
  <2>9. ~\E g \in RepairRanges : SeedEnumerationRepair(g)
    <3> SUFFICES ASSUME NEW g \in RepairRanges, SeedEnumerationRepair(g) PROVE FALSE
      OBVIOUS
    <3> DEFINE new == RepairShards(g[1], g[2], g[3])
    <3>1. shards' = shards \o new
      BY DEF SeedEnumerationRepair
    <3>2. new \in [1 .. g[3] -> ShardRows] /\ g[3] \in Nat
      BY RepairShardsAreFresh
    <3> HIDE DEF new
    <3>3. Extends(shards \o new, shards, g[3], new)
      BY <2>0, <3>2, Appended
    <3>4. shards'[i] = shards[i]
      BY <2>0, <3>1, <3>3 DEF Extends
    <3> QED BY <1>3, <3>4
  <2>10. ~\E w \in EnumWorkers : Rebalance(w)
    <3> SUFFICES ASSUME NEW w \in EnumWorkers, Rebalance(w) PROVE FALSE
      OBVIOUS
    <3>1. CASE Uncut(w)
      BY <1>3, <2>1, <3>1 DEF Uncut
    <3>2. CASE ~Uncut(w)
      <4>1. PICK o : o = own[w]
        OBVIOUS
      <4>2. own[w] # 0
        BY DEF Rebalance, IInv, Owners, Owns
      <4>3. o \in Ids /\ shards[o].next <= shards[o].upper
        BY <4>1, <4>2, Holding
      <4>4. PICK pieces \in Nat : Cut(o, pieces)
        BY <3>2, <4>1, RebalanceCuts
      <4>5. shards'[o].status = shards[o].status
        BY <4>3, <4>4, CutRows DEF IInv
      <4>6. i # o => shards'[i] = shards[i]
        BY <1>1, <4>4 DEF Cut
      <4> QED BY <1>3, <4>5, <4>6
    <3> QED BY <3>1, <3>2
  <2>11. PICK w \in EnumWorkers : CommitPage(w)
    BY <2>3, <2>4, <2>5, <2>6, <2>7, <2>8, <2>9, <2>10 DEF Next, WorkerStep
  <2>12. phase[w] = "commit" /\ page[w].reached => page[w].next = copy[w].upper
    BY DEF LastPages
  <2>13. PICK o, next, reached : o = own[w] /\ next = page[w].next /\ reached = page[w].reached
    OBVIOUS
  <2>14. shards' = [shards EXCEPT ![o] = [shards[o] EXCEPT !.next = next,
                        !.status = IF reached THEN "completed" ELSE "running"]]
    BY <2>11, <2>13 DEF CommitPage
  <2>15. phase[w] = "commit" /\ own[w] # 0
    BY <2>11 DEF CommitPage, IInv, Owners, Owns
  <2>16. copy[w] = [next |-> shards[o].next, upper |-> shards[o].upper] /\ o \in Ids
    BY <2>13, <2>15, Holding
  <2>17. o = i
    BY <1>3, <2>0, <2>14
  <2>18. shards'[i] = [shards[i] EXCEPT !.next = next,
                        !.status = IF reached THEN "completed" ELSE "running"]
    BY <2>0, <2>14, <2>17
  <2>19. reached
    BY <2>0, <2>18 DEF ShardRows
  <2>20. next = shards[i].upper
    <3>1. page[w].reached
      BY <2>13, <2>19
    <3>2. page[w].next = copy[w].upper
      BY <2>12, <3>1, <2>15
    <3>3. copy[w].upper = shards[o].upper
      BY <2>16
    <3> QED BY <2>13, <2>17, <3>2, <3>3
  <2> QED BY <2>0, <2>18, <2>20 DEF ShardRows
<1> QED BY <1>2, <1>3

\* A page that reaches the end of its shard has the cursor there, and one that takes
\* the others for completed goes on seeing them completed.
LEMMA LastStays ==
  ASSUME IInv, [Next]_vars, Moves, LastPages
  PROVE  LastPages'
<1> SUFFICES ASSUME NEW w \in EnumWorkers, phase'[w] = "commit"
             PROVE  /\ page'[w].reached => page'[w].next = copy'[w].upper
                    /\ page'[w].last => page'[w].reached /\ DoneBut(own[w])'
  BY DEF LastPages
<1>1. CASE ApplyPage(w)
  <2>1. UNCHANGED <<shards, own, copy>>
    BY <1>1 DEF ApplyPage
  <2>2. PICK link \in Links(copy[w].next), rows \in BOOLEAN :
          page' = [page EXCEPT ![w] =
            [users |-> Plan(copy[w].next, copy[w].upper, link).users,
             next |-> Plan(copy[w].next, copy[w].upper, link).next,
             reached |-> Plan(copy[w].next, copy[w].upper, link).reached, rows |-> rows,
             last |-> /\ Plan(copy[w].next, copy[w].upper, link).reached
                      /\ Uncompleted \subseteq {own[w]}]]
    BY <1>1 DEF ApplyPage
  <2>3. PICK plan : plan = Plan(copy[w].next, copy[w].upper, link)
    OBVIOUS
  <2>4. plan.reached => plan.next = copy[w].upper
    BY <2>3 DEF Plan
  <2>5. page'[w] = [users |-> plan.users, next |-> plan.next, reached |-> plan.reached, rows |-> rows,
                    last |-> plan.reached /\ Uncompleted \subseteq {own[w]}]
    BY <2>2, <2>3 DEF IInv, Shapes
  <2>6. Uncompleted \subseteq {own[w]} => DoneBut(own[w])
    BY DEF Uncompleted, DoneBut, Primary
  <2>7. DoneBut(own[w]) => DoneBut(own[w])'
    BY <2>1 DEF DoneBut, Primary, Ids
  <2>8. /\ page'[w].next = plan.next /\ page'[w].reached = plan.reached
        /\ page'[w].last = (plan.reached /\ Uncompleted \subseteq {own[w]})
    BY <2>5
  <2>9. page'[w].reached => page'[w].next = copy'[w].upper
    BY <2>1, <2>4, <2>8
  <2>10. page'[w].last => page'[w].reached /\ DoneBut(own[w])'
    BY <2>6, <2>7, <2>8
  <2> QED BY <2>9, <2>10
<1>2. CASE ~ApplyPage(w)
  <2>1. phase[w] = "commit" /\ page'[w] = page[w] /\ own'[w] = own[w] /\ copy'[w] = copy[w]
    BY <1>2, PagesStay
  <2>2. PICK o : o = own[w]
    OBVIOUS
  <2>3. ASSUME page[w].last PROVE DoneBut(own[w])'
    <3>1. DoneBut(o)
      BY <2>1, <2>2, <2>3 DEF LastPages
    <3>2. o \in Ids /\ \A v \in EnumWorkers : phase[v] = "rebalance" => own[v] # o
      BY <2>1, <2>2 DEF IInv, Owners, Owns
    <3>3. \A i \in Ids' \ {o} : shards'[i].purpose = "primary" => shards'[i].status = "completed"
      BY <3>1, <3>2, DoneStays
    <3> QED BY <2>1, <2>2, <3>3 DEF DoneBut, Primary
  <2> QED BY <2>1, <2>3 DEF LastPages
<1> QED BY <1>1, <1>2

\* The run is enumerated by a last page, which completes its own shard.
LEMMA WalkedStays ==
  ASSUME IInv, [Next]_vars, Moves, LastPages, Walked
  PROVE  Walked'
<1> SUFFICES ASSUME enumComplete' PROVE Ids' # {} /\ DoneBut(0)'
  BY DEF Walked
<1>1. \A v \in EnumWorkers : phase[v] = "rebalance" => own[v] # 0
  BY DEF IInv, Owners, Owns
<1>2. CASE enumComplete
  <2>1. Ids # {} /\ DoneBut(0)
    BY <1>2 DEF Walked
  <2>2. \A i \in Ids' \ {0} : shards'[i].purpose = "primary" => shards'[i].status = "completed"
    BY <1>1, <2>1, DoneStays
  <2> QED BY <2>1, <2>2 DEF DoneBut, Primary, Moves
<1>3. CASE ~enumComplete
  <2>1. PICK w \in EnumWorkers : CommitPage(w) /\ page[w].last
    <3>1. ASSUME UNCHANGED enumComplete PROVE FALSE
      BY <1>3, <3>1
    <3>2. ~\E w \in EnumWorkers : \/ EnsureEnumerationShards(w) \/ ClaimEnumerationShard(w)
                                  \/ ApplyPage(w) \/ Rebalance(w) \/ RequeueEnumerationShard(w)
                                  \/ StopOnCapacityError(w)
      BY <3>1 DEF EnsureEnumerationShards, ClaimEnumerationShard, ApplyPage, Rebalance,
                  RequeueEnumerationShard, StopOnCapacityError
    <3>3. ~(Watchdog \/ Crash \/ Recover \/ UNCHANGED vars)
      BY <3>1 DEF Watchdog, Crash, Recover, Fail, vars
    <3>4. ~\E g \in RepairRanges : SeedEnumerationRepair(g)
      BY DEF SeedEnumerationRepair
    <3>5. PICK w \in EnumWorkers : CommitPage(w)
      BY <3>2, <3>3, <3>4 DEF Next, WorkerStep
    <3>6. enumComplete' = (enumComplete \/ page[w].last)
      BY <3>5 DEF CommitPage
    <3> QED BY <1>3, <3>5, <3>6
  <2>2. PICK o : o = own[w]
    OBVIOUS
  <2>3. phase[w] = "commit" /\ page[w].reached /\ DoneBut(o)
    BY <2>1, <2>2 DEF CommitPage, LastPages
  <2>4. o \in Ids /\ \A v \in EnumWorkers : phase[v] = "rebalance" => own[v] # o
    BY <2>2, <2>3 DEF IInv, Owners, Owns
  <2>5. \A i \in Ids' \ {o} : shards'[i].purpose = "primary" => shards'[i].status = "completed"
    BY <2>3, <2>4, DoneStays
  <2>6. shards'[o].status = "completed"
    <3>1. PICK next : next = page[w].next
      OBVIOUS
    <3>2. shards' = [shards EXCEPT ![o] = [shards[o] EXCEPT !.next = next, !.status = "completed"]]
      BY <2>1, <2>2, <2>3, <3>1 DEF CommitPage
    <3>3. shards[o] \in ShardRows /\ shards \in Seq(ShardRows)
      BY <2>4 DEF IInv, Shapes, Ids
    <3>4. shards'[o] = [shards[o] EXCEPT !.next = next, !.status = "completed"]
      BY <2>4, <3>2, <3>3 DEF Ids
    <3> QED BY <3>3, <3>4 DEF ShardRows
  <2> QED BY <2>4, <2>5, <2>6 DEF DoneBut, Primary, Moves
<1> QED BY <1>2, <1>3

\* Every step keeps what is said of walked shards.
LEMMA WalkKeeps ==
  IInv /\ WalkInv /\ [Next]_vars /\ [RepairsFollow]_vars => WalkInv'
<1> SUFFICES ASSUME IInv, WalkInv, [Next]_vars, [RepairsFollow]_vars PROVE WalkInv'
  OBVIOUS
<1>1. Moves
  BY StepMoves
<1>2. Ids' # {} => \E i \in Ids' : Primary(i)'
  BY <1>1, PrimaryStays DEF WalkInv, Primary
<1>3. AtTheEnd' /\ LastPages' /\ Walked'
  BY <1>1, EndStays, LastStays, WalkedStays DEF WalkInv
<1> QED BY <1>2, <1>3 DEF WalkInv

\* With the primary shards walked to their ends, and each ID in one of them, no user is left.
LEMMA WalkedIsDiscovered ==
  ASSUME IInv, PrimaryShardsTile, WalkInv
  PROVE  CompleteMeansDiscovered
<1> SUFFICES ASSUME enumComplete, NEW id \in Users, id <= Cutoff PROVE id \in discovered
  BY DEF CompleteMeansDiscovered
<1>1. Ids # {} /\ DoneBut(0) /\ 0 \notin Ids
  BY DEF WalkInv, Walked, IInv, Shapes, Ids
<1>2. id \in 1 .. Cutoff
  BY EnumAssumption
<1>3. PICK i \in Ids : Primary(i) /\ shards[i].lower < id /\ id <= shards[i].upper
  BY <1>1, <1>2 DEF WalkInv, PrimaryShardsTile, Primary
<1>4. shards[i].next = shards[i].upper
  BY <1>1, <1>3 DEF DoneBut, WalkInv, AtTheEnd
<1> QED BY <1>3, <1>4 DEF IInv, NothingSkipped

\* CompleteMeansDiscovered: a run is not reported enumerated (crawl_runs.enumeration_complete)
\* while a user below the cutoff is unseen, for any cutoff, listing, workers, splits, crashes
\* and repairs, if no repair-range command comes before the run has its shards.
THEOREM CompleteIsDiscovered == Spec /\ [][RepairsFollow]_vars => []CompleteMeansDiscovered
<1>1. Init => WalkInv
  BY DEF Init, WalkInv, Ids, AtTheEnd, LastPages, Walked
<1> QED BY <1>1, AlwaysInv, PrimaryShardsDoTile, WalkKeeps, WalkedIsDiscovered, PTL DEF Spec

\* CompleteMeansDiscovered, with nothing assumed of the steps, for the runs that
\* no repair-range command touches.
THEOREM CompleteIsDiscoveredWithoutRepairs ==
  ASSUME RepairRanges = {}
  PROVE  Spec => []CompleteMeansDiscovered
<1>1. RepairsFollow
  BY DEF RepairsFollow
<1> QED BY <1>1, CompleteIsDiscovered, PTL

=============================================================================
