------------------------------ MODULE Requests ------------------------------
(***************************************************************************)
(* How a worker gets to send a GraphQL request: it reserves a slot on a    *)
(* credential lane of the rate pool, waits for it, takes the lane's token, *)
(* sends, and reports the answer to the pacer, the pool and the list of    *)
(* credentials.  All of this is memory shared by goroutines: the pool has  *)
(* a lock, each lane one of its own, and so have the credential list and   *)
(* each token.  One action is one critical section or one request.         *)
(*                                                                         *)
(* Time is an integer; slots, cooldowns and hits are times.  The interval  *)
(* of a lane is always Base * 2^strikes and is not kept apart.  Lanes are  *)
(* static tokens, disabled for good by a 401, or App installations, whose  *)
(* tokens are refreshed.                                                   *)
(***************************************************************************)
EXTENDS Integers, FiniteSets

CONSTANTS
  LaneCount,   \* credentials
  AppLanes,    \* those that are App installations
  Pinned,      \* workers that keep to a lane (keyWorker)
  Roaming,     \* workers that take the earliest lane (batch repair)
  LaneOf,      \* the lane of each pinned worker
  Base,        \* interval between two requests of a lane
  Minute,      \* least wait after a secondary limit
  Window,      \* time in which hits count as one, or as correlated (30 s)
  MaxWait,     \* longest cooldown by a secondary limit (15 min)
  MaxStrikes,  \* strikes that are counted (3)
  Recovery,    \* successes that undo a strike (1000)
  Waits,       \* waits that GitHub asks for
  Costs,       \* points that a request may cost
  MaxTime,     \* bound: time
  MaxLimits,   \* bound: answers that are rate limits
  MaxTokens,   \* bound: tokens issued for a lane
  MaxRevoked   \* bound: tokens that GitHub withdraws

Lanes == 1 .. LaneCount
Workers == Pinned \cup Roaming
NoLane == 0
NoToken == 0
NoWorker == "none"

\* Long before the start: the zero time of a pacer.
Never == -100

ASSUME ConstantsAssumption ==
  /\ LaneCount \in Nat \ {0} /\ AppLanes \subseteq Lanes
  /\ Pinned \cap Roaming = {} /\ NoWorker \notin Workers
  /\ LaneOf \in [Pinned -> Lanes]
  /\ Base \in Nat \ {0} /\ Minute \in Nat /\ Window \in Nat /\ MaxWait \in Nat
  /\ MaxStrikes \in 1 .. 3 /\ Recovery \in Nat \ {0}
  /\ Waits \subseteq Nat \ {0} /\ Costs \subseteq Nat \ {0}
  /\ MaxTime \in Nat /\ MaxLimits \in Nat /\ MaxTokens \in Nat /\ MaxRevoked \in Nat

VARIABLES
  now,      \* the clock
  pacer,    \* next slot, cooldown, strikes, successes since, last strike
  poolLock, \* worker that holds Pool.mu over several steps
  nextLane, \* Pool.next
  breaker,  \* Pool.globalCooldown
  hitAt,    \* Pool.secondaryHitAt
  disabled, \* credentials disabled for good
  cache,    \* cached token of a lane
  stale,    \* lanes whose cached token is within the refresh margin
  issued,   \* tokens issued for a lane so far
  revoked,  \* tokens GitHub does not accept, as <<lane, token>>
  worker,   \* what each worker is about to do
  limits,   \* limits answered so far
  spent,    \* history: points reserved or charged on a lane
  epoch     \* history: times a lane or the pool was told to cool down

vars == <<now, pacer, poolLock, nextLane, breaker, hitAt, disabled, cache, stale,
          issued, revoked, worker, limits, spent, epoch>>
pool == <<poolLock, nextLane, breaker, hitAt>>
creds == <<disabled, cache, stale, issued, revoked>>

Phases == {"idle", "checked", "choosing", "waiting", "sent", "rejected", "again",
           "resent", "observing", "charging", "struck", "stopped"}

Idle == [phase |-> "idle", lane |-> NoLane, at |-> 0, token |-> NoToken,
         first |-> NoToken, wait |-> 0, stamp |-> 0, cost |-> 1, epoch |-> 0]

\* 1 << n
Shift(n) == IF n = 0 THEN 1 ELSE IF n = 1 THEN 2 ELSE IF n = 2 THEN 4 ELSE 8

Larger(a, b) == IF a > b THEN a ELSE b
Smaller(a, b) == IF a < b THEN a ELSE b

Active(l) == l \notin disabled
Interval(p) == Base * Shift(p.strikes)

Become(w, phase) == worker' = [worker EXCEPT ![w].phase = phase]

\* The worker has a token for lane l.
Holds(w, l, phase, token) ==
  worker' = [worker EXCEPT ![w] =
    [Idle EXCEPT !.phase = phase, !.lane = l, !.token = token, !.first = worker[w].first]]

-----------------------------------------------------------------------------
(* Reserving a slot *)

Init ==
  /\ now = 0
  /\ pacer = [l \in Lanes |-> [next |-> 0, cooldown |-> 0, strikes |-> 0,
                               streak |-> 0, last |-> Never]]
  /\ poolLock = NoWorker /\ nextLane = 1 /\ breaker = 0
  /\ hitAt = [l \in Lanes |-> Never]
  /\ disabled = {} /\ stale = {} /\ revoked = {}
  /\ cache = [l \in Lanes |-> IF l \in AppLanes THEN NoToken ELSE 1]
  /\ issued = [l \in Lanes |-> IF l \in AppLanes THEN 0 ELSE 1]
  /\ worker = [w \in Workers |-> Idle]
  /\ limits = 0
  /\ spent = [l \in Lanes |-> 0]
  /\ epoch = 0

\* The earliest time of a new request: not before its slot, now, the lane's
\* cooldown and the breaker.
ReadyAt(l) == Larger(Larger(pacer[l].next, now), Larger(pacer[l].cooldown, breaker))

\* Seeded fault: the next slot counts from now.
ReserveFromNow(w, l, at) ==
  /\ pacer' = [pacer EXCEPT ![l].next = now + Interval(pacer[l])]
  /\ worker' = [worker EXCEPT ![w] =
       [Idle EXCEPT !.phase = "waiting", !.lane = l, !.at = at, !.epoch = epoch]]
  /\ spent' = [spent EXCEPT ![l] = @ + 1]

\* ReserveAfter, under the lock of the lane.
Reserve(w, l, at) ==
  /\ pacer' = [pacer EXCEPT ![l].next = at + Interval(pacer[l])]
  /\ worker' = [worker EXCEPT ![w] =
       [Idle EXCEPT !.phase = "waiting", !.lane = l, !.at = at, !.epoch = epoch]]
  /\ spent' = [spent EXCEPT ![l] = @ + 1]

\* waitGraphQLLane looks at its credential; when that is disabled, the worker
\* fails over to the pool like a roaming one.
CheckLane(w) ==
  /\ w \in Pinned /\ worker[w].phase = "idle" /\ Active(LaneOf[w])
  /\ Become(w, "checked")
  /\ UNCHANGED <<now, pacer, pool, creds, limits, spent, epoch>>

\* WaitLane looks again, under the lock of the pool.  Its error ends the worker.
WaitLane(w) ==
  /\ worker[w].phase = "checked" /\ poolLock = NoWorker
  /\ IF Active(LaneOf[w])
     THEN Reserve(w, LaneOf[w], ReadyAt(LaneOf[w]))
     ELSE Become(w, "stopped") /\ UNCHANGED <<pacer, spent>>
  /\ UNCHANGED <<now, pool, creds, limits, epoch>>

\* The lane that is ready first, in turn from nextLane among equals.
Turn(l) == (l - nextLane + LaneCount) % LaneCount

\* Seeded fault: only the lane whose turn it is.
CandidateInTurn == {l \in Lanes : Active(l) /\ l = nextLane}

Candidates == {l \in Lanes : Active(l)}

Earliest(l) ==
  \A k \in Candidates :
       \/ ReadyAt(l) < ReadyAt(k)
       \/ ReadyAt(l) = ReadyAt(k) /\ Turn(l) <= Turn(k)

\* Wait chooses a lane under the lock of the pool ...
ChooseLane(w) ==
  /\ worker[w].phase = "idle" /\ poolLock = NoWorker
  /\ w \in Pinned => ~Active(LaneOf[w])
  /\ IF Candidates # {}
     THEN /\ \E l \in Candidates : Earliest(l) /\
               worker' = [worker EXCEPT ![w].phase = "choosing", ![w].lane = l,
                                        ![w].at = ReadyAt(l)]
          /\ poolLock' = w
     ELSE Become(w, "stopped") /\ UNCHANGED poolLock
  /\ UNCHANGED <<now, pacer, nextLane, breaker, hitAt, creds, limits, spent, epoch>>

\* Seeded fault: the slot seen when the lane was chosen.
SlotSeen(w) == worker[w].at

\* The slot of a chosen lane is computed again: a cooldown may have come
\* between, since it takes the lock of the lane only.
SlotOf(w) == ReadyAt(worker[w].lane)

\* Seeded fault: not modulo the number of lanes.
FollowingUnbounded(l) == l + 1

Following(l) == (l % LaneCount) + 1

\* ... and reserves there.
ReserveChosen(w) ==
  /\ worker[w].phase = "choosing"
  /\ Reserve(w, worker[w].lane, SlotOf(w))
  /\ nextLane' = Following(worker[w].lane)
  /\ poolLock' = NoWorker
  /\ UNCHANGED <<now, breaker, hitAt, creds, limits, epoch>>

-----------------------------------------------------------------------------
(* Taking a token and sending *)

\* InstallationTokenSource.Token, which holds its lock over the refresh: a
\* cached token outside the margin, or else a new one, or, if the refresh
\* fails, the cached one while it lasts.
Usable(l) == cache[l] # NoToken /\ l \notin stale

Take(w, l, phase) ==
  \/ /\ Usable(l)
     /\ Holds(w, l, phase, cache[l])
     /\ UNCHANGED <<cache, stale, issued>>
  \/ /\ ~Usable(l) /\ issued[l] < MaxTokens
     /\ issued' = [issued EXCEPT ![l] = @ + 1]
     /\ cache' = [cache EXCEPT ![l] = issued[l] + 1]
     /\ stale' = stale \ {l}
     /\ Holds(w, l, phase, issued[l] + 1)
  \/ /\ ~Usable(l)
     /\ IF cache[l] # NoToken THEN Holds(w, l, phase, cache[l])
        ELSE worker' = [worker EXCEPT ![w] = Idle]
     /\ UNCHANGED <<cache, stale, issued>>

\* The timer of the slot fires, or fires late; then the request goes out,
\* unless the credential was disabled meanwhile.
Send(w) ==
  /\ worker[w].phase = "waiting" /\ worker[w].at <= now
  /\ LET l == worker[w].lane IN
     IF Active(l) THEN Take(w, l, "sent")
     ELSE worker' = [worker EXCEPT ![w] = Idle] /\ UNCHANGED <<cache, stale, issued>>
  /\ UNCHANGED <<now, pacer, pool, disabled, revoked, limits, spent, epoch>>

Accepted(w) == <<worker[w].lane, worker[w].token>> \notin revoked

\* 401: a static credential is disabled; the token of an App is dropped and
\* the request sent once more.
Unauthorized(w) ==
  /\ worker[w].phase = "sent" /\ ~Accepted(w)
  /\ LET l == worker[w].lane IN
     IF l \in AppLanes
     THEN /\ worker' = [worker EXCEPT ![w].phase = "rejected", ![w].first = worker[w].token]
          /\ UNCHANGED disabled
     ELSE /\ disabled' = disabled \cup {l}
          /\ worker' = [worker EXCEPT ![w] = Idle]
  /\ UNCHANGED <<now, pacer, pool, cache, stale, issued, revoked, limits, spent, epoch>>

\* Seeded fault: the token stays cached.
Kept(l, token) == cache[l]

\* Whatever token is cached, also one that another worker just got.
Dropped(l, token) == NoToken

Invalidate(w) ==
  /\ worker[w].phase = "rejected"
  /\ cache' = [cache EXCEPT ![worker[w].lane] = Dropped(worker[w].lane, worker[w].token)]
  /\ stale' = stale \ {worker[w].lane}
  /\ Become(w, "again")
  /\ UNCHANGED <<now, pacer, pool, disabled, issued, revoked, limits, spent, epoch>>

SendAgain(w) ==
  /\ worker[w].phase = "again"
  /\ Take(w, worker[w].lane, "resent")
  /\ UNCHANGED <<now, pacer, pool, disabled, revoked, limits, spent, epoch>>

\* A second 401, or any other error: the worker requeues its batch.
RequestFails(w) ==
  /\ worker[w].phase \in {"sent", "resent"}
  /\ worker' = [worker EXCEPT ![w] = Idle]
  /\ UNCHANGED <<now, pacer, pool, creds, limits, spent, epoch>>

-----------------------------------------------------------------------------
(* Answers *)

Answered(w) == worker[w].phase \in {"sent", "resent"} /\ Accepted(w)

Success(w, cost) ==
  /\ Answered(w)
  /\ worker' = [worker EXCEPT ![w] =
       [Idle EXCEPT !.phase = "observing", !.lane = worker[w].lane, !.cost = cost]]
  /\ UNCHANGED <<now, pacer, pool, creds, limits, spent, epoch>>

\* Observe: successes undo strikes.  The remaining budget may be low, which
\* cools the lane down until it is reset.
Relaxed(p) ==
  IF p.strikes = 0 THEN p
  ELSE IF p.streak + 1 < Recovery THEN [p EXCEPT !.streak = @ + 1]
  ELSE [p EXCEPT !.strikes = @ - 1, !.streak = 0]

Cooled(p, wait) == [p EXCEPT !.cooldown = Larger(@, now + wait)]

Observe(w) ==
  /\ worker[w].phase = "observing"
  /\ \/ /\ pacer' = [pacer EXCEPT ![worker[w].lane] = Relaxed(@)]
        /\ UNCHANGED <<limits, epoch>>
     \/ \E wait \in Waits :
          /\ limits < MaxLimits
          /\ pacer' = [pacer EXCEPT ![worker[w].lane] = Cooled(Relaxed(@), wait)]
          /\ limits' = limits + 1 /\ epoch' = epoch + 1
  /\ Become(w, "charging")
  /\ UNCHANGED <<now, pool, creds, spent>>

\* What a request cost above one point is taken from the slots to come.
ExtraCost(w) ==
  /\ worker[w].phase = "charging"
  /\ LET l == worker[w].lane
         extra == worker[w].cost - 1
     IN /\ pacer' = [pacer EXCEPT ![l].next = @ + extra * Interval(pacer[l])]
        /\ spent' = [spent EXCEPT ![l] = @ + extra]
  /\ worker' = [worker EXCEPT ![w] = Idle]
  /\ UNCHANGED <<now, pool, creds, limits, epoch>>

\* A primary limit: the lane rests.
PrimaryLimit(w, wait) ==
  /\ Answered(w) /\ limits < MaxLimits
  /\ pacer' = [pacer EXCEPT ![worker[w].lane] = Cooled(@, wait)]
  /\ worker' = [worker EXCEPT ![w] = Idle]
  /\ limits' = limits + 1 /\ epoch' = epoch + 1
  /\ UNCHANGED <<now, pool, creds, spent>>

\* Hits within the window are one strike; each strike doubles the interval
\* and the wait.
Struck(p, wait) ==
  LET strikes == IF now - p.last >= Window THEN Smaller(p.strikes + 1, MaxStrikes)
                 ELSE p.strikes
      rest == Smaller(Larger(wait, Minute) * Shift(Larger(strikes, 1) - 1), MaxWait)
  IN [p EXCEPT !.strikes = strikes, !.streak = 0,
               !.last = IF now - @ >= Window THEN now ELSE @,
               !.cooldown = Larger(@, now + rest)]

\* A secondary limit strikes the lane, and then reads the clock ...
SecondaryLimit(w, wait) ==
  /\ Answered(w) /\ limits < MaxLimits
  /\ pacer' = [pacer EXCEPT ![worker[w].lane] = Struck(@, wait)]
  /\ worker' = [worker EXCEPT ![w] =
       [Idle EXCEPT !.phase = "struck", !.lane = worker[w].lane, !.wait = wait, !.stamp = now]]
  /\ limits' = limits + 1 /\ epoch' = epoch + 1
  /\ UNCHANGED <<now, pool, creds, spent>>

\* Seeded fault: a hit recorded after a later one is not compared.
CorrelatedInOrder(l, stamp) ==
  \E k \in Lanes \ {l} : hitAt[k] <= stamp /\ stamp - hitAt[k] <= Window

\* Another lane was hit within the window before this hit, or after it.
Correlated(l, stamp) == \E k \in Lanes \ {l} : stamp - hitAt[k] <= Window

\* ... and, with the lock of the pool, compares it with the other lanes.
RecordHit(w) ==
  /\ worker[w].phase = "struck" /\ poolLock = NoWorker
  /\ LET l == worker[w].lane
         stamp == worker[w].stamp
     IN /\ hitAt' = [hitAt EXCEPT ![l] = stamp]
        /\ IF Correlated(l, stamp)
           THEN /\ breaker' = Larger(breaker, stamp + Larger(worker[w].wait, Minute))
                /\ epoch' = epoch + 1
           ELSE UNCHANGED <<breaker, epoch>>
  /\ worker' = [worker EXCEPT ![w] = Idle]
  /\ UNCHANGED <<now, pacer, poolLock, nextLane, creds, limits, spent>>

-----------------------------------------------------------------------------
(* The clock and GitHub *)

Tick ==
  /\ now < MaxTime
  /\ now' = now + 1
  /\ UNCHANGED <<pacer, pool, creds, worker, limits, spent, epoch>>

\* A token comes within its refresh margin; the last one does not.
Age(l) ==
  /\ l \in AppLanes \ stale /\ cache[l] # NoToken /\ issued[l] < MaxTokens
  /\ stale' = stale \cup {l}
  /\ UNCHANGED <<now, pacer, pool, disabled, cache, issued, revoked, worker, limits, spent, epoch>>

\* GitHub withdraws the tokens it has issued for a lane.
Revoke(l) ==
  /\ Cardinality(revoked) < MaxRevoked
  /\ \E t \in 1 .. issued[l] :
       <<l, t>> \notin revoked /\ revoked' = revoked \cup {<<l, t>>}
  /\ UNCHANGED <<now, pacer, pool, disabled, cache, stale, issued, worker, limits, spent, epoch>>

-----------------------------------------------------------------------------

WorkerStep(w) ==
  \/ CheckLane(w) \/ WaitLane(w) \/ ChooseLane(w) \/ ReserveChosen(w)
  \/ Send(w) \/ Unauthorized(w) \/ Invalidate(w) \/ SendAgain(w) \/ RequestFails(w)
  \/ \E cost \in Costs : Success(w, cost)
  \/ Observe(w) \/ ExtraCost(w)
  \/ \E wait \in Waits : PrimaryLimit(w, wait) \/ SecondaryLimit(w, wait)
  \/ RecordHit(w)

Next ==
  \/ \E w \in Workers : WorkerStep(w)
  \/ Tick
  \/ \E l \in Lanes : Age(l) \/ Revoke(l)

Spec == Init /\ [][Next]_vars

-----------------------------------------------------------------------------
(* Properties *)

\* Shapes of all variables.
TypeOK ==
  /\ now \in Nat /\ breaker \in Nat /\ limits \in Nat /\ epoch \in Nat
  /\ pacer \in [Lanes -> [next : Nat, cooldown : Nat, strikes : 0 .. MaxStrikes,
                          streak : Nat, last : Int]]
  /\ poolLock \in Workers \cup {NoWorker} /\ nextLane \in Lanes
  /\ hitAt \in [Lanes -> Int]
  /\ disabled \subseteq Lanes \ AppLanes /\ stale \subseteq AppLanes
  /\ cache \in [Lanes -> Nat] /\ issued \in [Lanes -> Nat]
  /\ revoked \subseteq Lanes \X Nat
  /\ worker \in [Workers -> [phase : Phases, lane : Lanes \cup {NoLane}, at : Nat,
                             token : Nat, first : Nat, wait : Nat, stamp : Nat,
                             cost : Nat, epoch : Nat]]
  /\ spent \in [Lanes -> Nat]

\* A lane never schedules more points than its interval allows from the start,
\* whatever the order of reservations and of charges for requests that cost
\* more than one point, over cooldowns, strikes and recoveries.
BudgetHolds == \A l \in Lanes : spent[l] * Base <= pacer[l].next

\* A request that goes out while its lane or the whole pool cools down was
\* reserved before the last cooldown was set: no later reservation, on any
\* lane and by either way, falls into a cooldown.
OnlyEarlierSlotsInCooldown ==
  [][\A w \in Workers :
       worker[w].phase = "waiting" /\ worker'[w].phase = "sent" /\
       now < Larger(pacer[worker[w].lane].cooldown, breaker)
         => worker[w].epoch < epoch]_vars

\* When two lanes were hit within the window, all lanes rest for at least a
\* minute from the earlier hit on, in whichever order the hits are recorded.
CorrelatedHitsStopAll ==
  \A k, l \in Lanes :
    k # l /\ hitAt[k] # Never /\ hitAt[l] # Never /\ hitAt[l] \in hitAt[k] .. hitAt[k] + Window
      => breaker >= hitAt[k] + Minute

\* The second try after a 401 does not send the rejected token again, though
\* other workers refresh, drop and use the tokens of the lane meanwhile.
RetryHasAnotherToken ==
  \A w \in Workers : worker[w].phase = "resent" => worker[w].token # worker[w].first

\* While a credential is active, a worker ends only in the moment in which its
\* own lane is disabled: between the look of waitGraphQLLane and that of WaitLane.
WorkersGoOn ==
  [][\A w \in Workers :
       worker[w].phase # "stopped" /\ worker'[w].phase = "stopped" /\ disabled # Lanes
         => worker[w].phase = "checked" /\ LaneOf[w] \in disabled]_vars

=============================================================================
