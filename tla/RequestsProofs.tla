--------------------------- MODULE RequestsProofs ---------------------------
(* Theorems about Requests. *)
EXTENDS Requests, TLAPS

USE ConstantsAssumption

Pacers == [next : Nat, cooldown : Nat, strikes : 0 .. MaxStrikes, streak : Nat, last : Int]
WorkerStates == [phase : Phases, lane : Lanes \cup {NoLane}, at : Nat, token : Nat,
                 first : Nat, wait : Nat, stamp : Nat, cost : Nat, epoch : Nat]

\* Phases in which a worker has no lane.
Free == {"idle", "checked", "stopped"}

\* What TypeOK needs to be kept: who has a lane, and that a request costs a point.
WorkersInv ==
  \A w \in Workers :
    /\ worker[w].phase \notin Free => worker[w].lane \in Lanes
    /\ worker[w].phase = "checked" => w \in Pinned
    /\ worker[w].cost \in Nat \ {0}

TypeInv == TypeOK /\ WorkersInv

-----------------------------------------------------------------------------
(* Times *)

\* A shift is one of the four powers.
LEMMA ShiftType == \A n : Shift(n) \in {1, 2, 4, 8}
BY DEF Shift

\* A product of numbers is a number, and not less than the first when the
\* second is not zero.
LEMMA Product ==
  ASSUME NEW a \in Nat, NEW n
  PROVE  a * Shift(n) \in Nat /\ a * Shift(n) >= a
<1>1. Shift(n) = 1 \/ Shift(n) = 2 \/ Shift(n) = 4 \/ Shift(n) = 8
  BY ShiftType
<1> QED BY <1>1

\* The interval of a lane is not below the base.
LEMMA IntervalType == \A p : Interval(p) \in Nat /\ Interval(p) >= Base
BY Product DEF Interval

\* A slot is in the future and after every rest.
LEMMA SlotType ==
  ASSUME TypeOK, NEW l \in Lanes
  PROVE  /\ ReadyAt(l) \in Nat /\ ReadyAt(l) >= now /\ ReadyAt(l) >= pacer[l].next
         /\ ReadyAt(l) >= pacer[l].cooldown /\ ReadyAt(l) >= breaker
BY DEF TypeOK, ReadyAt, Larger

\* A pacer whose strikes are set, and one that is struck.
Restruck(p, strikes) == [p EXCEPT !.strikes = strikes, !.streak = 0]
StruckTo(p, strikes, last, cooldown) ==
  [p EXCEPT !.strikes = strikes, !.streak = 0, !.last = last, !.cooldown = cooldown]

\* Both are pacers with the same next slot.
LEMMA RestruckTyped ==
  ASSUME NEW p \in Pacers, NEW s \in 0 .. MaxStrikes
  PROVE  /\ Restruck(p, s) \in Pacers /\ Restruck(p, s).next = p.next
         /\ Restruck(p, s).cooldown = p.cooldown
BY DEF Pacers, Restruck

\* A pacer with strikes and a cooldown is a pacer with the same next slot.
LEMMA StruckTyped ==
  ASSUME NEW p \in Pacers, NEW s \in 0 .. MaxStrikes, NEW t \in Int, NEW c \in Nat
  PROVE  /\ StruckTo(p, s, t, c) \in Pacers /\ StruckTo(p, s, t, c).next = p.next
         /\ StruckTo(p, s, t, c).cooldown = c
BY DEF Pacers, StruckTo

\* What an answer makes of a pacer.
LEMMA PacerTypes ==
  ASSUME now \in Nat, NEW p \in Pacers, NEW wait \in Nat
  PROVE  /\ Relaxed(p) \in Pacers /\ Cooled(p, wait) \in Pacers /\ Struck(p, wait) \in Pacers
         /\ Relaxed(p).next = p.next /\ Cooled(p, wait).next = p.next
         /\ Struck(p, wait).next = p.next
         /\ Relaxed(p).cooldown = p.cooldown
<1>1. Relaxed(p) \in Pacers /\ Relaxed(p).next = p.next /\ Relaxed(p).cooldown = p.cooldown
  <2>1. CASE p.strikes = 0
    BY <2>1 DEF Relaxed
  <2>2. CASE p.strikes # 0 /\ p.streak + 1 < Recovery
    <3>1. Relaxed(p) = [p EXCEPT !.streak = p.streak + 1]
      BY <2>2 DEF Relaxed
    <3> QED BY <3>1 DEF Pacers
  <2>3. CASE p.strikes # 0 /\ ~(p.streak + 1 < Recovery)
    <3>1. Relaxed(p) = Restruck(p, p.strikes - 1)
      BY <2>3 DEF Relaxed, Restruck
    <3>2. p.strikes - 1 \in 0 .. MaxStrikes
      BY <2>3 DEF Pacers
    <3> QED BY <3>1, <3>2, RestruckTyped
  <2> QED BY <2>1, <2>2, <2>3
<1>2. Cooled(p, wait) \in Pacers /\ Cooled(p, wait).next = p.next
  BY DEF Cooled, Pacers, Larger
<1>3. Struck(p, wait) \in Pacers /\ Struck(p, wait).next = p.next
  <2> DEFINE strikes == IF now - p.last >= Window THEN Smaller(p.strikes + 1, MaxStrikes)
                        ELSE p.strikes
             power == Shift(Larger(strikes, 1) - 1)
             rest == Smaller(Larger(wait, Minute) * power, MaxWait)
             last == IF now - p.last >= Window THEN now ELSE p.last
             cooldown == Larger(p.cooldown, now + rest)
  <2>1. strikes \in 0 .. MaxStrikes
    BY DEF Smaller, Pacers
  <2>2. Larger(wait, Minute) \in Nat
    BY DEF Larger
  <2>3. Larger(wait, Minute) * power \in Nat
    BY <2>2, Product
  <2>4. rest \in Nat
    BY <2>3 DEF Smaller
  <2>5. cooldown \in Nat
    BY <2>4 DEF Larger, Pacers
  <2>6. last \in Int
    BY DEF Pacers
  <2>7. Struck(p, wait) = StruckTo(p, strikes, last, cooldown)
    BY DEF Struck, StruckTo
  <2> HIDE DEF strikes, power, rest, last, cooldown
  <2> QED BY <2>1, <2>5, <2>6, <2>7, StruckTyped
<1> QED BY <1>1, <1>2, <1>3

-----------------------------------------------------------------------------
(* Types *)

\* Worker w is given state s, and the others keep theirs.
Gets(w, s) == worker' = [worker EXCEPT ![w] = s]

\* That keeps the types when s has them.
LEMMA SetWorker ==
  ASSUME TypeInv, NEW w \in Workers, NEW s \in WorkerStates, Gets(w, s),
         s.phase \notin Free => s.lane \in Lanes,
         s.phase = "checked" => w \in Pinned,
         s.cost \in Nat \ {0}
  PROVE  worker' \in [Workers -> WorkerStates] /\ WorkersInv'
<1>1. worker \in [Workers -> WorkerStates] /\ WorkersInv
  BY DEF TypeInv, TypeOK, WorkerStates
<1>2. worker' \in [Workers -> WorkerStates]
  BY <1>1 DEF Gets
<1>3. WorkersInv'
  BY <1>1 DEF WorkersInv, Gets
<1> QED BY <1>2, <1>3

\* A reservation keeps the types.
LEMMA ReserveTyped ==
  ASSUME TypeInv, NEW w \in Workers, NEW l \in Lanes, NEW at \in Nat, Reserve(w, l, at)
  PROVE  /\ pacer' \in [Lanes -> Pacers] /\ worker' \in [Workers -> WorkerStates]
         /\ spent' \in [Lanes -> Nat] /\ WorkersInv'
<1>1. at + Interval(pacer[l]) \in Nat
  BY IntervalType
<1>2. pacer' \in [Lanes -> Pacers] /\ spent' \in [Lanes -> Nat]
  <2>1. pacer' \in [Lanes -> Pacers]
    <3> DEFINE p == [pacer[l] EXCEPT !.next = at + Interval(pacer[l])]
    <3>1. pacer \in [Lanes -> Pacers]
      BY DEF TypeInv, TypeOK, Pacers
    <3>2. p \in Pacers
      BY <1>1, <3>1 DEF Pacers
    <3>3. pacer' = [pacer EXCEPT ![l] = p]
      BY DEF Reserve
    <3> HIDE DEF p
    <3> QED BY <3>1, <3>2, <3>3
  <2>2. spent' \in [Lanes -> Nat]
    BY DEF Reserve, TypeInv, TypeOK
  <2> QED BY <2>1, <2>2
<1>3. "waiting" \in Phases /\ epoch \in Nat
  BY DEF Phases, TypeInv, TypeOK
<1>4. worker' \in [Workers -> WorkerStates] /\ WorkersInv'
  <2> DEFINE s == [Idle EXCEPT !.phase = "waiting", !.lane = l, !.at = at, !.epoch = epoch]
  <2>1. s \in WorkerStates /\ s.phase = "waiting" /\ s.lane = l /\ s.cost = 1
    BY <1>3 DEF Idle, WorkerStates, NoLane, NoToken
  <2>2. Gets(w, s)
    BY DEF Reserve, Gets
  <2> HIDE DEF s
  <2> QED BY <2>1, <2>2, SetWorker DEF Free
<1> QED BY <1>2, <1>4

\* A worker that ends its request keeps the types.
LEMMA IdleTyped ==
  ASSUME TypeInv, NEW w \in Workers, worker' = [worker EXCEPT ![w] = Idle]
  PROVE  worker' \in [Workers -> WorkerStates] /\ WorkersInv'
<1>1. Idle \in WorkerStates /\ Idle.phase = "idle" /\ Idle.cost = 1
  BY DEF Idle, WorkerStates, NoLane, NoToken, Phases
<1>2. Gets(w, Idle)
  BY DEF Gets
<1> QED BY <1>1, <1>2, SetWorker DEF Free

\* A token taken keeps the types.
LEMMA TakeTyped ==
  ASSUME TypeInv, NEW w \in Workers, NEW l \in Lanes, NEW phase \in {"sent", "resent"},
         Take(w, l, phase)
  PROVE  /\ worker' \in [Workers -> WorkerStates] /\ WorkersInv'
         /\ cache' \in [Lanes -> Nat] /\ issued' \in [Lanes -> Nat] /\ stale' \subseteq AppLanes
<1>1. phase \in Phases /\ phase \notin Free /\ phase # "checked" /\ worker[w].first \in Nat
  BY DEF Phases, Free, TypeInv, TypeOK
<1>2. ASSUME NEW token \in Nat, Holds(w, l, phase, token)
      PROVE  worker' \in [Workers -> WorkerStates] /\ WorkersInv'
  <2> DEFINE s == [Idle EXCEPT !.phase = phase, !.lane = l, !.token = token,
                               !.first = worker[w].first]
  <2>1. s \in WorkerStates /\ s.phase = phase /\ s.lane = l /\ s.cost = 1
    BY <1>1 DEF Idle, WorkerStates, NoLane, NoToken
  <2>2. Gets(w, s)
    BY <1>2 DEF Holds, Gets
  <2> HIDE DEF s
  <2> QED BY <1>1, <2>1, <2>2, SetWorker
<1>3. cache[l] \in Nat /\ issued[l] \in Nat /\ issued[l] + 1 \in Nat
  BY DEF TypeInv, TypeOK
<1>4. worker' \in [Workers -> WorkerStates] /\ WorkersInv'
  BY <1>2, <1>3, IdleTyped DEF Take
<1>5. cache' \in [Lanes -> Nat] /\ issued' \in [Lanes -> Nat] /\ stale' \subseteq AppLanes
  <2>1. /\ cache \in [Lanes -> Nat] /\ issued \in [Lanes -> Nat] /\ stale \subseteq AppLanes
    BY DEF TypeInv, TypeOK
  <2>2. \/ UNCHANGED <<cache, stale, issued>>
        \/ /\ issued' = [issued EXCEPT ![l] = issued[l] + 1]
           /\ cache' = [cache EXCEPT ![l] = issued[l] + 1]
           /\ stale' = stale \ {l}
    BY DEF Take
  <2> QED BY <1>3, <2>1, <2>2
<1> QED BY <1>4, <1>5

\* So does one that goes on with its lane.
LEMMA BecomeTyped ==
  ASSUME TypeInv, NEW w \in Workers, NEW phase \in Phases, Become(w, phase),
         phase = "checked" => w \in Pinned,
         phase \notin Free => worker[w].phase \notin Free
  PROVE  worker' \in [Workers -> WorkerStates] /\ WorkersInv'
<1>1. worker' \in [Workers -> WorkerStates] /\ worker'[w].phase = phase
      /\ worker'[w].lane = worker[w].lane /\ worker'[w].cost = worker[w].cost
      /\ \A v \in Workers : v # w => worker'[v] = worker[v]
  <2> DEFINE s == [worker[w] EXCEPT !.phase = phase]
  <2>1. worker \in [Workers -> WorkerStates]
    BY DEF TypeInv, TypeOK, WorkerStates
  <2>2. s \in WorkerStates /\ s.phase = phase /\ s.lane = worker[w].lane /\ s.cost = worker[w].cost
    BY <2>1 DEF WorkerStates
  <2>3. worker' = [worker EXCEPT ![w] = s]
    BY DEF Become
  <2> HIDE DEF s
  <2> QED BY <2>1, <2>2, <2>3
<1> QED BY <1>1 DEF TypeInv, WorkersInv

\* Every step keeps the types.
LEMMA TypeStep == TypeInv /\ [Next]_vars => TypeInv'
<1> SUFFICES ASSUME TypeInv, [Next]_vars PROVE TypeInv'
  OBVIOUS
<1> USE DEF pool, creds
<1>0. TypeOK /\ WorkersInv /\ pacer \in [Lanes -> Pacers] /\ worker \in [Workers -> WorkerStates]
  BY DEF TypeInv, TypeOK, Pacers, WorkerStates
<1> DEFINE Good == worker' \in [Workers -> WorkerStates] /\ WorkersInv'
<1>1. ASSUME NEW w \in Workers, CheckLane(w) PROVE TypeInv'
  <2>1. Good
    BY <1>1, BecomeTyped DEF CheckLane, Phases, Free
  <2> QED BY <1>0, <1>1, <2>1 DEF CheckLane, TypeInv, TypeOK, WorkerStates
<1>2. ASSUME NEW w \in Workers, WaitLane(w) PROVE TypeInv'
  <2>1. w \in Pinned /\ LaneOf[w] \in Lanes
    BY <1>0, <1>2 DEF WaitLane, WorkersInv
  <2>2. CASE Active(LaneOf[w])
    <3>1. ReadyAt(LaneOf[w]) \in Nat /\ Reserve(w, LaneOf[w], ReadyAt(LaneOf[w]))
      BY <1>0, <1>2, <2>1, <2>2, SlotType DEF WaitLane
    <3>2. pacer' \in [Lanes -> Pacers] /\ Good /\ spent' \in [Lanes -> Nat]
      BY <2>1, <3>1, ReserveTyped
    <3> QED BY <1>0, <1>2, <3>2 DEF WaitLane, TypeInv, TypeOK, Pacers, WorkerStates
  <2>3. CASE ~Active(LaneOf[w])
    <3>1. Good
      BY <1>2, <2>3, BecomeTyped DEF WaitLane, Phases, Free
    <3> QED BY <1>0, <1>2, <2>3, <3>1 DEF WaitLane, TypeInv, TypeOK, WorkerStates
  <2> QED BY <2>2, <2>3
<1>3. ASSUME NEW w \in Workers, ChooseLane(w) PROVE TypeInv'
  <2>1. Good /\ poolLock' \in Workers \cup {NoWorker}
    <3>1. CASE Candidates # {}
      <4>1. PICK l \in Candidates :
              worker' = [worker EXCEPT ![w].phase = "choosing", ![w].lane = l,
                                       ![w].at = ReadyAt(l)]
        BY <1>3, <3>1 DEF ChooseLane
      <4>2. l \in Lanes /\ ReadyAt(l) \in Nat
        BY <1>0, <4>1, SlotType DEF Candidates
      <4>3. poolLock' = w
        BY <1>3, <3>1 DEF ChooseLane
      <4>4. worker' \in [Workers -> WorkerStates]
        <5>1. [worker[w] EXCEPT !.phase = "choosing", !.lane = l, !.at = ReadyAt(l)] \in WorkerStates
          <6>1. worker[w] \in WorkerStates
            BY <1>0
          <6> QED BY <4>2, <6>1 DEF WorkerStates, Phases
        <5> QED BY <1>0, <4>1, <5>1
      <4>5. WorkersInv'
        BY <1>0, <4>1, <4>2 DEF WorkersInv, WorkerStates
      <4> QED BY <4>3, <4>4, <4>5
    <3>2. CASE Candidates = {}
      <4>1. Become(w, "stopped") /\ UNCHANGED poolLock
        BY <1>3, <3>2 DEF ChooseLane
      <4>2. Good
        BY <4>1, BecomeTyped DEF Phases, Free
      <4> QED BY <1>0, <4>1, <4>2 DEF TypeOK
    <3> QED BY <3>1, <3>2
  <2> QED BY <1>0, <1>3, <2>1 DEF ChooseLane, TypeInv, TypeOK, WorkerStates
<1>4. ASSUME NEW w \in Workers, ReserveChosen(w) PROVE TypeInv'
  <2>1. worker[w].lane \in Lanes
    BY <1>0, <1>4 DEF ReserveChosen, WorkersInv, Free
  <2>2. SlotOf(w) \in Nat
    BY <1>0, <2>1, SlotType DEF SlotOf
  <2>3. pacer' \in [Lanes -> Pacers] /\ Good /\ spent' \in [Lanes -> Nat]
    BY <1>4, <2>1, <2>2, ReserveTyped DEF ReserveChosen
  <2>4. nextLane' \in Lanes
    BY <1>4, <2>1 DEF ReserveChosen, Following, Lanes
  <2> QED BY <1>0, <1>4, <2>3, <2>4 DEF ReserveChosen, TypeInv, TypeOK, Pacers, WorkerStates
<1>5. ASSUME NEW w \in Workers, Send(w) PROVE TypeInv'
  <2>1. worker[w].lane \in Lanes
    BY <1>0, <1>5 DEF Send, WorkersInv, Free
  <2>2. /\ Good /\ cache' \in [Lanes -> Nat] /\ issued' \in [Lanes -> Nat]
        /\ stale' \subseteq AppLanes
    BY <1>0, <1>5, <2>1, TakeTyped, IdleTyped DEF Send, TypeOK
  <2> QED BY <1>0, <1>5, <2>2 DEF Send, TypeInv, TypeOK, WorkerStates
<1>6. ASSUME NEW w \in Workers, Unauthorized(w) PROVE TypeInv'
  <2>1. worker[w].lane \in Lanes
    BY <1>0, <1>6 DEF Unauthorized, WorkersInv, Free
  <2>2. CASE worker[w].lane \in AppLanes
    <3>1. worker' = [worker EXCEPT ![w].phase = "rejected", ![w].first = worker[w].token]
      BY <1>6, <2>2 DEF Unauthorized
    <3>2. worker' \in [Workers -> WorkerStates]
      <4>1. [worker[w] EXCEPT !.phase = "rejected", !.first = worker[w].token] \in WorkerStates
        <5>1. worker[w] \in WorkerStates
          BY <1>0
        <5> QED BY <5>1 DEF WorkerStates, Phases
      <4> QED BY <1>0, <3>1, <4>1
    <3>3. WorkersInv'
      BY <1>0, <2>1, <3>1 DEF WorkersInv, WorkerStates
    <3>4. disabled' \subseteq Lanes \ AppLanes
      BY <1>0, <1>6, <2>2 DEF Unauthorized, TypeOK
    <3> QED BY <1>0, <1>6, <3>2, <3>3, <3>4 DEF Unauthorized, TypeInv, TypeOK, WorkerStates
  <2>3. CASE worker[w].lane \notin AppLanes
    <3>1. Good
      BY <1>6, <2>3, IdleTyped DEF Unauthorized
    <3>2. disabled' \subseteq Lanes \ AppLanes
      BY <1>0, <1>6, <2>1, <2>3 DEF Unauthorized, TypeOK
    <3> QED BY <1>0, <1>6, <3>1, <3>2 DEF Unauthorized, TypeInv, TypeOK, WorkerStates
  <2> QED BY <2>2, <2>3
<1>7. ASSUME NEW w \in Workers, Invalidate(w) PROVE TypeInv'
  <2>1. Good
    BY <1>7, BecomeTyped DEF Invalidate, Phases, Free
  <2>2. cache' \in [Lanes -> Nat] /\ stale' \subseteq AppLanes
    BY <1>0, <1>7 DEF Invalidate, Dropped, NoToken, TypeOK
  <2> QED BY <1>0, <1>7, <2>1, <2>2 DEF Invalidate, TypeInv, TypeOK, WorkerStates
<1>8. ASSUME NEW w \in Workers, SendAgain(w) PROVE TypeInv'
  <2>1. worker[w].lane \in Lanes
    BY <1>0, <1>8 DEF SendAgain, WorkersInv, Free
  <2>2. /\ Good /\ cache' \in [Lanes -> Nat] /\ issued' \in [Lanes -> Nat]
        /\ stale' \subseteq AppLanes
    BY <1>8, <2>1, TakeTyped DEF SendAgain
  <2> QED BY <1>0, <1>8, <2>2 DEF SendAgain, TypeInv, TypeOK, WorkerStates
<1>9. ASSUME NEW w \in Workers, RequestFails(w) PROVE TypeInv'
  <2>1. Good
    BY <1>9, IdleTyped DEF RequestFails
  <2> QED BY <1>0, <1>9, <2>1 DEF RequestFails, TypeInv, TypeOK, WorkerStates
<1>10. ASSUME NEW w \in Workers, NEW cost \in Costs, Success(w, cost) PROVE TypeInv'
  <2>1. worker[w].lane \in Lanes /\ cost \in Nat \ {0}
    BY <1>0, <1>10 DEF Success, Answered, WorkersInv, Free
  <2>2. "observing" \in Phases /\ cost \in Nat
    BY <2>1 DEF Phases
  <2>3. Good
    <3> DEFINE s == [Idle EXCEPT !.phase = "observing", !.lane = worker[w].lane, !.cost = cost]
    <3>1. s \in WorkerStates /\ s.phase = "observing" /\ s.lane = worker[w].lane /\ s.cost = cost
      BY <2>1, <2>2 DEF Idle, WorkerStates, NoLane, NoToken
    <3>2. Gets(w, s)
      BY <1>10 DEF Success, Gets
    <3> HIDE DEF s
    <3> QED BY <2>1, <3>1, <3>2, SetWorker
  <2> QED BY <1>0, <1>10, <2>3 DEF Success, TypeInv, TypeOK, WorkerStates
<1>11. ASSUME NEW w \in Workers, Observe(w) PROVE TypeInv'
  <2>1. Good
    BY <1>11, BecomeTyped DEF Observe, Phases, Free
  <2>2. worker[w].lane \in Lanes
    BY <1>0, <1>11 DEF Observe, WorkersInv, Free
  <2>3. \A wait \in Nat : Cooled(Relaxed(pacer[worker[w].lane]), wait) \in Pacers
    BY <1>0, <2>2, PacerTypes DEF TypeOK
  <2>4. Relaxed(pacer[worker[w].lane]) \in Pacers
    BY <1>0, <2>2, PacerTypes DEF TypeOK
  <2>5. pacer' \in [Lanes -> Pacers] /\ limits' \in Nat /\ epoch' \in Nat
    BY <1>0, <1>11, <2>2, <2>3, <2>4 DEF Observe, TypeOK
  <2> QED BY <1>0, <1>11, <2>1, <2>5 DEF Observe, TypeInv, TypeOK, Pacers, WorkerStates
<1>12. ASSUME NEW w \in Workers, ExtraCost(w) PROVE TypeInv'
  <2> DEFINE l == worker[w].lane
             extra == worker[w].cost - 1
  <2>1. Good
    BY <1>12, IdleTyped DEF ExtraCost
  <2>2. l \in Lanes /\ extra \in Nat
    BY <1>0, <1>12 DEF ExtraCost, WorkersInv, Free
  <2>3. extra * Interval(pacer[l]) \in Nat
    BY <2>2, IntervalType
  <2>4. /\ pacer' = [pacer EXCEPT ![l].next = @ + extra * Interval(pacer[l])]
        /\ spent' = [spent EXCEPT ![l] = @ + extra]
    BY <1>12 DEF ExtraCost
  <2> HIDE DEF extra
  <2>5. pacer' \in [Lanes -> Pacers] /\ spent' \in [Lanes -> Nat]
    BY <1>0, <2>2, <2>3, <2>4 DEF TypeOK, Pacers
  <2> QED BY <1>0, <1>12, <2>1, <2>5 DEF ExtraCost, TypeInv, TypeOK, Pacers, WorkerStates
<1>13. ASSUME NEW w \in Workers, NEW wait \in Waits, PrimaryLimit(w, wait) PROVE TypeInv'
  <2>1. Good
    BY <1>13, IdleTyped DEF PrimaryLimit
  <2>2. worker[w].lane \in Lanes
    BY <1>0, <1>13 DEF PrimaryLimit, Answered, WorkersInv, Free
  <2>3. Cooled(pacer[worker[w].lane], wait) \in Pacers
    BY <1>0, <2>2, PacerTypes DEF TypeOK
  <2>4. pacer' \in [Lanes -> Pacers] /\ limits' \in Nat /\ epoch' \in Nat
    BY <1>0, <1>13, <2>2, <2>3 DEF PrimaryLimit, TypeOK
  <2> QED BY <1>0, <1>13, <2>1, <2>4 DEF PrimaryLimit, TypeInv, TypeOK, Pacers, WorkerStates
<1>14. ASSUME NEW w \in Workers, NEW wait \in Waits, SecondaryLimit(w, wait) PROVE TypeInv'
  <2>1. worker[w].lane \in Lanes
    BY <1>0, <1>14 DEF SecondaryLimit, Answered, WorkersInv, Free
  <2>2. Good
    <3>1. "struck" \in Phases /\ now \in Nat /\ wait \in Nat
      BY <1>0 DEF TypeOK, Phases
    <3> DEFINE s == [Idle EXCEPT !.phase = "struck", !.lane = worker[w].lane,
                                 !.wait = wait, !.stamp = now]
    <3>2. s \in WorkerStates /\ s.phase = "struck" /\ s.lane = worker[w].lane /\ s.cost = 1
      BY <2>1, <3>1 DEF Idle, WorkerStates, NoLane, NoToken
    <3>3. Gets(w, s)
      BY <1>14 DEF SecondaryLimit, Gets
    <3> HIDE DEF s
    <3> QED BY <2>1, <3>2, <3>3, SetWorker
  <2>3. Struck(pacer[worker[w].lane], wait) \in Pacers
    BY <1>0, <2>1, PacerTypes DEF TypeOK
  <2>4. pacer' \in [Lanes -> Pacers] /\ limits' \in Nat /\ epoch' \in Nat
    BY <1>0, <1>14, <2>1, <2>3 DEF SecondaryLimit, TypeOK
  <2> QED BY <1>0, <1>14, <2>2, <2>4 DEF SecondaryLimit, TypeInv, TypeOK, Pacers, WorkerStates
<1>15. ASSUME NEW w \in Workers, RecordHit(w) PROVE TypeInv'
  <2>1. Good
    BY <1>15, IdleTyped DEF RecordHit
  <2>2. worker[w].stamp \in Nat /\ worker[w].wait \in Nat
    BY <1>0 DEF WorkerStates
  <2>3. hitAt' \in [Lanes -> Int] /\ breaker' \in Nat /\ epoch' \in Nat
    <3>1. worker[w].stamp + Larger(worker[w].wait, Minute) \in Nat
      BY <2>2 DEF Larger
    <3>2. hitAt \in [Lanes -> Int] /\ breaker \in Nat /\ epoch \in Nat
      BY <1>0 DEF TypeOK
    <3>3. hitAt' \in [Lanes -> Int]
      <4>1. hitAt' = [hitAt EXCEPT ![worker[w].lane] = worker[w].stamp]
        BY <1>15 DEF RecordHit
      <4>2. worker[w].stamp \in Int
        BY <2>2
      <4> QED BY <3>2, <4>1, <4>2
    <3>4. \/ UNCHANGED <<breaker, epoch>>
          \/ /\ breaker' = Larger(breaker, worker[w].stamp + Larger(worker[w].wait, Minute))
             /\ epoch' = epoch + 1
      BY <1>15 DEF RecordHit
    <3>5. breaker' \in Nat /\ epoch' \in Nat
      BY <3>1, <3>2, <3>4 DEF Larger
    <3> QED BY <3>3, <3>5
  <2> QED BY <1>0, <1>15, <2>1, <2>3 DEF RecordHit, TypeInv, TypeOK, WorkerStates
<1>16. ASSUME Tick PROVE TypeInv'
  BY <1>0, <1>16 DEF Tick, TypeInv, TypeOK, WorkersInv
<1>17. ASSUME NEW l \in Lanes, Age(l) \/ Revoke(l) PROVE TypeInv'
  <2>1. CASE Age(l)
    BY <1>0, <2>1 DEF Age, TypeInv, TypeOK, WorkersInv
  <2>2. CASE Revoke(l)
    <3>1. revoked' \subseteq Lanes \X Nat
      BY <1>0, <2>2 DEF Revoke, TypeOK
    <3> QED BY <1>0, <2>2, <3>1 DEF Revoke, TypeInv, TypeOK, WorkersInv
  <2> QED BY <1>17, <2>1, <2>2
<1>18. CASE UNCHANGED vars
  BY <1>0, <1>18 DEF vars, TypeInv, TypeOK, WorkersInv
<1> QED BY <1>1, <1>2, <1>3, <1>4, <1>5, <1>6, <1>7, <1>8, <1>9, <1>10, <1>11, <1>12,
           <1>13, <1>14, <1>15, <1>16, <1>17, <1>18 DEF Next, WorkerStep

\* The types hold in every state.
LEMMA TypeInvariant == Spec => []TypeInv
<1>1. Init => TypeInv
  BY DEF Init, TypeInv, TypeOK, WorkersInv, Idle, Free, Phases, Never, NoToken, NoLane, Lanes
<1> QED BY <1>1, TypeStep, PTL DEF Spec

\* TypeOK: every variable of the pool, the credentials and the workers keeps
\* its shape, for any number of lanes and workers.
THEOREM TypeCorrect == Spec => []TypeOK
BY TypeInvariant, PTL DEF TypeInv


-----------------------------------------------------------------------------
(* The budget of a lane *)

\* Points of a request are worth at least as many base intervals.
LEMMA Charge ==
  ASSUME NEW n \in Nat, NEW s \in Nat, NEW next \in Nat, NEW p, s * Base <= next
  PROVE  (s + n) * Base <= next + n * Interval(p)
<1>1. (s + n) * Base = s * Base + n * Base
  OBVIOUS
<1>2. n * Base \in Nat /\ s * Base \in Nat
  OBVIOUS
<1>3. Interval(p) = Base \/ Interval(p) = Base * 2 \/ Interval(p) = Base * 4 \/ Interval(p) = Base * 8
  BY ShiftType DEF Interval
<1>4. n * Interval(p) = n * Base \/ n * Interval(p) = (n * Base) * 2
      \/ n * Interval(p) = (n * Base) * 4 \/ n * Interval(p) = (n * Base) * 8
  BY <1>3
<1> QED BY <1>1, <1>2, <1>4

\* A reservation keeps the budget.
LEMMA ReserveBudget ==
  ASSUME TypeInv, BudgetHolds, NEW w \in Workers, NEW l \in Lanes, NEW at \in Nat,
         at >= pacer[l].next, Reserve(w, l, at)
  PROVE  BudgetHolds'
<1>1. spent \in [Lanes -> Nat] /\ pacer \in [Lanes -> Pacers] /\ pacer[l].next \in Nat
  BY DEF TypeInv, TypeOK, Pacers
<1>2. spent[l] * Base <= at
  <2>1. spent[l] * Base <= pacer[l].next /\ spent[l] * Base \in Nat
    BY <1>1 DEF BudgetHolds
  <2> QED BY <1>1, <2>1
<1>3. (spent[l] + 1) * Base <= at + 1 * Interval(pacer[l])
  BY <1>1, <1>2, Charge
<1>4. (spent[l] + 1) * Base <= at + Interval(pacer[l])
  BY <1>3, IntervalType
<1>5. /\ \A k \in Lanes : k # l => spent'[k] = spent[k] /\ pacer'[k] = pacer[k]
      /\ spent'[l] = spent[l] + 1 /\ pacer'[l].next = at + Interval(pacer[l])
  BY <1>1 DEF Reserve, Pacers
<1> QED BY <1>4, <1>5 DEF BudgetHolds

\* An answer does not move the slots of a lane.
LEMMA AnswerBudget ==
  ASSUME TypeInv, BudgetHolds, NEW l \in Lanes, NEW p \in Pacers,
         pacer' = [pacer EXCEPT ![l] = p], p.next = pacer[l].next, UNCHANGED spent
  PROVE  BudgetHolds'
BY DEF TypeInv, TypeOK, BudgetHolds

\* Every step keeps the budget of every lane.
LEMMA BudgetStep == TypeInv /\ BudgetHolds /\ [Next]_vars => BudgetHolds'
<1> SUFFICES ASSUME TypeInv, BudgetHolds, [Next]_vars PROVE BudgetHolds'
  OBVIOUS
<1>0. TypeOK /\ WorkersInv /\ pacer \in [Lanes -> Pacers] /\ spent \in [Lanes -> Nat]
  BY DEF TypeInv, TypeOK, Pacers
<1>1. ASSUME NEW w \in Workers, WaitLane(w) PROVE BudgetHolds'
  <2>1. LaneOf[w] \in Lanes
    BY <1>0, <1>1 DEF WaitLane, WorkersInv
  <2>2. CASE Active(LaneOf[w])
    <3>1. /\ Reserve(w, LaneOf[w], ReadyAt(LaneOf[w]))
          /\ ReadyAt(LaneOf[w]) \in Nat /\ ReadyAt(LaneOf[w]) >= pacer[LaneOf[w]].next
      BY <1>0, <1>1, <2>1, <2>2, SlotType DEF WaitLane
    <3> QED BY <2>1, <3>1, ReserveBudget
  <2>3. CASE ~Active(LaneOf[w])
    BY <1>1, <2>3 DEF WaitLane, BudgetHolds
  <2> QED BY <2>2, <2>3
<1>2. ASSUME NEW w \in Workers, ReserveChosen(w) PROVE BudgetHolds'
  <2>1. worker[w].lane \in Lanes
    BY <1>0, <1>2 DEF ReserveChosen, WorkersInv, Free
  <2>2. /\ Reserve(w, worker[w].lane, SlotOf(w))
        /\ SlotOf(w) \in Nat /\ SlotOf(w) >= pacer[worker[w].lane].next
    BY <1>0, <1>2, <2>1, SlotType DEF ReserveChosen, SlotOf
  <2> QED BY <2>1, <2>2, ReserveBudget
<1>3. ASSUME NEW w \in Workers, Observe(w) PROVE BudgetHolds'
  <2>1. worker[w].lane \in Lanes
    BY <1>0, <1>3 DEF Observe, WorkersInv, Free
  <2> DEFINE old == pacer[worker[w].lane]
  <2>2. old \in Pacers /\ now \in Nat
    BY <1>0, <2>1 DEF TypeOK
  <2>3. Relaxed(old) \in Pacers /\ Relaxed(old).next = old.next
    BY <2>2, PacerTypes
  <2>4. \A wait \in Nat : /\ Cooled(Relaxed(old), wait) \in Pacers
                          /\ Cooled(Relaxed(old), wait).next = old.next
    BY <2>2, <2>3, PacerTypes
  <2>5. PICK p \in Pacers : p.next = old.next /\ pacer' = [pacer EXCEPT ![worker[w].lane] = p]
    BY <1>3, <2>3, <2>4 DEF Observe
  <2> QED BY <1>3, <2>1, <2>5, AnswerBudget DEF Observe
<1>4. ASSUME NEW w \in Workers, ExtraCost(w) PROVE BudgetHolds'
  <2> DEFINE l == worker[w].lane
             extra == worker[w].cost - 1
  <2>1. l \in Lanes /\ extra \in Nat
    BY <1>0, <1>4 DEF ExtraCost, WorkersInv, Free
  <2>2. /\ pacer' = [pacer EXCEPT ![l].next = @ + extra * Interval(pacer[l])]
        /\ spent' = [spent EXCEPT ![l] = @ + extra]
    BY <1>4 DEF ExtraCost
  <2> HIDE DEF l, extra
  <2>3. /\ \A k \in Lanes : k # l => spent'[k] = spent[k] /\ pacer'[k] = pacer[k]
        /\ spent'[l] = spent[l] + extra
        /\ pacer'[l].next = pacer[l].next + extra * Interval(pacer[l])
    BY <1>0, <2>1, <2>2 DEF Pacers
  <2>4. spent[l] \in Nat /\ pacer[l].next \in Nat /\ spent[l] * Base <= pacer[l].next
    BY <1>0, <2>1 DEF Pacers, BudgetHolds
  <2>5. (spent[l] + extra) * Base <= pacer[l].next + extra * Interval(pacer[l])
    BY <2>1, <2>4, Charge
  <2> QED BY <2>1, <2>3, <2>5 DEF BudgetHolds
<1>5. ASSUME NEW w \in Workers, NEW wait \in Waits, PrimaryLimit(w, wait) PROVE BudgetHolds'
  <2>1. worker[w].lane \in Lanes /\ wait \in Nat /\ now \in Nat
    BY <1>0, <1>5 DEF PrimaryLimit, Answered, WorkersInv, Free, TypeOK
  <2> DEFINE p == Cooled(pacer[worker[w].lane], wait)
  <2>2. p \in Pacers /\ p.next = pacer[worker[w].lane].next
    BY <1>0, <2>1, PacerTypes
  <2>3. pacer' = [pacer EXCEPT ![worker[w].lane] = p] /\ UNCHANGED spent
    BY <1>5 DEF PrimaryLimit
  <2> HIDE DEF p
  <2> QED BY <2>1, <2>2, <2>3, AnswerBudget
<1>6. ASSUME NEW w \in Workers, NEW wait \in Waits, SecondaryLimit(w, wait) PROVE BudgetHolds'
  <2>1. worker[w].lane \in Lanes /\ wait \in Nat /\ now \in Nat
    BY <1>0, <1>6 DEF SecondaryLimit, Answered, WorkersInv, Free, TypeOK
  <2> DEFINE p == Struck(pacer[worker[w].lane], wait)
  <2>2. p \in Pacers /\ p.next = pacer[worker[w].lane].next
    BY <1>0, <2>1, PacerTypes
  <2>3. pacer' = [pacer EXCEPT ![worker[w].lane] = p] /\ UNCHANGED spent
    BY <1>6 DEF SecondaryLimit
  <2> HIDE DEF p
  <2> QED BY <2>1, <2>2, <2>3, AnswerBudget
<1>7. CASE UNCHANGED <<pacer, spent>>
  BY <1>7 DEF BudgetHolds
<1>8. ASSUME NEW w \in Workers,
             CheckLane(w) \/ ChooseLane(w) \/ Send(w) \/ Unauthorized(w) \/ Invalidate(w)
             \/ SendAgain(w) \/ RequestFails(w) \/ (\E cost \in Costs : Success(w, cost))
             \/ RecordHit(w)
      PROVE  UNCHANGED <<pacer, spent>>
  BY <1>8 DEF CheckLane, ChooseLane, Send, Unauthorized, Invalidate, SendAgain, RequestFails,
              Success, RecordHit
<1>9. Tick \/ (\E l \in Lanes : Age(l) \/ Revoke(l)) \/ UNCHANGED vars => UNCHANGED <<pacer, spent>>
  BY DEF Tick, Age, Revoke, vars
<1> QED BY <1>1, <1>2, <1>3, <1>4, <1>5, <1>6, <1>7, <1>8, <1>9 DEF Next, WorkerStep

\* BudgetHolds: the slots of a lane never offer more points than its interval
\* allows, for any number of lanes and workers, any costs and any waits.
THEOREM BudgetIsKept == Spec => []BudgetHolds
<1>1. Init => BudgetHolds
  <2> SUFFICES ASSUME Init, NEW l \in Lanes PROVE spent[l] * Base <= pacer[l].next
    BY DEF BudgetHolds
  <2>1. spent[l] = 0 /\ pacer[l].next = 0
    BY DEF Init
  <2> QED BY <2>1
<1> QED BY <1>1, TypeInvariant, BudgetStep, PTL DEF Spec

-----------------------------------------------------------------------------
(* Correlated hits *)

\* Only RecordHit touches the hits and the breaker, and it compares the hit it
\* records with those of all other lanes.
LEMMA HitsStep == TypeInv /\ CorrelatedHitsStopAll /\ [Next]_vars => CorrelatedHitsStopAll'
<1> SUFFICES ASSUME TypeInv, CorrelatedHitsStopAll, [Next]_vars PROVE CorrelatedHitsStopAll'
  OBVIOUS
<1> USE DEF pool, creds
<1>1. ASSUME NEW w \in Workers, RecordHit(w) PROVE CorrelatedHitsStopAll'
  <2> DEFINE l == worker[w].lane
             stamp == worker[w].stamp
             rest == stamp + Larger(worker[w].wait, Minute)
  <2>1. l \in Lanes /\ stamp \in Nat /\ worker[w].wait \in Nat
    BY <1>1 DEF RecordHit, TypeInv, TypeOK, WorkersInv, Free
  <2>2. rest \in Nat /\ rest >= stamp + Minute
    BY <2>1 DEF Larger
  <2>3. /\ hitAt' = [hitAt EXCEPT ![l] = stamp]
        /\ Correlated(l, stamp) => breaker' = Larger(breaker, rest)
        /\ ~Correlated(l, stamp) => breaker' = breaker
    BY <1>1 DEF RecordHit
  <2>4. hitAt \in [Lanes -> Int] /\ breaker \in Nat
    BY DEF TypeInv, TypeOK
  <2> HIDE DEF l, stamp, rest
  <2>5. breaker' \in Nat /\ breaker' >= breaker /\ (Correlated(l, stamp) => breaker' >= rest)
    BY <2>2, <2>3, <2>4 DEF Larger
  <2> SUFFICES ASSUME NEW j \in Lanes, NEW k \in Lanes, j # k, hitAt'[j] # Never,
                      hitAt'[k] # Never, hitAt'[k] \in hitAt'[j] .. hitAt'[j] + Window
               PROVE  breaker' >= hitAt'[j] + Minute
    BY DEF CorrelatedHitsStopAll
  <2>6. CASE j # l /\ k # l
    <3>1. hitAt'[j] = hitAt[j] /\ hitAt'[k] = hitAt[k]
      BY <2>3, <2>4, <2>6
    <3>2. breaker >= hitAt[j] + Minute
      BY <3>1 DEF CorrelatedHitsStopAll
    <3>3. hitAt[j] \in Int
      BY <2>4
    <3> QED BY <2>4, <2>5, <3>1, <3>2, <3>3
  <2>7. CASE k = l
    <3>1. hitAt'[j] = hitAt[j] /\ hitAt'[k] = stamp /\ hitAt[j] \in Int
      BY <2>3, <2>4, <2>7
    <3>2. hitAt[j] <= stamp /\ stamp - hitAt[j] <= Window
      BY <2>1, <3>1
    <3>3. Correlated(l, stamp)
      BY <2>7, <3>2 DEF Correlated
    <3> QED BY <2>1, <2>2, <2>5, <3>1, <3>2, <3>3
  <2>8. CASE j = l
    <3>1. hitAt'[k] = hitAt[k] /\ hitAt'[j] = stamp /\ hitAt[k] \in Int
      BY <2>3, <2>4, <2>8
    <3>2. stamp - hitAt[k] <= Window
      BY <2>1, <3>1
    <3>3. Correlated(l, stamp)
      BY <2>8, <3>2 DEF Correlated
    <3> QED BY <2>1, <2>2, <2>5, <3>1, <3>3
  <2> QED BY <2>6, <2>7, <2>8
<1>2. CASE UNCHANGED <<hitAt, breaker>>
  BY <1>2 DEF CorrelatedHitsStopAll
<1>3. ASSUME NEW w \in Workers, WorkerStep(w), ~RecordHit(w)
      PROVE  UNCHANGED <<hitAt, breaker>>
  BY <1>3 DEF WorkerStep, CheckLane, WaitLane, ChooseLane, ReserveChosen, Send, Unauthorized,
              Invalidate, SendAgain, RequestFails, Success, Observe, ExtraCost, PrimaryLimit,
              SecondaryLimit
<1>4. Tick \/ (\E l \in Lanes : Age(l) \/ Revoke(l)) \/ UNCHANGED vars
        => UNCHANGED <<hitAt, breaker>>
  BY DEF Tick, Age, Revoke, vars
<1> QED BY <1>1, <1>2, <1>3, <1>4 DEF Next

\* CorrelatedHitsStopAll: in whichever order the hits of lanes are recorded, two
\* within the window leave all lanes at rest for a minute from the earlier on.
THEOREM CorrelatedHitsDoStopAll == Spec => []CorrelatedHitsStopAll
<1>1. Init => CorrelatedHitsStopAll
  BY DEF Init, CorrelatedHitsStopAll
<1> QED BY <1>1, TypeInvariant, HitsStep, PTL DEF Spec

-----------------------------------------------------------------------------
(* Slots and cooldowns *)

\* A slot reserved since the last cooldown was set is after all cooldowns.
SlotInv ==
  \A w \in Workers :
    worker[w].phase = "waiting" =>
      /\ worker[w].epoch <= epoch
      /\ worker[w].epoch = epoch => worker[w].at >= pacer[worker[w].lane].cooldown
                                    /\ worker[w].at >= breaker

\* A reservation at a ready slot keeps that.
LEMMA ReserveSlot ==
  ASSUME TypeInv, SlotInv, NEW w \in Workers, NEW l \in Lanes, NEW at \in Nat,
         at >= pacer[l].cooldown, at >= breaker, Reserve(w, l, at), UNCHANGED <<breaker, epoch>>
  PROVE  SlotInv'
<1>1. worker \in [Workers -> WorkerStates] /\ pacer \in [Lanes -> Pacers] /\ epoch \in Nat
      /\ WorkersInv
  BY DEF TypeInv, TypeOK, Pacers, WorkerStates
<1>2. \A k \in Lanes : pacer'[k].cooldown = pacer[k].cooldown
  BY <1>1 DEF Reserve, Pacers
<1>3. /\ worker'[w].at = at /\ worker'[w].epoch = epoch /\ worker'[w].lane = l
      /\ \A v \in Workers : v # w => worker'[v] = worker[v]
  BY <1>1 DEF Reserve, Idle
<1> SUFFICES ASSUME NEW v \in Workers, worker'[v].phase = "waiting"
             PROVE  /\ worker'[v].epoch <= epoch'
                    /\ worker'[v].epoch = epoch' =>
                          worker'[v].at >= pacer'[worker'[v].lane].cooldown
                          /\ worker'[v].at >= breaker'
  BY DEF SlotInv
<1>4. CASE v = w
  BY <1>1, <1>2, <1>3, <1>4
<1>5. CASE v # w
  <2>1. worker[v].lane \in Lanes /\ worker'[v] = worker[v]
    BY <1>1, <1>3, <1>5 DEF WorkersInv, Free
  <2> QED BY <1>2, <2>1 DEF SlotInv
<1> QED BY <1>4, <1>5

\* Nobody else starts to wait, and without a cooldown nothing changes for a slot.
LEMMA CalmSlot ==
  ASSUME TypeInv, SlotInv, UNCHANGED <<epoch, breaker>>,
         \A l \in Lanes : pacer'[l].cooldown = pacer[l].cooldown,
         \A v \in Workers : worker'[v].phase = "waiting" => worker'[v] = worker[v]
  PROVE  SlotInv'
<1> SUFFICES ASSUME NEW v \in Workers, worker'[v].phase = "waiting"
             PROVE  /\ worker'[v].epoch <= epoch'
                    /\ worker'[v].epoch = epoch' =>
                          worker'[v].at >= pacer'[worker'[v].lane].cooldown
                          /\ worker'[v].at >= breaker'
  BY DEF SlotInv
<1>1. worker'[v] = worker[v] /\ worker[v].lane \in Lanes
  BY DEF TypeInv, WorkersInv, Free
<1> QED BY <1>1 DEF SlotInv

\* With a cooldown, all slots are of an earlier epoch.
LEMMA CooledSlot ==
  ASSUME TypeInv, SlotInv, epoch' = epoch + 1,
         \A v \in Workers : worker'[v].phase = "waiting" => worker'[v] = worker[v]
  PROVE  SlotInv'
<1> SUFFICES ASSUME NEW v \in Workers, worker'[v].phase = "waiting"
             PROVE  worker'[v].epoch <= epoch' /\ worker'[v].epoch # epoch'
  BY DEF SlotInv
<1>1. worker'[v] = worker[v] /\ worker[v].epoch <= epoch
  BY DEF SlotInv
<1>2. epoch \in Nat /\ worker[v].epoch \in Nat
  BY DEF TypeInv, TypeOK
<1> QED BY <1>1, <1>2

\* Every cooldown starts an epoch, and every slot is computed from the
\* cooldowns of its epoch.
LEMMA SlotStep == TypeInv /\ SlotInv /\ [Next]_vars => SlotInv'
<1> SUFFICES ASSUME TypeInv, SlotInv, [Next]_vars PROVE SlotInv'
  OBVIOUS
<1> USE DEF pool, creds
<1>0. /\ TypeOK /\ WorkersInv /\ pacer \in [Lanes -> Pacers] /\ epoch \in Nat
      /\ worker \in [Workers -> WorkerStates]
  BY DEF TypeInv, TypeOK, Pacers, WorkerStates
<1> DEFINE Stay == \A v \in Workers : worker'[v].phase = "waiting" => worker'[v] = worker[v]
           Calm == UNCHANGED <<epoch, breaker>> /\
                   \A l \in Lanes : pacer'[l].cooldown = pacer[l].cooldown
<1>1. ASSUME NEW w \in Workers, WaitLane(w) PROVE SlotInv'
  <2>1. LaneOf[w] \in Lanes
    BY <1>0, <1>1 DEF WaitLane, WorkersInv
  <2>2. CASE Active(LaneOf[w])
    <3>1. /\ Reserve(w, LaneOf[w], ReadyAt(LaneOf[w])) /\ ReadyAt(LaneOf[w]) \in Nat
          /\ ReadyAt(LaneOf[w]) >= pacer[LaneOf[w]].cooldown /\ ReadyAt(LaneOf[w]) >= breaker
          /\ UNCHANGED <<breaker, epoch>>
      BY <1>0, <1>1, <2>1, <2>2, SlotType DEF WaitLane
    <3> QED BY <2>1, <3>1, ReserveSlot
  <2>3. CASE ~Active(LaneOf[w])
    <3>1. Stay /\ Calm
      BY <1>0, <1>1, <2>3 DEF WaitLane, Become, WorkerStates
    <3> QED BY <1>0, <3>1, CalmSlot
  <2> QED BY <2>2, <2>3
<1>2. ASSUME NEW w \in Workers, ReserveChosen(w) PROVE SlotInv'
  <2>1. worker[w].lane \in Lanes
    BY <1>0, <1>2 DEF ReserveChosen, WorkersInv, Free
  <2>2. /\ Reserve(w, worker[w].lane, SlotOf(w)) /\ SlotOf(w) \in Nat
        /\ SlotOf(w) >= pacer[worker[w].lane].cooldown /\ SlotOf(w) >= breaker
        /\ UNCHANGED <<breaker, epoch>>
    BY <1>0, <1>2, <2>1, SlotType DEF ReserveChosen, SlotOf
  <2> QED BY <2>1, <2>2, ReserveSlot
<1>3. ASSUME NEW w \in Workers, Observe(w) PROVE SlotInv'
  <2>1. Stay
    BY <1>0, <1>3 DEF Observe, Become, WorkerStates
  <2>2. worker[w].lane \in Lanes /\ now \in Nat
    BY <1>0, <1>3 DEF Observe, WorkersInv, Free, TypeOK
  <2>3. CASE epoch' = epoch + 1
    BY <2>1, <2>3, CooledSlot
  <2>4. CASE /\ pacer' = [pacer EXCEPT ![worker[w].lane] = Relaxed(@)]
             /\ UNCHANGED <<limits, epoch>>
    <3>1. Relaxed(pacer[worker[w].lane]).cooldown = pacer[worker[w].lane].cooldown
      BY <1>0, <2>2, PacerTypes
    <3>2. \A l \in Lanes : pacer'[l].cooldown = pacer[l].cooldown
      BY <1>0, <2>4, <3>1
    <3>3. UNCHANGED <<epoch, breaker>>
      BY <1>3, <2>4 DEF Observe
    <3> QED BY <1>0, <2>1, <3>2, <3>3, CalmSlot
  <2> QED BY <1>3, <2>3, <2>4 DEF Observe
<1>4. ASSUME NEW w \in Workers, ExtraCost(w) PROVE SlotInv'
  <2>1. Stay
    BY <1>0, <1>4 DEF ExtraCost, Idle
  <2>2. Calm
    BY <1>0, <1>4 DEF ExtraCost, Pacers
  <2> QED BY <1>0, <2>1, <2>2, CalmSlot
<1>5. ASSUME NEW w \in Workers, NEW wait \in Waits, PrimaryLimit(w, wait) PROVE SlotInv'
  <2>1. Stay /\ epoch' = epoch + 1
    BY <1>0, <1>5 DEF PrimaryLimit, Idle
  <2> QED BY <2>1, CooledSlot
<1>6. ASSUME NEW w \in Workers, NEW wait \in Waits, SecondaryLimit(w, wait) PROVE SlotInv'
  <2>1. Stay /\ epoch' = epoch + 1
    BY <1>0, <1>6 DEF SecondaryLimit, Idle
  <2> QED BY <2>1, CooledSlot
<1>7. ASSUME NEW w \in Workers, RecordHit(w) PROVE SlotInv'
  <2>1. Stay
    BY <1>0, <1>7 DEF RecordHit, Idle
  <2>2. epoch' = epoch + 1 \/ Calm
    BY <1>7 DEF RecordHit
  <2>3. CASE epoch' = epoch + 1
    BY <2>1, <2>3, CooledSlot
  <2>4. CASE Calm
    BY <1>0, <2>1, <2>4, CalmSlot
  <2> QED BY <2>2, <2>3, <2>4
<1>8. ASSUME NEW w \in Workers,
             CheckLane(w) \/ ChooseLane(w) \/ Send(w) \/ Unauthorized(w) \/ Invalidate(w)
             \/ SendAgain(w) \/ RequestFails(w) \/ (\E cost \in Costs : Success(w, cost))
      PROVE  SlotInv'
  <2>1. Calm
    BY <1>8 DEF CheckLane, ChooseLane, Send, Unauthorized, Invalidate, SendAgain, RequestFails,
                Success
  <2>2. \A v \in Workers : v # w => worker'[v] = worker[v]
    BY <1>0, <1>8 DEF CheckLane, ChooseLane, Invalidate, Become, Send, SendAgain, Take, Holds,
                     Unauthorized, RequestFails, Success
  <2>3. worker'[w].phase # "waiting"
    <3>1. CASE CheckLane(w) \/ Invalidate(w)
      BY <1>0, <3>1 DEF CheckLane, Invalidate, Become, WorkerStates
    <3>2. CASE ChooseLane(w)
      <4>1. \/ worker' = [worker EXCEPT ![w].phase = "stopped"]
            \/ \E l \in Lanes : worker' = [worker EXCEPT ![w].phase = "choosing", ![w].lane = l,
                                                       ![w].at = ReadyAt(l)]
        BY <3>2 DEF ChooseLane, Become, Candidates
      <4>2. CASE worker' = [worker EXCEPT ![w].phase = "stopped"]
        BY <1>0, <4>2 DEF WorkerStates
      <4>3. CASE \E l \in Lanes : worker' = [worker EXCEPT ![w].phase = "choosing",
                                            ![w].lane = l, ![w].at = ReadyAt(l)]
        BY <1>0, <4>3 DEF WorkerStates
      <4> QED BY <4>1, <4>2, <4>3
    <3>3. CASE Send(w) \/ SendAgain(w)
      <4>1. \A l, phase, token : Holds(w, l, phase, token) => worker'[w].phase = phase
        BY <1>0 DEF Holds, Idle
      <4>2. worker' = [worker EXCEPT ![w] = Idle] => worker'[w].phase = "idle"
        BY <1>0 DEF Idle
      <4> QED BY <3>3, <4>1, <4>2 DEF Send, SendAgain, Take
    <3>4. CASE Unauthorized(w)
      <4>1. \/ worker' = [worker EXCEPT ![w].phase = "rejected", ![w].first = worker[w].token]
            \/ worker' = [worker EXCEPT ![w] = Idle]
        BY <3>4 DEF Unauthorized
      <4> QED BY <1>0, <4>1 DEF Idle, WorkerStates
    <3>5. CASE RequestFails(w)
      BY <1>0, <3>5 DEF RequestFails, Idle
    <3>6. ASSUME NEW cost \in Costs, Success(w, cost) PROVE worker'[w].phase # "waiting"
      BY <1>0, <3>6 DEF Success, Idle
    <3> QED BY <1>8, <3>1, <3>2, <3>3, <3>4, <3>5, <3>6
  <2>4. Stay
    BY <2>2, <2>3
  <2> QED BY <1>0, <2>1, <2>4, CalmSlot
<1>9. CASE Tick \/ (\E l \in Lanes : Age(l) \/ Revoke(l)) \/ UNCHANGED vars
  <2>1. UNCHANGED <<pacer, breaker, worker, epoch>>
    BY <1>9 DEF Tick, Age, Revoke, vars
  <2> QED BY <2>1 DEF SlotInv
<1> QED BY <1>1, <1>2, <1>3, <1>4, <1>5, <1>6, <1>7, <1>8, <1>9 DEF Next, WorkerStep

\* Only Send turns a wait into a request.
LEMMA OnlySendSends ==
  ASSUME TypeInv, [Next]_vars, NEW w \in Workers,
         worker[w].phase = "waiting", worker'[w].phase = "sent"
  PROVE  Send(w)
<1>0. worker \in [Workers -> WorkerStates]
  BY DEF TypeInv, TypeOK, WorkerStates
<1> SUFFICES ASSUME NEW v \in Workers, WorkerStep(v), ~Send(v) PROVE worker'[w].phase # "sent"
  <2>1. ~(Tick \/ (\E l \in Lanes : Age(l) \/ Revoke(l)) \/ UNCHANGED vars)
    BY DEF Tick, Age, Revoke, vars
  <2>2. PICK v \in Workers : WorkerStep(v)
    BY <2>1 DEF Next
  <2>3. CASE Send(v)
    <3>1. v # w => worker'[w] = worker[w]
      BY <1>0, <2>3 DEF Send, Take, Holds
    <3> QED BY <2>3, <3>1
  <2> QED BY <2>2, <2>3
<1>1. v # w => worker'[w] = worker[w]
  <2>1. CASE CheckLane(v) \/ WaitLane(v) \/ ChooseLane(v) \/ ReserveChosen(v)
    BY <1>0, <2>1 DEF CheckLane, WaitLane, ChooseLane, ReserveChosen, Become, Reserve
  <2>2. CASE Unauthorized(v) \/ Invalidate(v) \/ SendAgain(v) \/ RequestFails(v)
    BY <1>0, <2>2 DEF Unauthorized, Invalidate, SendAgain, RequestFails, Become, Take, Holds
  <2>3. CASE (\E cost \in Costs : Success(v, cost)) \/ Observe(v) \/ ExtraCost(v) \/ RecordHit(v)
             \/ (\E wait \in Waits : PrimaryLimit(v, wait) \/ SecondaryLimit(v, wait))
    BY <1>0, <2>3 DEF Success, Observe, ExtraCost, RecordHit, PrimaryLimit, SecondaryLimit, Become
  <2> QED BY <2>1, <2>2, <2>3 DEF WorkerStep
<1>2. v = w => FALSE
  BY DEF WorkerStep, CheckLane, WaitLane, ChooseLane, ReserveChosen, Unauthorized, Invalidate,
         SendAgain, RequestFails, Success, Answered, Observe, ExtraCost, PrimaryLimit,
         SecondaryLimit, RecordHit
<1> QED BY <1>1, <1>2

\* OnlyEarlierSlotsInCooldown: no request reserved after the last cooldown of
\* its lane or of the pool goes out before that cooldown ends.
THEOREM CooldownsAreKept == Spec => OnlyEarlierSlotsInCooldown
<1> DEFINE Late == \A w \in Workers :
             worker[w].phase = "waiting" /\ worker'[w].phase = "sent" /\
             now < Larger(pacer[worker[w].lane].cooldown, breaker)
               => worker[w].epoch < epoch
<1>1. Init => SlotInv
  BY DEF Init, SlotInv, Idle
<1>2. TypeInv /\ SlotInv /\ [Next]_vars => Late
  <2> SUFFICES ASSUME TypeInv, SlotInv, [Next]_vars, NEW w \in Workers,
                      worker[w].phase = "waiting", worker'[w].phase = "sent",
                      now < Larger(pacer[worker[w].lane].cooldown, breaker)
               PROVE  worker[w].epoch < epoch
    OBVIOUS
  <2>1. worker[w].at <= now
    BY OnlySendSends DEF Send
  <2>2. worker[w].lane \in Lanes
    BY DEF TypeInv, WorkersInv, Free
  <2>3. /\ worker[w].at \in Nat /\ now \in Nat /\ breaker \in Nat
        /\ pacer[worker[w].lane].cooldown \in Nat /\ epoch \in Nat /\ worker[w].epoch \in Nat
    BY <2>2 DEF TypeInv, TypeOK
  <2>4. ~(worker[w].at >= pacer[worker[w].lane].cooldown /\ worker[w].at >= breaker)
    BY <2>1, <2>3 DEF Larger
  <2>5. worker[w].epoch <= epoch /\ worker[w].epoch # epoch
    BY <2>4 DEF SlotInv
  <2> QED BY <2>3, <2>5
<1>3. Spec => [][Late]_vars
  BY <1>1, <1>2, TypeInvariant, SlotStep, PTL DEF Spec
<1> QED BY <1>3, PTL DEF OnlyEarlierSlotsInCooldown

-----------------------------------------------------------------------------
(* The second try *)

\* A token that a worker has is one that was issued for its lane; while it
\* tries again, the cached token is another one than it has tried.
HeldInv(w) ==
  LET l == worker[w].lane IN
  /\ worker[w].phase = "sent" => worker[w].token \in 1 .. issued[l]
  /\ worker[w].phase \in {"rejected", "again"} => worker[w].first \in 1 .. issued[l]
  /\ worker[w].phase = "again" => cache[l] # worker[w].first
  /\ worker[w].phase = "resent" => worker[w].token # worker[w].first

RetryInv ==
  /\ \A l \in Lanes : cache[l] <= issued[l]
  /\ \A w \in Workers : HeldInv(w)

\* How the tokens of the lanes may change: none is issued twice.
TokensMove ==
  \A l \in Lanes :
    /\ issued'[l] \in Nat /\ cache'[l] \in Nat /\ issued'[l] >= issued[l]
    /\ cache'[l] <= issued'[l]
    /\ cache'[l] = cache[l] \/ cache'[l] = NoToken \/ cache'[l] > issued[l]

\* Such a change does not disturb a worker.
LEMMA OthersHold ==
  ASSUME TypeInv, RetryInv, TokensMove, NEW v \in Workers, worker'[v] = worker[v]
  PROVE  HeldInv(v)'
<1>1. CASE worker[v].phase \in {"sent", "rejected", "again", "resent"}
  <2> DEFINE l == worker[v].lane
  <2>1. l \in Lanes /\ worker'[v].lane = l
    BY <1>1 DEF TypeInv, WorkersInv, Free
  <2>2. /\ issued[l] \in Nat /\ cache[l] \in Nat /\ worker[v].first \in Nat
        /\ worker[v].token \in Nat
    BY <2>1 DEF TypeInv, TypeOK
  <2>3. /\ issued'[l] \in Nat /\ cache'[l] \in Nat /\ issued'[l] >= issued[l]
        /\ cache'[l] = cache[l] \/ cache'[l] = 0 \/ cache'[l] > issued[l]
    BY <2>1 DEF TokensMove, NoToken
  <2>4. HeldInv(v)
    BY DEF RetryInv
  <2> QED BY <2>1, <2>2, <2>3, <2>4 DEF HeldInv
<1>2. CASE worker[v].phase \notin {"sent", "rejected", "again", "resent"}
  BY <1>2 DEF HeldInv
<1> QED BY <1>1, <1>2

\* A token that is taken was issued, and is not the one of the first try when
\* the cached token is not.
LEMMA TakeHolds ==
  ASSUME TypeInv, RetryInv, NEW w \in Workers, NEW l \in Lanes, l = worker[w].lane,
         NEW phase \in {"sent", "resent"}, Take(w, l, phase),
         phase = "resent" => worker[w].first \in 1 .. issued[l] /\ cache[l] # worker[w].first
  PROVE  RetryInv'
<1>0. /\ worker \in [Workers -> WorkerStates] /\ cache \in [Lanes -> Nat]
      /\ issued \in [Lanes -> Nat]
  BY DEF TypeInv, TypeOK, WorkerStates
<1>1. TokensMove
  <2>1. \A k \in Lanes : cache[k] \in Nat /\ issued[k] \in Nat /\ cache[k] <= issued[k]
    BY <1>0 DEF RetryInv
  <2>2. CASE UNCHANGED <<cache, stale, issued>>
    BY <2>1, <2>2 DEF TokensMove
  <2>3. CASE /\ issued' = [issued EXCEPT ![l] = issued[l] + 1]
             /\ cache' = [cache EXCEPT ![l] = issued[l] + 1]
    BY <1>0, <2>1, <2>3 DEF TokensMove
  <2> QED BY <2>2, <2>3 DEF Take
<1>2. \A v \in Workers : v # w => worker'[v] = worker[v]
  BY <1>0 DEF Take, Holds
<1>3. HeldInv(w)'
  <2>1. CASE worker' = [worker EXCEPT ![w] = Idle]
    BY <1>0, <2>1 DEF HeldInv, Idle
  <2>2. ASSUME NEW token \in Nat, Holds(w, l, phase, token), token \in 1 .. issued'[l],
               phase = "resent" => token # worker[w].first
        PROVE  HeldInv(w)'
    <3>1. /\ worker'[w].phase = phase /\ worker'[w].lane = l /\ worker'[w].token = token
          /\ worker'[w].first = worker[w].first
      BY <1>0, <2>2 DEF Holds, Idle
    <3> QED BY <2>2, <3>1 DEF HeldInv
  <2>3. cache[l] \in Nat /\ issued[l] \in Nat /\ cache[l] <= issued[l]
    BY <1>0 DEF RetryInv
  <2>4. ASSUME Holds(w, l, phase, cache[l]), cache[l] # NoToken, UNCHANGED issued
        PROVE  HeldInv(w)'
    BY <2>2, <2>3, <2>4 DEF NoToken
  <2>5. ASSUME Holds(w, l, phase, issued[l] + 1), issued' = [issued EXCEPT ![l] = @ + 1]
        PROVE  HeldInv(w)'
    <3>1. issued'[l] = issued[l] + 1 /\ issued[l] + 1 \in 1 .. issued'[l]
      BY <1>0, <2>3, <2>5
    <3>2. phase = "resent" => issued[l] + 1 # worker[w].first
      BY <2>3
    <3> QED BY <2>2, <2>3, <2>5, <3>1, <3>2
  <2> QED BY <2>1, <2>4, <2>5 DEF Take, Usable
<1>4. \A l1 \in Lanes : cache'[l1] <= issued'[l1]
  BY <1>1 DEF TokensMove
<1> QED BY <1>1, <1>2, <1>3, <1>4, OthersHold DEF RetryInv

\* A worker that gets a state without a token disturbs nobody.
LEMMA MoveHolds ==
  ASSUME TypeInv, RetryInv, UNCHANGED <<cache, issued>>, NEW w \in Workers,
         \A v \in Workers : v # w => worker'[v] = worker[v],
         worker'[w].phase \notin {"sent", "rejected", "again", "resent"}
  PROVE  RetryInv'
<1>1. TokensMove
  BY DEF TokensMove, TypeInv, TypeOK, RetryInv
<1>2. HeldInv(w)'
  BY DEF HeldInv
<1> QED BY <1>1, <1>2, OthersHold DEF RetryInv

\* The steps before a request and after its answer.
LEMMA RestHolds ==
  ASSUME TypeInv, RetryInv, NEW w \in Workers,
         CheckLane(w) \/ WaitLane(w) \/ ChooseLane(w) \/ ReserveChosen(w) \/ RequestFails(w)
         \/ (\E cost \in Costs : Success(w, cost)) \/ Observe(w) \/ ExtraCost(w)
         \/ (\E wait \in Waits : PrimaryLimit(w, wait) \/ SecondaryLimit(w, wait))
         \/ RecordHit(w)
  PROVE  RetryInv'
<1> USE DEF creds
<1>0. worker \in [Workers -> WorkerStates]
  BY DEF TypeInv, TypeOK, WorkerStates
<1>1. UNCHANGED <<cache, issued>>
  BY DEF CheckLane, WaitLane, ChooseLane, ReserveChosen, RequestFails, Success, Observe,
         ExtraCost, PrimaryLimit, SecondaryLimit, RecordHit
<1>2. \A v \in Workers : v # w => worker'[v] = worker[v]
  BY <1>0 DEF CheckLane, WaitLane, ChooseLane, ReserveChosen, RequestFails, Success, Observe,
         ExtraCost, PrimaryLimit, SecondaryLimit, RecordHit, Become, Reserve
<1>3. worker'[w].phase \notin {"sent", "rejected", "again", "resent"}
  <2>1. CASE CheckLane(w) \/ Observe(w)
    BY <1>0, <2>1 DEF CheckLane, Observe, Become, WorkerStates
  <2>2. CASE ChooseLane(w)
    <3>1. CASE Become(w, "stopped")
      BY <1>0, <3>1 DEF Become, WorkerStates
    <3>2. CASE ~Become(w, "stopped")
      <4>1. PICK l \in Lanes : worker' = [worker EXCEPT ![w].phase = "choosing", ![w].lane = l,
                                                       ![w].at = ReadyAt(l)]
        BY <2>2, <3>2 DEF ChooseLane, Candidates
      <4>2. worker'[w].phase = "choosing"
        BY <1>0, <4>1 DEF WorkerStates
      <4> QED BY <4>2
    <3> QED BY <3>1, <3>2
  <2>3. ASSUME NEW l, NEW at, Reserve(w, l, at) PROVE worker'[w].phase = "waiting"
    BY <1>0, <2>3 DEF Reserve, Idle
  <2>4. CASE WaitLane(w)
    <3>1. Become(w, "stopped") => worker'[w].phase = "stopped"
      BY <1>0 DEF Become, WorkerStates
    <3> QED BY <2>3, <2>4, <3>1 DEF WaitLane
  <2>5. CASE ReserveChosen(w)
    BY <2>3, <2>5 DEF ReserveChosen
  <2>6. CASE RequestFails(w) \/ ExtraCost(w) \/ RecordHit(w)
    <3>1. worker' = [worker EXCEPT ![w] = Idle]
      BY <2>6 DEF RequestFails, ExtraCost, RecordHit
    <3> QED BY <1>0, <3>1 DEF Idle
  <2>7. ASSUME NEW cost \in Costs, Success(w, cost) PROVE worker'[w].phase = "observing"
    BY <1>0, <2>7 DEF Success, Idle
  <2>8. ASSUME NEW wait \in Waits, PrimaryLimit(w, wait) PROVE worker'[w].phase = "idle"
    BY <1>0, <2>8 DEF PrimaryLimit, Idle
  <2>9. ASSUME NEW wait \in Waits, SecondaryLimit(w, wait) PROVE worker'[w].phase = "struck"
    BY <1>0, <2>9 DEF SecondaryLimit, Idle
  <2> QED BY <2>1, <2>2, <2>4, <2>5, <2>6, <2>7, <2>8, <2>9
<1> QED BY <1>1, <1>2, <1>3, MoveHolds

\* Every step keeps what the tries of the workers rely on.
LEMMA RetryStep == TypeInv /\ RetryInv /\ [Next]_vars => RetryInv'
<1> SUFFICES ASSUME TypeInv, RetryInv, [Next]_vars PROVE RetryInv'
  OBVIOUS
<1> USE DEF pool, creds
<1>0. /\ worker \in [Workers -> WorkerStates] /\ cache \in [Lanes -> Nat] /\ WorkersInv
      /\ issued \in [Lanes -> Nat] /\ \A l \in Lanes : cache[l] <= issued[l]
  BY DEF TypeInv, TypeOK, WorkerStates, RetryInv
<1>1. ASSUME NEW w \in Workers, Send(w) PROVE RetryInv'
  <2>1. worker[w].lane \in Lanes
    BY <1>0, <1>1 DEF Send, WorkersInv, Free
  <2>2. CASE Active(worker[w].lane)
    BY <1>1, <2>1, <2>2, TakeHolds DEF Send
  <2>3. CASE ~Active(worker[w].lane)
    <3>1. worker' = [worker EXCEPT ![w] = Idle] /\ UNCHANGED <<cache, issued>>
      BY <1>1, <2>3 DEF Send
    <3>2. worker'[w].phase = "idle" /\ \A v \in Workers : v # w => worker'[v] = worker[v]
      BY <1>0, <3>1 DEF Idle
    <3> QED BY <3>1, <3>2, MoveHolds
  <2> QED BY <2>2, <2>3
<1>2. ASSUME NEW w \in Workers, SendAgain(w) PROVE RetryInv'
  <2>1. worker[w].lane \in Lanes /\ Take(w, worker[w].lane, "resent")
    BY <1>0, <1>2 DEF SendAgain, WorkersInv, Free
  <2>2. /\ worker[w].first \in 1 .. issued[worker[w].lane]
        /\ cache[worker[w].lane] # worker[w].first
    BY <1>2 DEF SendAgain, RetryInv, HeldInv
  <2> QED BY <2>1, <2>2, TakeHolds
<1>3. ASSUME NEW w \in Workers, Unauthorized(w) PROVE RetryInv'
  <2>1. UNCHANGED <<cache, issued>>
    BY <1>3 DEF Unauthorized
  <2>2. \A v \in Workers : v # w => worker'[v] = worker[v]
    BY <1>0, <1>3 DEF Unauthorized
  <2>3. CASE worker' = [worker EXCEPT ![w] = Idle]
    <3>1. worker'[w].phase = "idle"
      BY <1>0, <2>3 DEF Idle
    <3> QED BY <2>1, <2>2, <3>1, MoveHolds
  <2>4. CASE worker' = [worker EXCEPT ![w].phase = "rejected", ![w].first = worker[w].token]
    <3>1. /\ worker'[w].phase = "rejected" /\ worker'[w].first = worker[w].token
          /\ worker'[w].lane = worker[w].lane
      BY <1>0, <2>4 DEF WorkerStates
    <3>2. worker[w].token \in 1 .. issued[worker[w].lane]
      BY <1>3 DEF Unauthorized, RetryInv, HeldInv
    <3>3. HeldInv(w)'
      BY <2>1, <3>1, <3>2 DEF HeldInv
    <3>4. TokensMove
      BY <1>0, <2>1 DEF TokensMove
    <3> QED BY <1>0, <2>1, <2>2, <3>3, <3>4, OthersHold DEF RetryInv
  <2> QED BY <1>3, <2>3, <2>4 DEF Unauthorized
<1>4. ASSUME NEW w \in Workers, Invalidate(w) PROVE RetryInv'
  <2> DEFINE l == worker[w].lane
  <2>1. l \in Lanes /\ worker[w].first \in 1 .. issued[l]
    BY <1>0, <1>4 DEF Invalidate, WorkersInv, Free, RetryInv, HeldInv
  <2>2. cache' = [cache EXCEPT ![l] = NoToken] /\ UNCHANGED issued
    BY <1>4 DEF Invalidate, Dropped
  <2>3. /\ worker'[w].phase = "again" /\ worker'[w].first = worker[w].first
        /\ worker'[w].lane = l /\ \A v \in Workers : v # w => worker'[v] = worker[v]
    BY <1>0, <1>4 DEF Invalidate, Become, WorkerStates
  <2> HIDE DEF l
  <2>4. cache'[l] = 0
    BY <1>0, <2>1, <2>2 DEF NoToken
  <2>5. HeldInv(w)'
    BY <1>0, <2>1, <2>2, <2>3, <2>4 DEF HeldInv
  <2>6. TokensMove
    BY <1>0, <2>1, <2>2 DEF TokensMove, NoToken
  <2>7. \A k \in Lanes : cache'[k] <= issued'[k]
    BY <2>6 DEF TokensMove
  <2> QED BY <2>3, <2>5, <2>6, <2>7, OthersHold DEF RetryInv
<1>5. CASE Tick \/ (\E l \in Lanes : Age(l) \/ Revoke(l)) \/ UNCHANGED vars
  <2>1. UNCHANGED <<cache, issued, worker>>
    BY <1>5 DEF Tick, Age, Revoke, vars
  <2> QED BY <2>1 DEF RetryInv, HeldInv
<1> QED BY <1>1, <1>2, <1>3, <1>4, <1>5, RestHolds DEF Next, WorkerStep

\* RetryHasAnotherToken: the second try after a 401 carries another token than
\* the first, however many workers share the token source of the lane.
THEOREM RetriesAreFresh == Spec => []RetryHasAnotherToken
<1>1. Init => RetryInv
  <2> SUFFICES ASSUME Init PROVE RetryInv
    OBVIOUS
  <2>1. \A l \in Lanes : cache[l] <= issued[l]
    BY DEF Init, NoToken
  <2>2. \A w \in Workers : worker[w].phase = "idle"
    BY DEF Init, Idle
  <2> QED BY <2>1, <2>2 DEF RetryInv, HeldInv
<1>2. RetryInv => RetryHasAnotherToken
  BY DEF RetryInv, HeldInv, RetryHasAnotherToken
<1> QED BY <1>1, <1>2, TypeInvariant, RetryStep, PTL DEF Spec

-----------------------------------------------------------------------------
(* Workers that end *)

\* Only the two ways to wait end a worker.
LEMMA OnlyWaitingStops ==
  ASSUME TypeInv, [Next]_vars, NEW w \in Workers,
         worker[w].phase # "stopped", worker'[w].phase = "stopped"
  PROVE  WaitLane(w) \/ ChooseLane(w)
<1>0. worker \in [Workers -> WorkerStates]
  BY DEF TypeInv, TypeOK, WorkerStates
<1>1. PICK v \in Workers : WorkerStep(v)
  <2>1. ~(Tick \/ (\E l \in Lanes : Age(l) \/ Revoke(l)) \/ UNCHANGED vars)
    BY DEF Tick, Age, Revoke, vars
  <2> QED BY <2>1 DEF Next
<1>2. v # w => worker'[w] = worker[w]
  <2>1. CASE CheckLane(v) \/ WaitLane(v) \/ ChooseLane(v) \/ ReserveChosen(v)
    BY <1>0, <2>1 DEF CheckLane, WaitLane, ChooseLane, ReserveChosen, Become, Reserve
  <2>2. CASE Send(v) \/ Unauthorized(v) \/ Invalidate(v) \/ SendAgain(v) \/ RequestFails(v)
    BY <1>0, <2>2 DEF Send, Unauthorized, Invalidate, SendAgain, RequestFails, Become, Take, Holds
  <2>3. CASE (\E cost \in Costs : Success(v, cost)) \/ Observe(v) \/ ExtraCost(v) \/ RecordHit(v)
             \/ (\E wait \in Waits : PrimaryLimit(v, wait) \/ SecondaryLimit(v, wait))
    BY <1>0, <2>3 DEF Success, Observe, ExtraCost, RecordHit, PrimaryLimit, SecondaryLimit, Become
  <2> QED BY <1>1, <2>1, <2>2, <2>3 DEF WorkerStep
<1>3. WorkerStep(w)
  BY <1>1, <1>2
<1>4. ASSUME CheckLane(w) PROVE worker'[w].phase = "checked"
  BY <1>0, <1>4 DEF CheckLane, Become, WorkerStates
<1>5. ASSUME ReserveChosen(w) PROVE worker'[w].phase = "waiting"
  <2>1. worker'[w] = [Idle EXCEPT !.phase = "waiting", !.lane = worker[w].lane, !.at = SlotOf(w),
                                  !.epoch = epoch]
    BY <1>0, <1>5 DEF ReserveChosen, Reserve
  <2> QED BY <2>1 DEF Idle
<1>6. ASSUME NEW l, NEW phase \in {"sent", "resent"}, Take(w, l, phase)
      PROVE  worker'[w].phase \in {phase, "idle"}
  <2>1. ASSUME NEW token, Holds(w, l, phase, token) PROVE worker'[w].phase = phase
    <3>1. worker'[w] = [Idle EXCEPT !.phase = phase, !.lane = l, !.token = token,
                                    !.first = worker[w].first]
      BY <1>0, <2>1 DEF Holds
    <3> QED BY <3>1 DEF Idle
  <2>2. ASSUME worker' = [worker EXCEPT ![w] = Idle] PROVE worker'[w].phase = "idle"
    BY <1>0, <2>2 DEF Idle
  <2> QED BY <1>6, <2>1, <2>2 DEF Take
<1>7. ~(Send(w) \/ SendAgain(w))
  <2>1. CASE Send(w) /\ Active(worker[w].lane)
    BY <2>1, <1>6 DEF Send
  <2>2. CASE Send(w) /\ ~Active(worker[w].lane)
    BY <1>0, <2>2 DEF Send, Idle
  <2>3. CASE SendAgain(w)
    BY <2>3, <1>6 DEF SendAgain
  <2> QED BY <2>1, <2>2, <2>3
<1>8. ~(Unauthorized(w) \/ Invalidate(w) \/ RequestFails(w) \/ Observe(w) \/ ExtraCost(w) \/ RecordHit(w))
  BY <1>0 DEF Unauthorized, Invalidate, RequestFails, Observe, ExtraCost, RecordHit, Become, Idle,
              WorkerStates
<1>9. ASSUME NEW cost, Success(w, cost) PROVE worker'[w].phase = "observing"
  <2>1. worker'[w] = [Idle EXCEPT !.phase = "observing", !.lane = worker[w].lane, !.cost = cost]
    BY <1>0, <1>9 DEF Success
  <2> QED BY <2>1 DEF Idle
<1>10. ASSUME NEW wait, PrimaryLimit(w, wait) PROVE worker'[w].phase = "idle"
  BY <1>0, <1>10 DEF PrimaryLimit, Idle
<1>11. ASSUME NEW wait, SecondaryLimit(w, wait) PROVE worker'[w].phase = "struck"
  <2>1. worker'[w] = [Idle EXCEPT !.phase = "struck", !.lane = worker[w].lane, !.wait = wait,
                                  !.stamp = now]
    BY <1>0, <1>11 DEF SecondaryLimit
  <2> QED BY <2>1 DEF Idle
<1> QED BY <1>3, <1>4, <1>5, <1>7, <1>8, <1>9, <1>10, <1>11 DEF WorkerStep

\* WorkersGoOn: while a credential is active, only the moment between the two
\* looks at a pinned lane ends a worker.
THEOREM WorkersDoGoOn == Spec => WorkersGoOn
<1> DEFINE Ends == \A w \in Workers :
             worker[w].phase # "stopped" /\ worker'[w].phase = "stopped" /\ disabled # Lanes
               => worker[w].phase = "checked" /\ LaneOf[w] \in disabled
<1>1. TypeInv /\ [Next]_vars => Ends
  <2> SUFFICES ASSUME TypeInv, [Next]_vars, NEW w \in Workers,
                      worker[w].phase # "stopped", worker'[w].phase = "stopped", disabled # Lanes
               PROVE  worker[w].phase = "checked" /\ LaneOf[w] \in disabled
    OBVIOUS
  <2>0. worker \in [Workers -> WorkerStates] /\ disabled \subseteq Lanes
    BY DEF TypeInv, TypeOK, WorkerStates
  <2>1. CASE WaitLane(w)
    <3>1. ASSUME Active(LaneOf[w]) PROVE FALSE
      <4>1. worker'[w] = [Idle EXCEPT !.phase = "waiting", !.lane = LaneOf[w],
                                      !.at = ReadyAt(LaneOf[w]), !.epoch = epoch]
        BY <2>0, <2>1, <3>1 DEF WaitLane, Reserve
      <4>2. worker'[w].phase = "waiting"
        BY <4>1 DEF Idle
      <4> QED BY <4>2
    <3> QED BY <2>1, <3>1 DEF WaitLane, Active
  <2>2. CASE ChooseLane(w)
    <3>1. Candidates # {}
      BY <2>0 DEF Candidates, Active
    <3>2. PICK l : worker' = [worker EXCEPT ![w].phase = "choosing", ![w].lane = l,
                                            ![w].at = ReadyAt(l)]
      BY <2>2, <3>1 DEF ChooseLane
    <3>3. worker'[w] = [worker[w] EXCEPT !.phase = "choosing", !.lane = l, !.at = ReadyAt(l)]
      BY <2>0, <3>2
    <3>4. worker'[w].phase = "choosing"
      BY <2>0, <3>3 DEF WorkerStates
    <3> QED BY <3>4
  <2> QED BY <2>1, <2>2, OnlyWaitingStops
<1>2. Spec => [][Ends]_vars
  BY <1>1, TypeInvariant, PTL DEF Spec
<1> QED BY <1>2, PTL DEF WorkersGoOn

=============================================================================
