---------------------------- MODULE ResponseProofs ----------------------------
(***************************************************************************)
(* Proofs about one response: the wait for its first byte (Hedge) and the  *)
(* stream behind it (StreamTap).                                           *)
(*                                                                         *)
(* Of the wait: it is bounded for every ring of latencies a model may be   *)
(* known for, a hedge starts only into silence, and an attempt has one     *)
(* winner.  Of the stream: the tap counts what was forwarded, however the  *)
(* text was cut into chunks, and the record says what the client saw.      *)
(*                                                                         *)
(* A p95, a scan and a text are defined by counting, folding and recursion *)
(* on sequences; what they compute is proved by induction on the natural   *)
(* numbers, taken as a statement about sets of them.                       *)
(***************************************************************************)
EXTENDS Hedge, StreamTap, WellFoundedInduction, FiniteSetTheorems, TLAPS

-----------------------------------------------------------------------------
(* Induction, and the rails that rings of latencies give.                  *)

\* A set of numbers that has 0 and the successor of each of its members has all of them.
LEMMA InductiveSet ==
  ASSUME NEW S \in SUBSET Nat, 0 \in S, \A n \in S : n + 1 \in S
  PROVE  S = Nat
<1> DEFINE R == OpToRel(<, Nat)
           T == Nat \ S
<1>0. R = {q \in Nat \X Nat : q[1] < q[2]}
  BY DEF OpToRel
<1>1. IsWellFoundedOn(R, Nat)
  BY NatLessThanWellFounded
<1>2. ASSUME T # {} PROVE FALSE
  <2> HIDE DEF R
  <2>1. PICK x \in T : \A y \in T : ~ (<<y, x>> \in R)
    BY <1>1, <1>2, WFMin
  <2>2. x \in Nat /\ x # 0 /\ x - 1 \in Nat
    BY <2>1
  <2>3. <<x - 1, x>> \in R
    BY <1>0, <2>2
  <2>4. x - 1 \in S
    BY <2>1, <2>2, <2>3
  <2> QED
    BY <2>1, <2>2, <2>4
<1> QED
  BY <1>2


\* The samples of a ring have an upper bound.
LEMMA RingBounded ==
  ASSUME NEW ring \in Seq(Nat)
  PROVE  \E b \in Nat : \A i \in DOMAIN ring : ring[i] <= b
<1> DEFINE Bounded(k, b) == \A i \in 1 .. k : i \in DOMAIN ring => ring[i] <= b
           S == {k \in Nat : \E b \in Nat : Bounded(k, b)}
<1>0. DOMAIN ring = 1 .. Len(ring) /\ Len(ring) \in Nat /\ \A i \in DOMAIN ring : ring[i] \in Nat
  OBVIOUS
<1>1. 0 \in S
  <2>1. Bounded(0, 0)
    BY <1>0
  <2> QED
    BY <2>1
<1>2. ASSUME NEW k \in S PROVE k + 1 \in S
  <2>0. k \in Nat /\ k + 1 \in Nat
    OBVIOUS
  <2>1. PICK b \in Nat : Bounded(k, b)
    OBVIOUS
  <2>2. CASE k + 1 \in DOMAIN ring
    <3>1. PICK c \in Nat : b <= c /\ ring[k + 1] <= c
      <4>1. ring[k + 1] \in Nat
        BY <1>0, <2>2
      <4>2. CASE b <= ring[k + 1]
        BY <4>1, <4>2
      <4>3. CASE ~(b <= ring[k + 1])
        BY <4>1, <4>3
      <4> QED
        BY <4>2, <4>3
    <3>2. Bounded(k + 1, c)
      BY <1>0, <2>0, <2>1, <3>1
    <3> QED
      BY <2>0, <3>2
  <2>3. CASE k + 1 \notin DOMAIN ring
    <3>1. Bounded(k + 1, b)
      BY <1>0, <2>0, <2>1, <2>3
    <3> QED
      BY <2>0, <3>1
  <2> QED
    BY <2>2, <2>3
<1>3. S = Nat
  <2>1. S \in SUBSET Nat
    OBVIOUS
  <2> HIDE DEF S
  <2> QED
    BY <1>1, <1>2, <2>1, InductiveSet
<1>4. Len(ring) \in S
  <2> HIDE DEF S
  <2> QED
    BY <1>0, <1>3
<1>5. PICK b \in Nat : Bounded(Len(ring), b)
  BY <1>4
<1> QED
  BY <1>0, <1>5

\* A learned ring has a sample at the position of its p95.
LEMMA P95Type ==
  ASSUME NEW ring \in Seq(Nat), Learned(ring)
  PROVE  P95(ring) \in Nat
<1> DEFINE n   == Len(ring)
           idx == (95 * n) \div 100
           At(ms) == Below(ring, ms) <= idx /\ idx < UpTo(ring, ms)
           S == {v \in Nat : UpTo(ring, v) <= idx}
<1>0. n \in Nat /\ DOMAIN ring = 1 .. n /\ \A i \in DOMAIN ring : ring[i] \in Nat
  OBVIOUS
<1>1. idx \in Nat /\ idx < n
  <2>1. n >= 2
    BY <1>0, TimeoutsAssumption DEF Learned
  <2> QED
    BY <1>0, <2>1
<1>2. IsFiniteSet(DOMAIN ring) /\ Cardinality(DOMAIN ring) = n
  <2>0. n \in Int /\ 1 \in Int /\ n - 1 + 1 = n
    BY <1>0
  <2>1. IsFiniteSet(1 .. n) /\ Cardinality(1 .. n) = IF 1 > n THEN 0 ELSE n - 1 + 1
    BY <2>0, FS_Interval, Zenon
  <2> QED
    BY <1>0, <2>0, <2>1
<1>3. ASSUME NEW ms \in Nat PROVE UpTo(ring, ms) \in Nat /\ Below(ring, ms) \in Nat
  <2>1. {i \in DOMAIN ring : ring[i] <= ms} \subseteq DOMAIN ring
        /\ {i \in DOMAIN ring : ring[i] < ms} \subseteq DOMAIN ring
    OBVIOUS
  <2>2. IsFiniteSet({i \in DOMAIN ring : ring[i] <= ms})
        /\ IsFiniteSet({i \in DOMAIN ring : ring[i] < ms})
    BY <1>2, <2>1, FS_Subset
  <2> QED
    BY <2>2, FS_CardinalityType DEF UpTo, Below
<1>4. \E i \in DOMAIN ring : At(ring[i])
  <2> SUFFICES ASSUME \A i \in DOMAIN ring : ~At(ring[i])
               PROVE  FALSE
    OBVIOUS
  <2>1. 0 \in S
    <3>1. Below(ring, 0) = 0
      <4>1. {i \in DOMAIN ring : ring[i] < 0} = {}
        BY <1>0
      <4>2. Cardinality({}) = 0
        BY FS_EmptySet
      <4> QED
        BY <4>1, <4>2, Zenon DEF Below
    <3>2. CASE \E i \in DOMAIN ring : ring[i] = 0
      <4>1. PICK i \in DOMAIN ring : ring[i] = 0
        BY <3>2
      <4>2. ~At(0)
        BY <4>1
      <4> QED
        BY <1>1, <1>3, <3>1, <4>2
    <3>3. CASE ~\E i \in DOMAIN ring : ring[i] = 0
      <4>1. {i \in DOMAIN ring : ring[i] <= 0} = {i \in DOMAIN ring : ring[i] < 0}
        BY <1>0, <3>3
      <4>2. UpTo(ring, 0) = Below(ring, 0)
        BY <4>1, Zenon DEF UpTo, Below
      <4> QED
        BY <1>1, <3>1, <4>2
    <3> QED
      BY <3>2, <3>3
  <2>2. ASSUME NEW v \in S PROVE v + 1 \in S
    <3>0. v \in Nat /\ v + 1 \in Nat /\ UpTo(ring, v) <= idx
      OBVIOUS
    <3>1. Below(ring, v + 1) = UpTo(ring, v)
      <4>1. {i \in DOMAIN ring : ring[i] < v + 1} = {i \in DOMAIN ring : ring[i] <= v}
        BY <1>0, <3>0
      <4> QED
        BY <4>1, Zenon DEF UpTo, Below
    <3>2. CASE \E i \in DOMAIN ring : ring[i] = v + 1
      <4>1. PICK i \in DOMAIN ring : ring[i] = v + 1
        BY <3>2
      <4>2. ~At(v + 1)
        BY <4>1
      <4>3. UpTo(ring, v + 1) <= idx
        <5>1. UpTo(ring, v + 1) \in Nat
          BY <1>3, <3>0
        <5> QED
          BY <1>1, <3>0, <3>1, <4>2, <5>1
      <4> QED
        BY <3>0, <4>3
    <3>3. CASE ~\E i \in DOMAIN ring : ring[i] = v + 1
      <4>1. {i \in DOMAIN ring : ring[i] <= v + 1} = {i \in DOMAIN ring : ring[i] < v + 1}
        BY <1>0, <3>0, <3>3
      <4>2. UpTo(ring, v + 1) = Below(ring, v + 1)
        BY <4>1, Zenon DEF UpTo, Below
      <4> QED
        BY <3>0, <3>1, <4>2
    <3> QED
      BY <3>2, <3>3
  <2>3. S = Nat
    <3>1. S \in SUBSET Nat
      OBVIOUS
    <3> HIDE DEF S
    <3> QED
      BY <2>1, <2>2, <3>1, InductiveSet
  <2>4. PICK b \in Nat : \A i \in DOMAIN ring : ring[i] <= b
    BY RingBounded
  <2>5. UpTo(ring, b) = n
    <3>1. {i \in DOMAIN ring : ring[i] <= b} = DOMAIN ring
      BY <2>4
    <3> QED
      BY <1>2, <3>1, Zenon DEF UpTo
  <2>6. UpTo(ring, b) <= idx
    BY <2>3
  <2> QED
    BY <1>0, <1>1, <2>5, <2>6
<1>5. P95(ring) \in {ring[i] : i \in DOMAIN ring}
  <2>1. P95(ring) = CHOOSE ms \in {ring[i] : i \in DOMAIN ring} : At(ms)
    BY DEF P95
  <2>2. \E ms \in {ring[i] : i \in DOMAIN ring} : At(ms)
    BY <1>4
  <2> HIDE DEF At
  <2> QED
    BY <2>1, <2>2
<1> QED
  BY <1>0, <1>5

\* Every rail lies between the shortest and the longest one.
LEMMA RailRange ==
  ASSUME NEW ring \in Seq(Nat)
  PROVE  /\ FirstByteTimeout(ring) \in Nat
         /\ ShortestRail <= FirstByteTimeout(ring)
         /\ FirstByteTimeout(ring) <= LongestRail
<1>1. CASE FixedRail # Unset
  BY <1>1, TimeoutsAssumption DEF FirstByteTimeout, ShortestRail, LongestRail, Unset
<1>2. CASE FixedRail = Unset
  <2>0. MinTimeout \in Nat /\ MaxTimeout \in Nat /\ MinTimeout <= MaxTimeout /\ BufferFloor \in Nat
    BY TimeoutsAssumption DEF ValidTimeoutPair
  <2>1. DynamicTimeout(ring) \in Nat /\ MinTimeout <= DynamicTimeout(ring)
        /\ DynamicTimeout(ring) <= MaxTimeout
    <3>1. CASE ~Learned(ring)
      BY <2>0, <3>1 DEF DynamicTimeout
    <3>2. CASE Learned(ring)
      <4>1. P95(ring) \in Nat
        BY <3>2, P95Type
      <4>2. DynamicTimeout(ring)
            = Larger(Smaller(P95(ring) + Larger(BufferFloor, P95(ring) \div 2), MaxTimeout), MinTimeout)
        BY <3>2 DEF DynamicTimeout
      <4> QED
        BY <2>0, <4>1, <4>2 DEF Larger, Smaller
    <3> QED
      BY <3>1, <3>2
  <2> QED
    BY <1>2, <2>1 DEF FirstByteTimeout, ShortestRail, LongestRail
<1> QED
  BY <1>1, <1>2

\* The shortest rail and the longest one, in numbers.
LEMMA RailBounds ==
  /\ ShortestRail \in Nat /\ LongestRail \in Nat
  /\ 1 <= ShortestRail /\ ShortestRail <= LongestRail
  BY TimeoutsAssumption DEF ShortestRail, LongestRail, ValidTimeoutPair, Unset

\* The delay before a hedge is a time.
LEMMA HedgeDelayType ==
  ASSUME NEW ring \in Seq(Nat), NEW window \in Nat
  PROVE  HedgeDelay(ring, window) \in Nat
<1>0. {HedgeMargin, HedgeFixedDelay, RailHeadroom} \subseteq Nat
  BY TimeoutsAssumption
<1>1. Silence(ring) \in Nat
  <2>1. CASE Learned(ring)
    BY <1>0, <2>1, P95Type DEF Silence
  <2>2. CASE ~Learned(ring)
    BY <1>0, <2>2 DEF Silence
  <2> QED
    BY <2>1, <2>2
<1>2. Larger(window - RailHeadroom, 0) \in Nat
  BY <1>0 DEF Larger
<1> QED
  BY <1>1, <1>2 DEF HedgeDelay, Smaller

-----------------------------------------------------------------------------
(* The first wait: its inductive invariant.                                *)

\* The phases of a call.
Phases == {"none"} \cup Waiting \cup Ended

\* The types of the variables.
HedgeTypeInv ==
  /\ budget \in Nat
  /\ hedge_delay \in Nat
  /\ hedge_enabled \in BOOLEAN
  /\ rail \in [1 .. Attempts -> Nat]
  /\ now \in Nat
  /\ handler \in {"admission", "racing", "answered"}
  /\ attempt \in 1 .. Attempts
  /\ since \in Nat
  /\ leg \in [Calls -> [phase : Phases, began : Nat]]
  /\ timer \in [1 .. Attempts -> [task : {"off", "asleep", "awake", "done"}, due : Nat]]
  /\ slot \in [1 .. Attempts -> [leg : Legs \cup {NoLeg}, at : Nat]]
  /\ mail \in [1 .. Attempts -> BOOLEAN]

\* Where a call l that has the rail r may be, s being the start of its attempt's
\* admission wait and t the time: each of its two waits is within its rail.
CallInTime(l, r, s, t) ==
  /\ l.phase # "none"
  /\ ShortestRail <= r /\ r <= LongestRail
  /\ l.phase = "headers" => l.began <= s + AdmissionWait /\ t <= l.began + r
  /\ l.phase = "chunk"   => l.began <= s + AdmissionWait + LongestRail /\ t <= l.began + r
  /\ t <= s + AdmissionWait + 2 * LongestRail

\* An attempt starts with its shortest rail to go, is admitted or rejected in
\* time, and its first call is within its rails.
OnTime ==
  /\ ~Answered => since <= now /\ since <= budget - ShortestRail
  /\ handler = "admission" => now <= since + AdmissionWait
  /\ handler = "racing" => CallInTime(leg[<<attempt, First>>], rail[attempt], since, now)

\* A timer that woke up looked at the slot at this very moment.
AwakeInSilence ==
  \A a \in 1 .. Attempts :
    timer[a].task = "awake" => slot[a].leg = NoLeg \/ slot[a].at = now

\* Nothing was started in the attempts to come, nor a second call before its
\* timer is done.
Unstarted ==
  \A a \in 1 .. Attempts :
    /\ timer[a].task # "done" => leg[<<a, Second>>] = Unsent
    /\ a > attempt \/ (a = attempt /\ handler = "admission") =>
         leg[<<a, First>>] = Unsent /\ timer[a] = Timer("off") /\ slot[a] = Unwon

\* The winner of an attempt is the call its slot names, and there is no other.
OneWinner ==
  \A a \in 1 .. Attempts : \A l \in Legs :
    leg[<<a, l>>].phase = "won" <=> slot[a].leg = l

\* The inductive invariant of the first wait.
HedgeInv ==
  /\ HedgeTypeInv
  /\ OnTime
  /\ AwakeInSilence
  /\ Unstarted
  /\ OneWinner

\* Calls are pairs of an attempt and a leg.
LEMMA CallFacts ==
  /\ \A a \in 1 .. Attempts : <<a, First>> \in Calls /\ <<a, Second>> \in Calls
  /\ \A c \in Calls : c[1] \in 1 .. Attempts /\ c[2] \in Legs /\ c = <<c[1], c[2]>>
  /\ First # Second /\ First # NoLeg /\ Second # NoLeg
  /\ Legs = {First, Second}
  BY DEF Calls, Legs, First, Second, NoLeg

\* Where a call is once it has moved to a phase.
Moved(phase) == [phase |-> phase, began |-> IF phase \in Waiting THEN now ELSE 0]

\* A call that moves gets its new phase and, if it waits again, a new start.
LEMMA MovesIs ==
  ASSUME leg \in [Calls -> [phase : Phases, began : Nat]], NEW c \in Calls, NEW phase,
         Moves(c, phase)
  PROVE  leg' = [leg EXCEPT ![c] = Moved(phase)]
<1> DEFINE l1 == [leg EXCEPT ![c].phase = phase]
<1>1. leg' = [l1 EXCEPT ![c].began = IF phase \in Waiting THEN now ELSE 0]
  BY DEF Moves
<1>2. leg[c] \in [phase : Phases, began : Nat]
  OBVIOUS
<1>3. DOMAIN l1 = Calls /\ l1[c] = [phase |-> phase, began |-> leg[c].began]
      /\ \A d \in Calls : d # c => l1[d] = leg[d]
  BY <1>2
<1> HIDE DEF l1
<1>4. [l1[c] EXCEPT !.began = IF phase \in Waiting THEN now ELSE 0] = Moved(phase)
  BY <1>3 DEF Moved
<1>5. \E f : f = [l1 EXCEPT ![c] = Moved(phase)]
  OBVIOUS
<1>6. leg' = [l1 EXCEPT ![c] = Moved(phase)]
  BY <1>1, <1>4
<1>7. [l1 EXCEPT ![c] = Moved(phase)] = [leg EXCEPT ![c] = Moved(phase)]
  <2>1. [l1 EXCEPT ![c] = Moved(phase)] = [d \in Calls |-> IF d = c THEN Moved(phase) ELSE l1[d]]
    BY <1>3
  <2>2. [leg EXCEPT ![c] = Moved(phase)] = [d \in Calls |-> IF d = c THEN Moved(phase) ELSE leg[d]]
    OBVIOUS
  <2> QED
    BY <1>3, <2>1, <2>2
<1> QED
  BY <1>6, <1>7

\* A request starts in the invariant.
LEMMA HedgeInitInv == HedgeInit => HedgeInv
<1> SUFFICES ASSUME HedgeInit PROVE HedgeInv
  OBVIOUS
<1> USE CallFacts
<1>1. PICK ring \in Rings : budget = Budget(FirstByteTimeout(ring))
  BY DEF HedgeInit
<1>2. ring \in Seq(Nat) /\ AdmissionWait \in Nat /\ Slack \in Nat /\ Attempts \in Nat \ {0}
  BY HedgeAssumption
<1>3. /\ FirstByteTimeout(ring) \in Nat
      /\ ShortestRail <= FirstByteTimeout(ring)
      /\ ShortestRail \in Nat
  BY <1>2, RailRange, RailBounds
<1>4. budget \in Nat /\ 0 <= budget - ShortestRail
  BY <1>1, <1>2, <1>3 DEF Budget
<1>5. hedge_delay \in Nat /\ hedge_enabled \in BOOLEAN
  <2>1. PICK before \in Rings, after \in Rings :
          /\ hedge_delay = HedgeDelay(after, FirstByteTimeout(before))
          /\ \E other_keys \in BOOLEAN :
               hedge_enabled = (other_keys /\ 0 < hedge_delay /\ hedge_delay < FirstByteTimeout(before))
    BY DEF HedgeInit
  <2>2. before \in Seq(Nat) /\ after \in Seq(Nat)
    BY HedgeAssumption
  <2>3. FirstByteTimeout(before) \in Nat
    BY <2>2, RailRange
  <2>4. hedge_delay \in Nat
    BY <2>1, <2>2, <2>3, HedgeDelayType
  <2>5. hedge_enabled \in BOOLEAN
    BY <2>1
  <2> QED
    BY <2>4, <2>5
<1>6. HedgeTypeInv
  BY <1>2, <1>4, <1>5
  DEF HedgeInit, HedgeTypeInv, Unsent, Timer, Unwon, Phases, Waiting, Ended
<1>7. OnTime
  BY <1>2, <1>4 DEF HedgeInit, OnTime, Answered
<1>8. AwakeInSilence
  BY DEF HedgeInit, AwakeInSilence, Timer
<1>9. Unstarted
  BY DEF HedgeInit, Unstarted
<1>10. OneWinner
  BY DEF HedgeInit, OneWinner, Unsent, Unwon
<1> QED
  BY <1>6, <1>7, <1>8, <1>9, <1>10 DEF HedgeInv

\* Every step keeps the types.
LEMMA HedgeTypeStep ==
  ASSUME HedgeTypeInv, HedgeNext
  PROVE  HedgeTypeInv'
<1> USE CallFacts DEF HedgeTypeInv, start, Phases
<1>1. CASE Admit
  <2>1. PICK ring \in Rings : rail' = [rail EXCEPT ![attempt] = FirstByteTimeout(ring)]
    BY <1>1 DEF Admit
  <2>2. FirstByteTimeout(ring) \in Nat
    BY HedgeAssumption, RailRange
  <2>3. rail' \in [1 .. Attempts -> Nat]
    BY <2>1, <2>2
  <2>4. leg' \in [Calls -> [phase : Phases, began : Nat]]
    BY <1>1 DEF Admit, Send, Waiting
  <2>5. timer' \in [1 .. Attempts -> [task : {"off", "asleep", "awake", "done"}, due : Nat]]
    <3>1. (IF hedge_enabled THEN [task |-> "asleep", due |-> now + hedge_delay] ELSE Timer("done"))
          \in [task : {"off", "asleep", "awake", "done"}, due : Nat]
      BY DEF Timer
    <3> QED
      BY <1>1, <3>1 DEF Admit
  <2> QED
    BY <1>1, <2>3, <2>4, <2>5 DEF Admit
<1>2. CASE Reject
  BY <1>2 DEF Reject, Answer
<1>3. ASSUME NEW c \in Calls, NEW phase \in Phases, Moves(c, phase)
      PROVE  leg' \in [Calls -> [phase : Phases, began : Nat]]
  <2>1. leg' = [leg EXCEPT ![c] = Moved(phase)]
    BY <1>3, MovesIs
  <2>2. Moved(phase) \in [phase : Phases, began : Nat]
    BY DEF Moved
  <2> QED
    BY <2>1, <2>2
<1> USE DEF Waiting, Ended
<1>4. ASSUME NEW c \in Calls, Headers(c) PROVE HedgeTypeInv'
  BY <1>3, <1>4 DEF Headers
<1>5. ASSUME NEW c \in Calls, FirstByte(c) PROVE HedgeTypeInv'
  <2>1. leg' \in [Calls -> [phase : Phases, began : Nat]]
    BY <1>3, <1>5 DEF FirstByte
  <2>2. slot' \in [1 .. Attempts -> [leg : Legs \cup {NoLeg}, at : Nat]]
    <3>1. c[1] \in 1 .. Attempts /\ c[2] \in Legs
      OBVIOUS
    <3>2. slot' = [slot EXCEPT ![c[1]] = [leg |-> c[2], at |-> now]] \/ slot' = slot
      BY <1>5 DEF FirstByte
    <3>3. [leg |-> c[2], at |-> now] \in [leg : Legs \cup {NoLeg}, at : Nat]
      BY <3>1
    <3> QED
      BY <3>1, <3>2, <3>3
  <2> QED
    BY <1>5, <2>1, <2>2 DEF FirstByte
<1>6. ASSUME NEW c \in Calls, EmptyBody(c) PROVE HedgeTypeInv'
  BY <1>3, <1>6 DEF EmptyBody
<1>7. ASSUME NEW c \in Calls, RailExpires(c) PROVE HedgeTypeInv'
  BY <1>3, <1>7 DEF RailExpires
<1>8. ASSUME NEW c \in Calls, SendFails(c) PROVE HedgeTypeInv'
  BY <1>3, <1>8 DEF SendFails
<1>9. ASSUME NEW a \in 1 .. Attempts, TimerFires(a) PROVE HedgeTypeInv'
  <2>1. timer' \in [1 .. Attempts -> [task : {"off", "asleep", "awake", "done"}, due : Nat]]
    BY <1>9 DEF TimerFires, Timer
  <2> QED
    BY <1>9, <2>1 DEF TimerFires
<1>10. ASSUME NEW a \in 1 .. Attempts, TakeSlot(a) PROVE HedgeTypeInv'
  <2>1. timer' \in [1 .. Attempts -> [task : {"off", "asleep", "awake", "done"}, due : Nat]]
    BY <1>10 DEF TakeSlot, Timer
  <2>2. leg' \in [Calls -> [phase : Phases, began : Nat]]
    <3>1. leg' = leg \/ leg' = [leg EXCEPT ![<<a, Second>>] = [phase |-> "headers", began |-> now]]
      BY <1>10 DEF TakeSlot, Send
    <3>2. [phase |-> "headers", began |-> now] \in [phase : Phases, began : Nat]
      OBVIOUS
    <3> QED
      BY <3>1, <3>2
  <2> QED
    BY <1>10, <2>1, <2>2 DEF TakeSlot
<1>11. ASSUME NEW a \in 1 .. Attempts, Deliver(a) PROVE HedgeTypeInv'
  <2>1. mail' \in [1 .. Attempts -> BOOLEAN]
    BY <1>11 DEF Deliver
  <2> QED
    BY <1>11, <2>1 DEF Deliver
<1>12. CASE Resolve
  <2>1. Attempts \in Nat
    BY HedgeAssumption
  <2>2. attempt' \in 1 .. Attempts /\ since' \in Nat
        /\ handler' \in {"admission", "racing", "answered"}
    BY <1>12, <2>1 DEF Resolve, NoBytes, MayRetry, Retry, Answer
  <2> QED
    BY <1>12, <2>2 DEF Resolve
<1>13. CASE Tick
  BY <1>13 DEF Tick
<1>14. CASE UNCHANGED hedgeVars
  BY <1>14 DEF hedgeVars
<1> QED
  BY <1>1, <1>2, <1>4, <1>5, <1>6, <1>7, <1>8, <1>9, <1>10, <1>11, <1>12, <1>13, <1>14
  DEF HedgeNext, ProxyStep, UpstreamStep, Finished

\* The waits of an attempt in numbers.
LEMMA WaitNumbers ==
  /\ Attempts \in Nat /\ AdmissionWait \in Nat
  /\ ShortestRail \in Nat /\ LongestRail \in Nat
  BY HedgeAssumption, RailBounds

\* A call in flight that moves on stays within its rails.
LEMMA CallMovesInTime ==
  ASSUME HedgeTypeInv, NEW c \in Calls, InFlight(c),
         NEW r \in Nat, NEW s \in Nat, CallInTime(leg[c], r, s, now),
         NEW phase, phase \in Ended \/ (phase = "chunk" /\ leg[c].phase = "headers")
  PROVE  CallInTime(Moved(phase), r, s, now)
<1> USE WaitNumbers
<1>1. leg[c] \in [phase : Phases, began : Nat] /\ now \in Nat
  BY DEF HedgeTypeInv
<1>2. leg[c].began \in Nat
  BY <1>1
<1>3. CASE phase \in Ended
  BY <1>1, <1>3 DEF CallInTime, Moved, Ended, Waiting
<1>4. CASE phase = "chunk" /\ leg[c].phase = "headers"
  BY <1>1, <1>2, <1>4 DEF CallInTime, Moved, Ended, Waiting
<1> QED
  BY <1>3, <1>4

\* A call that moves on in flight and does not win.
LEMMA MoveStep ==
  ASSUME HedgeInv, NEW c \in Calls, InFlight(c), NEW phase,
         phase \in Ended \ {"won"} \/ (phase = "chunk" /\ leg[c].phase = "headers"),
         Moves(c, phase),
         UNCHANGED <<start, rail, now, handler, attempt, since, timer, slot>>
  PROVE  OnTime' /\ AwakeInSilence' /\ Unstarted' /\ OneWinner'
<1> USE CallFacts DEF HedgeInv, start
<1>0. leg \in [Calls -> [phase : Phases, began : Nat]] /\ HedgeTypeInv
  BY DEF HedgeTypeInv
<1>1. leg' = [leg EXCEPT ![c] = Moved(phase)]
  BY <1>0, MovesIs
<1>2. Moved(phase).phase = phase /\ phase # "won"
  BY DEF Moved, Ended
<1>3. leg[c].phase \in Waiting /\ leg[c] # Unsent
  BY DEF InFlight, Unsent, Waiting
<1>4. OnTime'
  <2>1. CASE handler = "racing" /\ c = <<attempt, First>>
    <3>1. CallInTime(leg[c], rail[attempt], since, now)
      BY <2>1 DEF OnTime
    <3>2. rail[attempt] \in Nat /\ since \in Nat
      BY DEF HedgeTypeInv
    <3>3. CallInTime(Moved(phase), rail[attempt], since, now)
      BY <3>1, <3>2, CallMovesInTime
    <3>4. leg'[<<attempt, First>>] = Moved(phase)
      BY <1>0, <1>1, <2>1
    <3> QED
      BY <2>1, <3>3, <3>4 DEF OnTime, Answered, CallInTime
  <2>2. CASE ~(handler = "racing" /\ c = <<attempt, First>>)
    <3>1. handler = "racing" => leg'[<<attempt, First>>] = leg[<<attempt, First>>]
      BY <1>0, <1>1, <2>2 DEF HedgeTypeInv
    <3> QED
      BY <3>1 DEF OnTime, Answered, CallInTime
  <2> QED
    BY <2>1, <2>2
<1>5. AwakeInSilence'
  BY DEF AwakeInSilence
<1>6. Unstarted'
  <2>1. ASSUME NEW a \in 1 .. Attempts, timer[a].task # "done"
        PROVE  leg'[<<a, Second>>] = Unsent
    BY <1>0, <1>1, <1>3, <2>1 DEF Unstarted
  <2>2. ASSUME NEW a \in 1 .. Attempts, a > attempt \/ (a = attempt /\ handler = "admission")
        PROVE  leg'[<<a, First>>] = Unsent
    BY <1>0, <1>1, <1>3, <2>2 DEF Unstarted
  <2> QED
    BY <2>1, <2>2 DEF Unstarted
<1>7. OneWinner'
  <2> SUFFICES ASSUME NEW a \in 1 .. Attempts, NEW l \in Legs
               PROVE  leg'[<<a, l>>].phase = "won" <=> slot[a].leg = l
    BY DEF OneWinner
  <2>1. leg[<<a, l>>].phase = "won" <=> slot[a].leg = l
    BY DEF OneWinner
  <2>2. CASE c = <<a, l>>
    BY <1>0, <1>1, <1>2, <1>3, <2>1, <2>2 DEF Waiting
  <2>3. CASE c # <<a, l>>
    BY <1>0, <1>1, <2>1, <2>3 DEF Calls
  <2> QED
    BY <2>2, <2>3
<1> QED
  BY <1>4, <1>5, <1>6, <1>7

\* The first byte that wins.
LEMMA WinStep ==
  ASSUME HedgeInv, NEW c \in Calls, leg[c].phase = "chunk", slot[c[1]].leg = NoLeg,
         Moves(c, "won"), slot' = [slot EXCEPT ![c[1]] = [leg |-> c[2], at |-> now]],
         UNCHANGED <<start, rail, now, handler, attempt, since, timer>>
  PROVE  OnTime' /\ AwakeInSilence' /\ Unstarted' /\ OneWinner'
<1> USE CallFacts DEF HedgeInv, start
<1>0. /\ leg \in [Calls -> [phase : Phases, began : Nat]]
      /\ slot \in [1 .. Attempts -> [leg : Legs \cup {NoLeg}, at : Nat]]
      /\ HedgeTypeInv
      /\ c[1] \in 1 .. Attempts /\ c[2] \in Legs
  BY DEF HedgeTypeInv
<1>1. leg' = [leg EXCEPT ![c] = Moved("won")]
  BY <1>0, MovesIs
<1>2. Moved("won").phase = "won" /\ "won" \in Ended
  BY DEF Moved, Ended
<1>3. InFlight(c) /\ leg[c] # Unsent
  BY DEF InFlight, Unsent, Waiting
<1>4. OnTime'
  <2>1. CASE handler = "racing" /\ c = <<attempt, First>>
    <3>1. CallInTime(leg[c], rail[attempt], since, now)
      BY <2>1 DEF OnTime
    <3>2. rail[attempt] \in Nat /\ since \in Nat
      BY DEF HedgeTypeInv
    <3>3. CallInTime(Moved("won"), rail[attempt], since, now)
      BY <1>2, <1>3, <3>1, <3>2, CallMovesInTime
    <3>4. leg'[<<attempt, First>>] = Moved("won")
      BY <1>0, <1>1, <2>1
    <3> QED
      BY <2>1, <3>3, <3>4 DEF OnTime, Answered, CallInTime
  <2>2. CASE ~(handler = "racing" /\ c = <<attempt, First>>)
    <3>1. handler = "racing" => leg'[<<attempt, First>>] = leg[<<attempt, First>>]
      BY <1>0, <1>1, <2>2 DEF HedgeTypeInv
    <3> QED
      BY <3>1 DEF OnTime, Answered, CallInTime
  <2> QED
    BY <2>1, <2>2
<1>5. AwakeInSilence'
  <2> SUFFICES ASSUME NEW a \in 1 .. Attempts, timer[a].task = "awake"
               PROVE  slot'[a].leg = NoLeg \/ slot'[a].at = now
    BY DEF AwakeInSilence
  <2>1. slot[a].leg = NoLeg \/ slot[a].at = now
    BY DEF AwakeInSilence
  <2> QED
    BY <1>0, <2>1
<1>6. Unstarted'
  <2>1. ASSUME NEW a \in 1 .. Attempts, timer[a].task # "done"
        PROVE  leg'[<<a, Second>>] = Unsent
    BY <1>0, <1>1, <1>3, <2>1 DEF Unstarted
  <2>2. ASSUME NEW a \in 1 .. Attempts, a > attempt \/ (a = attempt /\ handler = "admission")
        PROVE  leg'[<<a, First>>] = Unsent /\ slot'[a] = slot[a]
    <3>1. timer[a] = Timer("off") /\ leg[<<a, First>>] = Unsent
      BY <2>2 DEF Unstarted
    <3>2. leg[<<a, Second>>] = Unsent
      BY <3>1 DEF Unstarted, Timer
    <3>3. c[1] # a
      BY <1>0, <1>3, <3>1, <3>2
    <3> QED
      BY <1>0, <1>1, <3>1, <3>3
  <2> QED
    BY <2>1, <2>2 DEF Unstarted
<1>7. OneWinner'
  <2> SUFFICES ASSUME NEW a \in 1 .. Attempts, NEW l \in Legs
               PROVE  leg'[<<a, l>>].phase = "won" <=> slot'[a].leg = l
    BY DEF OneWinner
  <2>1. leg[<<a, l>>].phase = "won" <=> slot[a].leg = l
    BY DEF OneWinner
  <2>2. CASE c = <<a, l>>
    <3>1. leg'[<<a, l>>].phase = "won"
      BY <1>0, <1>1, <1>2, <2>2
    <3>2. slot'[a].leg = l
      BY <1>0, <2>2
    <3> QED
      BY <3>1, <3>2
  <2>3. CASE c # <<a, l>>
    <3>1. leg'[<<a, l>>] = leg[<<a, l>>]
      BY <1>0, <1>1, <2>3 DEF Calls
    <3>2. CASE a = c[1]
      <4>1. slot'[a].leg = c[2] /\ c[2] # l
        BY <1>0, <2>3, <3>2
      <4> QED
        BY <2>1, <3>1, <3>2, <4>1
    <3>3. CASE a # c[1]
      BY <1>0, <2>1, <3>1, <3>3
    <3> QED
      BY <3>2, <3>3
  <2> QED
    BY <2>2, <2>3
<1> QED
  BY <1>4, <1>5, <1>6, <1>7

\* Every step keeps the invariant, action by action.
LEMMA HedgeInvStep ==
  ASSUME HedgeInv, HedgeNext
  PROVE  HedgeInv'
<1> USE CallFacts DEF start
<1>0. /\ HedgeTypeInv /\ OnTime /\ AwakeInSilence /\ Unstarted /\ OneWinner
      /\ leg \in [Calls -> [phase : Phases, began : Nat]]
      /\ slot \in [1 .. Attempts -> [leg : Legs \cup {NoLeg}, at : Nat]]
      /\ timer \in [1 .. Attempts -> [task : {"off", "asleep", "awake", "done"}, due : Nat]]
      /\ rail \in [1 .. Attempts -> Nat]
      /\ now \in Nat /\ since \in Nat /\ attempt \in 1 .. Attempts /\ budget \in Nat
  BY DEF HedgeInv, HedgeTypeInv
<1>t. HedgeTypeInv'
  BY <1>0, HedgeTypeStep
<1> DEFINE Rest4 == OnTime' /\ AwakeInSilence' /\ Unstarted' /\ OneWinner'
<1> SUFFICES Rest4
  BY <1>t DEF HedgeInv
<1>1. CASE Admit
  <2>0. /\ leg' = [leg EXCEPT ![<<attempt, First>>] = [phase |-> "headers", began |-> now]]
        /\ handler = "admission" /\ handler' = "racing" /\ UNCHANGED <<start, now, attempt, since, slot>>
        /\ timer' = [timer EXCEPT ![attempt] =
             IF hedge_enabled THEN [task |-> "asleep", due |-> now + hedge_delay] ELSE Timer("done")]
    BY <1>1 DEF Admit, Send
  <2>1. OnTime'
    <3>1. leg'[<<attempt, First>>] = [phase |-> "headers", began |-> now]
      BY <1>0, <2>0
    <3>2. PICK ring \in Rings : rail' = [rail EXCEPT ![attempt] = FirstByteTimeout(ring)]
      BY <1>1 DEF Admit
    <3>3. rail'[attempt] = FirstByteTimeout(ring)
      BY <1>0, <3>2
    <3>4. /\ rail'[attempt] \in Nat
          /\ ShortestRail <= rail'[attempt] /\ rail'[attempt] <= LongestRail
      BY <3>3, HedgeAssumption, RailRange
    <3>5. since <= now /\ since <= budget - ShortestRail /\ now <= since + AdmissionWait
      BY <1>0, <2>0 DEF OnTime, Answered
    <3>6. CallInTime([phase |-> "headers", began |-> now], rail'[attempt], since, now)
      BY <1>0, <3>4, <3>5, WaitNumbers DEF CallInTime
    <3> QED
      BY <2>0, <3>1, <3>5, <3>6 DEF OnTime, Answered, CallInTime
  <2>2. \A a \in 1 .. Attempts : timer'[a] = timer[a] \/ (a = attempt /\ timer'[a].task \in {"asleep", "done"})
    BY <1>0, <2>0 DEF Timer
  <2>3. AwakeInSilence'
    BY <1>0, <2>0, <2>2 DEF AwakeInSilence
  <2>4. Unstarted'
    <3>1. ASSUME NEW a \in 1 .. Attempts, timer'[a].task # "done"
          PROVE  leg'[<<a, Second>>] = Unsent
      <4>1. timer[a].task # "done"
        <5>1. timer[attempt] = Timer("off")
          BY <1>0, <2>0 DEF Unstarted
        <5>2. timer[attempt].task = "off"
          BY <5>1 DEF Timer
        <5>3. CASE timer'[a] = timer[a]
          BY <3>1, <5>3
        <5>4. CASE a = attempt
          BY <5>2, <5>4
        <5> QED
          BY <2>2, <5>3, <5>4
      <4>2. leg[<<a, Second>>] = Unsent
        BY <1>0, <4>1 DEF Unstarted
      <4> QED
        BY <1>0, <2>0, <4>2
    <3>2. ASSUME NEW a \in 1 .. Attempts, a > attempt
          PROVE  leg'[<<a, First>>] = Unsent /\ timer'[a] = Timer("off") /\ slot[a] = Unwon
      <4>1. leg[<<a, First>>] = Unsent /\ timer[a] = Timer("off") /\ slot[a] = Unwon
        BY <1>0, <3>2 DEF Unstarted
      <4>2. a # attempt
        BY <1>0, <3>2
      <4> QED
        BY <1>0, <2>0, <2>2, <4>1, <4>2
    <3> QED
      BY <2>0, <3>1, <3>2 DEF Unstarted
  <2>5. OneWinner'
    <3> SUFFICES ASSUME NEW a \in 1 .. Attempts, NEW l \in Legs
                 PROVE  leg'[<<a, l>>].phase = "won" <=> slot[a].leg = l
      BY <2>0 DEF OneWinner
    <3>1. leg[<<a, l>>].phase = "won" <=> slot[a].leg = l
      BY <1>0 DEF OneWinner
    <3>2. CASE a = attempt /\ l = First
      <4>1. slot[a] = Unwon
        BY <1>0, <2>0, <3>2 DEF Unstarted
      <4> QED
        <5>1. slot[a].leg = NoLeg
          BY <4>1 DEF Unwon
        <5>2. leg'[<<a, l>>] = [phase |-> "headers", began |-> now]
          BY <1>0, <2>0, <3>2
        <5> QED
          BY <3>2, <5>1, <5>2
    <3>3. CASE ~(a = attempt /\ l = First)
      BY <1>0, <2>0, <3>1, <3>3 DEF Calls
    <3> QED
      BY <3>2, <3>3
  <2> QED
    BY <2>1, <2>3, <2>4, <2>5
<1>2. CASE Reject
  <2>1. /\ handler' = "answered" /\ handler = "admission"
        /\ UNCHANGED <<rail, now, attempt, since, leg, timer, slot>>
    BY <1>2 DEF Reject, Answer
  <2>2. OnTime'
    BY <2>1 DEF OnTime, Answered
  <2>3. Unstarted'
    BY <1>0, <2>1 DEF Unstarted
  <2>4. AwakeInSilence'
    BY <1>0, <2>1 DEF AwakeInSilence
  <2>5. OneWinner'
    BY <1>0, <2>1 DEF OneWinner
  <2> QED
    BY <2>2, <2>3, <2>4, <2>5
<1>4. ASSUME NEW c \in Calls, Headers(c) PROVE Rest4
  BY <1>4, MoveStep DEF Headers, InFlight, Waiting
<1>5. ASSUME NEW c \in Calls, FirstByte(c) PROVE Rest4
  <2>1. CASE slot[c[1]].leg = NoLeg
    BY <1>5, <2>1, WinStep DEF FirstByte
  <2>2. CASE slot[c[1]].leg # NoLeg
    BY <1>5, <2>2, MoveStep DEF FirstByte, InFlight, Waiting, Ended
  <2> QED
    BY <2>1, <2>2
<1>6. ASSUME NEW c \in Calls, EmptyBody(c) PROVE Rest4
  BY <1>6, MoveStep DEF EmptyBody, InFlight, Waiting, Ended
<1>7. ASSUME NEW c \in Calls, RailExpires(c) PROVE Rest4
  BY <1>7, MoveStep DEF RailExpires, RailDue, Ended
<1>8. ASSUME NEW c \in Calls, SendFails(c) PROVE Rest4
  BY <1>8, MoveStep DEF SendFails, Ended
<1>9. ASSUME NEW a \in 1 .. Attempts, TimerFires(a) PROVE Rest4
  <2>0. /\ timer[a].task = "asleep"
        /\ timer' = [timer EXCEPT ![a] = Timer(IF slot[a].leg # NoLeg THEN "done" ELSE "awake")]
        /\ UNCHANGED <<start, rail, now, handler, attempt, since, leg, slot>>
    BY <1>9 DEF TimerFires, TimerDue
  <2>1. timer'[a] = Timer(IF slot[a].leg # NoLeg THEN "done" ELSE "awake")
        /\ \A b \in 1 .. Attempts : b # a => timer'[b] = timer[b]
    BY <1>0, <2>0
  <2>2. AwakeInSilence'
    BY <1>0, <2>0, <2>1 DEF AwakeInSilence, Timer
  <2>3. Unstarted'
    <3>1. leg[<<a, Second>>] = Unsent /\ ~(a > attempt \/ (a = attempt /\ handler = "admission"))
      <4>1. timer[a].task # "done" /\ timer[a] # Timer("off")
        BY <2>0 DEF Timer
      <4> QED
        BY <1>0, <4>1 DEF Unstarted
    <3> QED
      BY <1>0, <2>0, <2>1, <3>1 DEF Unstarted
  <2>4. OnTime' /\ OneWinner'
    BY <1>0, <2>0 DEF OnTime, OneWinner, Answered, CallInTime
  <2> QED
    BY <2>2, <2>3, <2>4
<1>10. ASSUME NEW a \in 1 .. Attempts, TakeSlot(a) PROVE Rest4
  <2>0. /\ timer[a].task = "awake"
        /\ timer' = [timer EXCEPT ![a] = Timer("done")]
        /\ leg' = leg \/ leg' = [leg EXCEPT ![<<a, Second>>] = [phase |-> "headers", began |-> now]]
        /\ UNCHANGED <<start, rail, now, handler, attempt, since, slot>>
    BY <1>10 DEF TakeSlot, Send
  <2>1. timer'[a] = Timer("done") /\ \A b \in 1 .. Attempts : b # a => timer'[b] = timer[b]
    BY <1>0, <2>0
  <2>2. /\ \A b \in 1 .. Attempts : leg'[<<b, First>>] = leg[<<b, First>>]
        /\ \A b \in 1 .. Attempts : b # a => leg'[<<b, Second>>] = leg[<<b, Second>>]
    BY <1>0, <2>0
  <2>3. leg[<<a, Second>>] = Unsent /\ ~(a > attempt \/ (a = attempt /\ handler = "admission"))
    <3>1. timer[a].task # "done" /\ timer[a] # Timer("off")
      BY <2>0 DEF Timer
    <3> QED
      BY <1>0, <3>1 DEF Unstarted
  <2>4. AwakeInSilence'
    BY <1>0, <2>0, <2>1 DEF AwakeInSilence, Timer
  <2>5. Unstarted'
    BY <1>0, <2>0, <2>1, <2>2, <2>3 DEF Unstarted, Timer
  <2>6. OneWinner'
    <3>1. leg'[<<a, Second>>].phase # "won" /\ leg[<<a, Second>>].phase # "won"
      <4>1. leg[<<a, Second>>].phase = "none"
        BY <2>3 DEF Unsent
      <4>2. leg'[<<a, Second>>] \in {leg[<<a, Second>>], [phase |-> "headers", began |-> now]}
        BY <1>0, <2>0
      <4> QED
        BY <4>1, <4>2
    <3>2. ASSUME NEW b \in 1 .. Attempts, NEW l \in Legs
          PROVE  leg'[<<b, l>>].phase = "won" <=> slot[b].leg = l
      <4>1. leg[<<b, l>>].phase = "won" <=> slot[b].leg = l
        BY <1>0 DEF OneWinner
      <4>2. CASE b = a /\ l = Second
        BY <3>1, <4>1, <4>2
      <4>3. CASE ~(b = a /\ l = Second)
        BY <2>2, <4>1, <4>3
      <4> QED
        BY <4>2, <4>3
    <3> QED
      BY <2>0, <3>2 DEF OneWinner
  <2>7. OnTime'
    BY <1>0, <2>0, <2>2 DEF OnTime, Answered, CallInTime
  <2> QED
    BY <2>4, <2>5, <2>6, <2>7
<1>11. ASSUME NEW a \in 1 .. Attempts, Deliver(a) PROVE Rest4
  BY <1>0, <1>11 DEF Deliver, OnTime, Answered, CallInTime, AwakeInSilence, Unstarted, OneWinner
<1>12. CASE Resolve
  <2>0. /\ handler = "racing"
        /\ UNCHANGED <<start, rail, now, leg, timer, slot>>
        /\ \/ handler' = "answered" /\ UNCHANGED <<attempt, since>>
           \/ /\ attempt' = attempt + 1 /\ since' = now /\ handler' = "admission"
              /\ now + rail[attempt] <= budget
    BY <1>12 DEF Resolve, Resolvable, NoBytes, MayRetry, Retry, Answer
  <2>1. OnTime'
    <3>1. rail[attempt] \in Nat /\ ShortestRail <= rail[attempt]
      BY <1>0, <2>0 DEF OnTime, CallInTime
    <3> QED
      BY <1>0, <2>0, <3>1, WaitNumbers DEF OnTime, Answered
  <2>2. Unstarted'
    <3> SUFFICES ASSUME NEW a \in 1 .. Attempts, a > attempt' \/ (a = attempt' /\ handler' = "admission")
                 PROVE  a > attempt
      BY <1>0, <2>0 DEF Unstarted
    <3> QED
      BY <1>0, <2>0
  <2>3. AwakeInSilence'
    BY <1>0, <2>0 DEF AwakeInSilence
  <2>4. OneWinner'
    BY <1>0, <2>0 DEF OneWinner
  <2> QED
    BY <2>1, <2>2, <2>3, <2>4
<1>13. CASE Tick
  <2>0. ~Due /\ now' = now + 1
        /\ UNCHANGED <<start, rail, handler, attempt, since, leg, timer, slot, mail>>
    BY <1>13 DEF Tick
  <2>1. OnTime'
    <3>1. handler = "admission" => now + 1 <= since + AdmissionWait
      BY <1>0, <2>0, WaitNumbers DEF Due
    <3>2. ASSUME handler = "racing"
          PROVE  CallInTime(leg[<<attempt, First>>], rail[attempt], since, now + 1)
      <4> DEFINE c == <<attempt, First>>
                 l == leg[c]
      <4>0. c \in Calls /\ c[1] = attempt
        BY <1>0
      <4>1. CallInTime(l, rail[attempt], since, now)
        BY <1>0, <3>2 DEF OnTime
      <4>2. ~HasEnded(c) /\ ~RailDue(c)
        BY <2>0, <3>2, <4>0 DEF Due, Resolvable
      <4>3. l \in [phase : Phases, began : Nat] /\ rail[attempt] \in Nat
        BY <1>0, <4>0
      <4>4. l.phase \in Waiting
        BY <4>1, <4>2, <4>3 DEF CallInTime, HasEnded, Phases
      <4>5. ~(now >= l.began + rail[attempt])
        BY <4>0, <4>2, <4>4 DEF RailDue, InFlight
      <4>6. now + 1 <= l.began + rail[attempt]
        BY <1>0, <4>3, <4>5
      <4> HIDE DEF l
      <4>7. l.began \in Nat
        BY <4>3
      <4> QED
        <5>1. now + 1 <= since + AdmissionWait + 2 * LongestRail
          BY <1>0, <4>1, <4>3, <4>4, <4>6, <4>7, WaitNumbers DEF CallInTime, Waiting
        <5>2. CallInTime(l, rail[attempt], since, now + 1)
          BY <4>1, <4>6, <5>1 DEF CallInTime
        <5> QED
          BY <5>2 DEF l
    <3> QED
      BY <1>0, <2>0, <3>1, <3>2, WaitNumbers DEF OnTime, Answered, CallInTime
  <2>2. AwakeInSilence'
    BY <2>0 DEF AwakeInSilence, Due
  <2>3. Unstarted'
    BY <1>0, <2>0 DEF Unstarted
  <2>4. OneWinner'
    BY <1>0, <2>0 DEF OneWinner
  <2> QED
    BY <2>1, <2>2, <2>3, <2>4
<1>14. CASE UNCHANGED hedgeVars
  <2>1. OnTime'
    BY <1>0, <1>14 DEF hedgeVars, OnTime, Answered, CallInTime
  <2>2. AwakeInSilence' /\ Unstarted'
    BY <1>0, <1>14 DEF hedgeVars, AwakeInSilence, Unstarted
  <2>3. OneWinner'
    BY <1>0, <1>14 DEF hedgeVars, OneWinner
  <2> QED
    BY <2>1, <2>2, <2>3
<1>15. Rest4
  BY <1>1, <1>2, <1>4, <1>5, <1>6, <1>7, <1>8, <1>9, <1>10, <1>11, <1>12, <1>13, <1>14
  DEF HedgeNext, ProxyStep, UpstreamStep, Finished
<1> QED
  BY <1>t, <1>15 DEF HedgeInv

\* The inductive invariant holds always.
LEMMA HedgeInvAlways == HedgeSpec => []HedgeInv
<1>1. HedgeInit => HedgeInv
  BY HedgeInitInv
<1>2. HedgeInv /\ [HedgeNext]_hedgeVars => HedgeInv'
  <2> SUFFICES ASSUME HedgeInv, [HedgeNext]_hedgeVars PROVE HedgeInv'
    OBVIOUS
  <2>1. CASE HedgeNext
    BY <2>1, HedgeInvStep
  <2>2. CASE UNCHANGED hedgeVars
    BY <2>2 DEF hedgeVars, start, HedgeInv, HedgeTypeInv, OnTime, Answered, CallInTime,
                AwakeInSilence, Unstarted, OneWinner
  <2> QED
    BY <2>1, <2>2
<1> QED
  BY <1>1, <1>2, PTL DEF HedgeSpec

\* A client without an answer has not waited longer than the budget computed at
\* the start, less the shortest rail, plus one admission wait and two of the
\* longest rails: although the rail each attempt of chat_completions reads anew
\* may have grown since, and for any rings of latencies
\* (RetryPolicy::new_split, the rail in leg_first_byte).
THEOREM WaitBounded == HedgeSpec => []AnsweredInTime
<1>1. HedgeInv => AnsweredInTime
  <2> SUFFICES ASSUME HedgeInv, ~Answered
               PROVE  now <= budget - ShortestRail + AdmissionWait + 2 * LongestRail
    BY DEF AnsweredInTime
  <2>1. now \in Nat /\ since \in Nat /\ budget \in Nat
    BY DEF HedgeInv, HedgeTypeInv
  <2>2. since <= budget - ShortestRail
    BY DEF HedgeInv, OnTime
  <2>3. handler = "admission" \/ handler = "racing"
    BY DEF HedgeInv, HedgeTypeInv, Answered
  <2>4. now <= since + AdmissionWait + 2 * LongestRail
    BY <2>1, <2>3, WaitNumbers DEF HedgeInv, OnTime, CallInTime
  <2> QED
    BY <2>1, <2>2, <2>4, WaitNumbers
<1> QED
  BY <1>1, HedgeInvAlways, PTL

\* The timer task of an attempt sends its second call only while the attempt's
\* WinnerSlot is unclaimed, or at the very moment of the claim: the timer looks
\* at the slot, and takes permits and sends in the same moment (hedge.rs).
THEOREM NoHedgeAfterFirstByte == HedgeSpec => HedgeStartsInSilence
<1> DEFINE Silent == \A a \in 1 .. Attempts :
              leg[<<a, Second>>] = Unsent /\ leg'[<<a, Second>>] # Unsent
              => slot[a].leg = NoLeg \/ slot[a].at = now
<1>1. ASSUME HedgeInv, HedgeNext PROVE Silent
  <2> SUFFICES ASSUME NEW a \in 1 .. Attempts,
                      leg[<<a, Second>>] = Unsent, leg'[<<a, Second>>] # Unsent
               PROVE  slot[a].leg = NoLeg \/ slot[a].at = now
    OBVIOUS
  <2> USE CallFacts DEF start
  <2>0. leg \in [Calls -> [phase : Phases, began : Nat]] /\ HedgeTypeInv /\ AwakeInSilence
        /\ leg' # leg
    BY <1>1 DEF HedgeInv, HedgeTypeInv
  <2>1. ASSUME NEW c \in Calls, NEW phase, InFlight(c), Moves(c, phase) PROVE FALSE
    <3>1. leg' = [leg EXCEPT ![c] = Moved(phase)]
      BY <2>0, <2>1, MovesIs
    <3>2. leg[c] # Unsent
      BY <2>1 DEF InFlight, Waiting, Unsent
    <3> QED
      BY <2>0, <3>1, <3>2
  <2>2. ASSUME NEW c \in Calls, leg[c].phase = "chunk" PROVE InFlight(c)
    BY <2>2 DEF InFlight, Waiting
  <2>3. CASE Admit
    BY <2>0, <2>3 DEF Admit, Send
  <2>4. CASE Reject \/ Resolve \/ Tick \/ UNCHANGED hedgeVars
    BY <2>0, <2>4 DEF Reject, Resolve, Tick, hedgeVars
  <2>5. ASSUME NEW c \in Calls,
               Headers(c) \/ FirstByte(c) \/ EmptyBody(c) \/ SendFails(c) \/ RailExpires(c)
        PROVE  FALSE
    <3>1. InFlight(c)
      BY <2>2, <2>5 DEF Headers, FirstByte, EmptyBody, SendFails, RailExpires, RailDue, InFlight, Waiting
    <3>2. \E phase : Moves(c, phase)
      BY <2>5 DEF Headers, FirstByte, EmptyBody, SendFails, RailExpires
    <3> QED
      BY <2>1, <3>1, <3>2
  <2>6. ASSUME NEW b \in 1 .. Attempts, TimerFires(b) \/ Deliver(b) PROVE FALSE
    BY <2>0, <2>6 DEF TimerFires, Deliver
  <2>7. ASSUME NEW b \in 1 .. Attempts, TakeSlot(b)
        PROVE  slot[a].leg = NoLeg \/ slot[a].at = now
    <3>1. a = b
      BY <2>0, <2>7 DEF TakeSlot, Send
    <3> QED
      BY <2>0, <2>7, <3>1 DEF TakeSlot, AwakeInSilence
  <2> QED
    BY <1>1, <2>3, <2>4, <2>5, <2>6, <2>7
    DEF HedgeNext, ProxyStep, UpstreamStep, Finished
<1>2. ASSUME UNCHANGED hedgeVars PROVE Silent
  BY <1>2 DEF hedgeVars
<1>3. HedgeInv /\ [HedgeNext]_hedgeVars => [Silent]_hedgeVars
  BY <1>1, <1>2
<1> QED
  BY <1>3, HedgeInvAlways, PTL DEF HedgeSpec, HedgeStartsInSilence

\* At most one call of an attempt ever wins, and it is the one that
\* WinnerSlot::claim has recorded: whatever order the two calls, the timer and
\* the handler run in, and however late the second call comes.
THEOREM OneWinnerPerAttempt == HedgeSpec => []OneWinner
  BY HedgeInvAlways, PTL DEF HedgeInv

-----------------------------------------------------------------------------
(* The stream: its inductive invariant.                                    *)

\* The symbols of the texts.
Symbols == {NL} \cup {[kind |-> k, part |-> i] : k \in Kinds, i \in 1 .. MaxPartialLine + 2}

\* What may follow a symbol in a text: a line's parts in order, its newline, the
\* first part of another line.
Follows(x, y) ==
  IF x = NL THEN y # NL /\ y.part = 1
  ELSE IF x.part = Parts(x.kind) THEN y = NL
  ELSE y = [kind |-> x.kind, part |-> x.part + 1]

\* A text is whole lines.
WholeLines(t) ==
  /\ t \in Seq(Symbols)
  /\ t # <<>>
  /\ t[1] # NL /\ t[1].part = 1
  /\ t[Len(t)] = NL
  /\ \A i \in 1 .. Len(t) - 1 : Follows(t[i], t[i + 1])

\* Where the lines of some kinds end in the first p symbols of t.
LinesTo(t, kinds, p) == {i \in 2 .. p : t[i] = NL /\ t[i - 1].kind \in kinds}

\* The keys of n calls of their own, and of the indexed one if it was seen.
KeysOf(n, indexed) ==
  {<<"anon", i>> : i \in 0 .. n - 1} \cup (IF indexed THEN {<<"index", 0>>} ELSE {})

\* The facts are those of the lines that end in the first p symbols.
ExactFacts(t, f, p) ==
  /\ f.content = Cardinality(LinesTo(t, Contents, p))
  /\ f.anon = Cardinality(LinesTo(t, {"anon"}, p))
  /\ f.keys = KeysOf(f.anon, LinesTo(t, {"tool"}, p) # {})
  /\ f.finish = IF LinesTo(t, Finishes, p) = {} THEN "none"
                ELSE t[Max(LinesTo(t, Finishes, p)) - 1].kind
  /\ f.done = (LinesTo(t, {"done"}, p) # {})

\* The facts are of lines that end in the first p symbols.
SoundFacts(t, f, p) ==
  /\ f.content <= Cardinality(LinesTo(t, Contents, p))
  /\ f.anon <= Cardinality(LinesTo(t, {"anon"}, p))
  /\ \E indexed \in BOOLEAN :
       f.keys = KeysOf(f.anon, indexed) /\ (indexed => LinesTo(t, {"tool"}, p) # {})
  /\ f.finish # "none" => LinesTo(t, {f.finish}, p) # {}
  /\ f.done => LinesTo(t, {"done"}, p) # {}

\* What a tap may know.
Facts == [content : Nat, keys : SUBSET ({"anon", "index"} \X Nat), anon : Nat,
          finish : Finishes \cup {"none"}, done : BOOLEAN]

\* The line l is what the text holds between its last newline and the place p.
ExactLine(t, l, p) ==
  IF l = <<>> THEN p = 0 \/ t[p] = NL
  ELSE /\ p > 0 /\ t[p] # NL /\ t[p].part = Len(l)
       /\ \A i \in 1 .. Len(l) : l[i] = [kind |-> t[p].kind, part |-> i]

\* The facts are of lines up to some place, and the line's last symbol lies behind.
SoundLine(t, l, f, p) ==
  \E m \in 0 .. p :
    /\ SoundFacts(t, f, m)
    /\ l # <<>> => \E j \in m + 1 .. p : t[j] = l[Len(l)]

\* The inductive invariant of the tap. What it knows is of lines that were
\* forwarded, in that order; while it let nothing pass, it is all of them, and
\* the partial line is what follows the last newline.
TapInv ==
  /\ WholeLines(text)
  /\ sent \in 0 .. Len(text)
  /\ partial \in Seq(Symbols \ {NL})
  /\ Len(partial) <= MaxPartialLine
  /\ tap \in Facts
  /\ SoundLine(text, partial, tap, sent)
  /\ ~dropped => ExactLine(text, partial, sent) /\ ExactFacts(text, tap, sent)

\* The inductive invariant of the end: what the body, the finalized flag, the
\* reading of the end and the client say of one another.
EndInv ==
  /\ cut \in BOOLEAN /\ dropped \in BOOLEAN /\ finalized \in BOOLEAN
  /\ end \in Ends
  /\ body \in Ends \cup {"unpolled", "waiting", "ended"}
  /\ client \in {"reading", "aborted", "complete", "error_frame", "gone"}
  /\ watcher \in {"waits", "ended", "late", "done"}
  /\ finalized <=> body = "ended"
  /\ body \in {"unpolled", "waiting"} => end = "clean"
  /\ body \in Ends => end = body
  /\ client = "complete" => tap.done
  /\ client = "error_frame" => ~tap.done /\ end = "clean"
  /\ client = "aborted" => end # "clean"
  /\ client # "reading" => finalized
  /\ watcher = "ended" => finalized

\* The names a record may give a turn.
Modes == {"none", "truncated_stream", "empty_completion", "length_cutoff",
          "missing_finish_reason", "clean_stop"}

\* The inductive invariant of the record: it is as sound as the tap was when it
\* was written, and what is written after the end tells the end.
RecordInv ==
  /\ record \in [mode : Modes, clean : BOOLEAN, end : Ends, calls : Nat, late : BOOLEAN]
  /\ record.clean => LinesTo(text, {"done"}, sent) # {}
  /\ ~record.clean => record.mode \in {"none", "truncated_stream"}
  /\ watcher = "done" /\ ~record.late =>
       /\ finalized
       /\ record.clean = tap.done
       /\ ~tap.done => record.mode = "truncated_stream"
       /\ record.end = end

-----------------------------------------------------------------------------
(* Folds from the left. *)

\* The largest of a nonempty finite set of numbers is in it.
LEMMA MaxIs ==
  ASSUME NEW S \in SUBSET Nat, IsFiniteSet(S), S # {}
  PROVE  Max(S) \in S /\ \A x \in S : x <= Max(S)
<1> DEFINE Bounded(T) == \E m \in T : \A x \in T : x <= m
           N == {n \in Nat : \A T \in SUBSET S : Cardinality(T) = n + 1 => Bounded(T)}
<1>0. \A T \in SUBSET S : IsFiniteSet(T) /\ Cardinality(T) \in Nat
  BY FS_Subset, FS_CardinalityType
<1>1. 0 \in N
  <2> SUFFICES ASSUME NEW T \in SUBSET S, Cardinality(T) = 1 PROVE Bounded(T)
    OBVIOUS
  <2>1. \E x : T = {x}
    BY <1>0, FS_Singleton
  <2> QED
    BY <2>1
<1>2. ASSUME NEW n \in N PROVE n + 1 \in N
  <2>0. n \in Nat /\ n + 1 \in Nat
    OBVIOUS
  <2> SUFFICES ASSUME NEW T \in SUBSET S, Cardinality(T) = (n + 1) + 1 PROVE Bounded(T)
    BY <2>0
  <2>1. PICK y \in T : TRUE
    <3>1. Cardinality(T) # 0
      BY <2>0
    <3> QED
      BY <3>1, FS_EmptySet
  <2>2. Cardinality(T \ {y}) = n + 1 /\ T \ {y} \in SUBSET S
    <3>1. Cardinality(T \ {y}) = Cardinality(T) - 1
      BY <1>0, FS_RemoveElement
    <3> QED
      BY <2>0, <3>1
  <2>3. Bounded(T \ {y})
    BY <2>2
  <2>4. PICK m \in T \ {y} : \A x \in T \ {y} : x <= m
    BY <2>3
  <2>5. CASE y <= m
    BY <2>4, <2>5
  <2>6. CASE ~(y <= m)
    BY <2>4, <2>6
  <2> QED
    BY <2>5, <2>6
<1>3. N = Nat
  <2>1. N \in SUBSET Nat
    OBVIOUS
  <2> HIDE DEF N
  <2> QED
    BY <1>1, <1>2, <2>1, InductiveSet
<1>4. Bounded(S)
  <2>1. Cardinality(S) # 0 /\ Cardinality(S) \in Nat
    BY FS_EmptySet, FS_CardinalityType
  <2>2. Cardinality(S) - 1 \in N
    <3> HIDE DEF N
    <3> QED
      BY <1>3, <2>1
  <2> QED
    BY <2>1, <2>2
<1> QED
  BY <1>4 DEF Max

\* The places below the largest.
Under(s) == s \ {Max(s)}

\* g scans the symbols of s at every set of places, the largest place last.
Folds(g, facts, s) ==
  g = [places \in SUBSET (DOMAIN s) |->
        IF places = {} THEN [line |-> <<>>, facts |-> facts]
        ELSE ScanSymbol(g[Under(places)], s[Max(places)])]

\* A scan is what a function that scans gives for all places.
LEMMA ScanIsFolds ==
  ASSUME NEW facts, NEW s, \E g : Folds(g, facts, s)
  PROVE  \E g : Folds(g, facts, s) /\ Scan(facts, s) = g[DOMAIN s].facts
<1> DEFINE iter == CHOOSE g : Folds(g, facts, s)
<1>1. Folds(iter, facts, s)
  OBVIOUS
<1>2. Scan(facts, s) = iter[DOMAIN s].facts
  BY DEF Scan, Folds, Under, FoldLeft, MapThenFoldSet
<1> QED
  BY <1>1, <1>2

\* There is a function that scans at every set of places: the recursion of the
\* fold is over ever smaller sets.
LEMMA FoldsExists ==
  ASSUME NEW facts, NEW s, NEW n \in Nat, DOMAIN s = 1 .. n
  PROVE  \E g : Folds(g, facts, s)
<1> DEFINE D == DOMAIN s
           base == [line |-> <<>>, facts |-> facts]
           UpToSize(k) == {t \in SUBSET D : Cardinality(t) <= k}
           FoldsTo(k, g) == \A t \in UpToSize(k) :
                             g[t] = IF t = {} THEN base ELSE ScanSymbol(g[Under(t)], s[Max(t)])
           N == {k \in Nat : \E g : FoldsTo(k, g)}
<1>0. \A t \in SUBSET D : IsFiniteSet(t) /\ Cardinality(t) \in Nat
  <2>1. IsFiniteSet(1 .. n)
    BY FS_Interval
  <2> QED
    BY <2>1, FS_Subset, FS_CardinalityType
<1>00. \A t \in SUBSET D : t # {} => Max(t) \in t /\ Under(t) \in SUBSET D
  <2> SUFFICES ASSUME NEW t \in SUBSET D, t # {} PROVE Max(t) \in t /\ Under(t) \in SUBSET D
    OBVIOUS
  <2>1. t \in SUBSET Nat
    OBVIOUS
  <2>2. Max(t) \in t
    BY <1>0, <2>1, MaxIs
  <2> QED
    BY <2>2 DEF Under
<1>1. 0 \in N
  <2>1. \A t \in UpToSize(0) : t = {}
    BY <1>0, FS_EmptySet
  <2>2. FoldsTo(0, [t \in SUBSET D |-> base])
    BY <2>1
  <2> QED
    BY <2>2
<1>2. ASSUME NEW k \in N PROVE k + 1 \in N
  <2>1. k \in Nat /\ k + 1 \in Nat
    OBVIOUS
  <2>2. PICK g : FoldsTo(k, g)
    OBVIOUS
  <2> DEFINE h == [t \in SUBSET D |->
                    IF Cardinality(t) <= k THEN g[t] ELSE ScanSymbol(g[Under(t)], s[Max(t)])]
  <2> HIDE DEF base
  <2>3. ASSUME NEW t \in UpToSize(k + 1)
        PROVE  h[t] = IF t = {} THEN base ELSE ScanSymbol(h[Under(t)], s[Max(t)])
    <3>1. CASE t = {}
      <4>1. t \in UpToSize(k) /\ Cardinality(t) <= k
        BY <2>1, <3>1, FS_EmptySet
      <4>2. g[t] = base
        BY <2>2, <3>1, <4>1
      <4> QED
        BY <3>1, <4>1, <4>2
    <3>2. CASE t # {}
      <4>1. Max(t) \in t
        BY <1>00, <3>2
      <4>2. /\ Under(t) \in SUBSET D
            /\ Cardinality(Under(t)) = Cardinality(t) - 1
            /\ Cardinality(t) \in Nat
        BY <1>0, <4>1, FS_RemoveElement DEF Under
      <4>3. Cardinality(Under(t)) <= k
        BY <2>1, <4>2
      <4>4. h[Under(t)] = g[Under(t)]
        BY <4>2, <4>3
      <4>5. h[t] = ScanSymbol(g[Under(t)], s[Max(t)])
        <5>1. CASE Cardinality(t) <= k
          BY <2>2, <3>2, <5>1
        <5>2. CASE ~(Cardinality(t) <= k)
          BY <5>2
        <5> QED
          BY <5>1, <5>2
      <4> QED
        BY <3>2, <4>4, <4>5
    <3> QED
      BY <3>1, <3>2
  <2>4. FoldsTo(k + 1, h)
    BY <2>3
  <2> HIDE DEF FoldsTo
  <2> QED
    BY <2>1, <2>4
<1>3. N = Nat
  <2>1. N \in SUBSET Nat
    OBVIOUS
  <2> HIDE DEF N
  <2> QED
    BY <1>1, <1>2, <2>1, InductiveSet
<1>4. PICK g : FoldsTo(Cardinality(D), g)
  <2>1. Cardinality(D) \in N
    <3> HIDE DEF N
    <3> QED
      BY <1>0, <1>3
  <2> QED
    BY <2>1
<1>5. \A t \in SUBSET D : t \in UpToSize(Cardinality(D))
  BY <1>0, FS_Subset
<1> DEFINE h == [t \in SUBSET D |-> g[t]]
<1>7. \A t \in SUBSET D : h[t] = IF t = {} THEN base ELSE ScanSymbol(h[Under(t)], s[Max(t)])
  BY <1>00, <1>4, <1>5
<1>8. Folds(h, facts, s)
  <2> HIDE DEF h
  <2>1. h = [t \in SUBSET D |-> h[t]]
    BY DEF h
  <2> QED
    BY <1>7, <2>1 DEF Folds
<1> QED
  BY <1>8

\* w goes along s, symbol by symbol.
Walks(w, facts, s) ==
  /\ w[0] = [line |-> <<>>, facts |-> facts]
  /\ \A k \in 1 .. Len(s) : w[k] = ScanSymbol(w[k - 1], s[k])

\* A scan is a walk, and its facts are those at the end.
LEMMA ScanIsWalk ==
  ASSUME NEW V, NEW s \in Seq(V), NEW facts
  PROVE  \E w : Walks(w, facts, s) /\ Scan(facts, s) = w[Len(s)].facts
<1>0. Len(s) \in Nat /\ DOMAIN s = 1 .. Len(s)
  OBVIOUS
<1>1. PICK g : Folds(g, facts, s) /\ Scan(facts, s) = g[DOMAIN s].facts
  BY <1>0, FoldsExists, ScanIsFolds
<1> DEFINE w == [k \in 0 .. Len(s) |-> g[1 .. k]]
<1>2. w[0] = [line |-> <<>>, facts |-> facts]
  <2>1. 1 .. 0 = {}
    OBVIOUS
  <2>2. g[{}] = [line |-> <<>>, facts |-> facts]
    BY <1>1 DEF Folds
  <2> QED
    BY <1>0, <2>1, <2>2
<1>3. ASSUME NEW k \in 1 .. Len(s) PROVE w[k] = ScanSymbol(w[k - 1], s[k])
  <2>1. 1 .. k \in SUBSET (DOMAIN s) /\ 1 .. k # {} /\ 1 .. k \in SUBSET Nat
    <3>1. \A i \in 1 .. k : i \in 1 .. Len(s) /\ i \in Nat
      BY <1>0
    <3>2. 1 .. k # {}
      <4>1. k \in 1 .. k
        BY <1>0
      <4> QED
        BY <4>1
    <3> QED
      BY <1>0, <3>1, <3>2
  <2>2. IsFiniteSet(1 .. k)
    <3>1. 1 \in Int /\ k \in Int
      OBVIOUS
    <3> QED
      BY <3>1, FS_Interval
  <2>3. Max(1 .. k) \in 1 .. k /\ \A x \in 1 .. k : x <= Max(1 .. k)
    BY <2>1, <2>2, MaxIs
  <2>4. Max(1 .. k) = k /\ Under(1 .. k) = 1 .. k - 1
    BY <1>0, <2>3 DEF Under
  <2>5. g[1 .. k] = ScanSymbol(g[Under(1 .. k)], s[Max(1 .. k)])
    BY <1>1, <2>1 DEF Folds
  <2>6. w[k] = g[1 .. k] /\ w[k - 1] = g[1 .. k - 1]
    <3>1. k \in 0 .. Len(s) /\ k - 1 \in 0 .. Len(s)
      BY <1>0
    <3> QED
      BY <3>1
  <2> QED
    BY <2>4, <2>5, <2>6
<1>4. Scan(facts, s) = w[Len(s)].facts
  BY <1>0, <1>1
<1> QED
  BY <1>2, <1>3, <1>4 DEF Walks

-----------------------------------------------------------------------------
(* The text is whole lines. *)

\* How many parts a line may have.
LEMMA PartsNumbers ==
  /\ MaxPartialLine \in Nat /\ MaxPartialLine >= 1
  /\ \A k \in Kinds : Parts(k) \in Nat /\ Parts(k) >= 2 /\ Parts(k) <= MaxPartialLine + 2
  BY StreamTapAssumption DEF Parts, Kinds

\* The newline is no part of a line, and the parts of lines are symbols.
LEMMA SymbolFacts ==
  /\ NL \in Symbols /\ NL.part = 0 /\ NL.kind = "nl" /\ "nl" \notin Kinds
  /\ \A x \in Symbols \ {NL} : x.kind \in Kinds /\ x.part \in Nat /\ x.part >= 1
                               /\ x = [kind |-> x.kind, part |-> x.part]
  /\ \A k \in Kinds : \A i \in 1 .. Parts(k) :
       [kind |-> k, part |-> i] \in Symbols /\ [kind |-> k, part |-> i] # NL
<1>1. "nl" \notin Kinds
  BY DEF Kinds
<1>2. \A k \in Kinds : \A i \in 1 .. Parts(k) :
        [kind |-> k, part |-> i] \in Symbols /\ [kind |-> k, part |-> i] # NL
  <2> SUFFICES ASSUME NEW k \in Kinds, NEW i \in 1 .. Parts(k)
               PROVE  [kind |-> k, part |-> i] \in Symbols /\ [kind |-> k, part |-> i] # NL
    OBVIOUS
  <2>1. i \in 1 .. MaxPartialLine + 2
    BY PartsNumbers
  <2>2. [kind |-> k, part |-> i] \in Symbols
    BY <2>1 DEF Symbols
  <2>3. [kind |-> k, part |-> i] # NL
    BY DEF NL
  <2> QED
    BY <2>2, <2>3
<1>3. \A x \in Symbols \ {NL} : x.kind \in Kinds /\ x.part \in Nat /\ x.part >= 1
                                /\ x = [kind |-> x.kind, part |-> x.part]
  BY PartsNumbers DEF Symbols
<1>4. NL \in Symbols /\ NL.part = 0 /\ NL.kind = "nl"
  BY DEF Symbols, NL
<1> QED
  BY <1>1, <1>2, <1>3, <1>4

\* A line with its newline is a text of its own.
LEMMA LineIsWhole ==
  ASSUME NEW k \in Kinds
  PROVE  WholeLines(Append(Line(k), NL))
<1> DEFINE n == Parts(k)
           t == Append(Line(k), NL)
<1>0. n \in Nat /\ n >= 2
  BY PartsNumbers
<1>1. Line(k) \in Seq(Symbols) /\ Len(Line(k)) = n
      /\ \A i \in 1 .. n : Line(k)[i] = [kind |-> k, part |-> i]
  <2>1. Line(k) = [i \in 1 .. n |-> [kind |-> k, part |-> i]]
    BY DEF Line
  <2>2. \A i \in 1 .. n : [kind |-> k, part |-> i] \in Symbols
    BY SymbolFacts
  <2> HIDE DEF n
  <2> QED
    BY <1>0, <2>1, <2>2
<1> HIDE DEF n
<1>2. t \in Seq(Symbols) /\ Len(t) = n + 1 /\ t[n + 1] = NL
      /\ \A i \in 1 .. n : t[i] = [kind |-> k, part |-> i]
  BY <1>0, <1>1, SymbolFacts
<1> HIDE DEF t
<1>3. \A i \in 1 .. n : t[i] # NL /\ t[i].kind = k /\ t[i].part = i
  <2> SUFFICES ASSUME NEW i \in 1 .. n PROVE t[i] # NL /\ t[i].kind = k /\ t[i].part = i
    OBVIOUS
  <2>1. t[i] = [kind |-> k, part |-> i]
    BY <1>2
  <2>2. [kind |-> k, part |-> i] # NL
    BY SymbolFacts DEF n
  <2> QED
    BY <2>1, <2>2
<1>4. ASSUME NEW i \in 1 .. Len(t) - 1 PROVE Follows(t[i], t[i + 1])
  <2>1. i \in 1 .. n
    BY <1>0, <1>2
  <2>2. CASE i = n
    BY <1>0, <1>2, <1>3, <2>2 DEF Follows, n
  <2>3. CASE i # n
    <3>1. i + 1 \in 1 .. n
      BY <1>0, <2>1, <2>3
    <3> QED
      BY <1>0, <1>2, <1>3, <2>1, <2>3, <3>1 DEF Follows, n
  <2> QED
    BY <2>2, <2>3
<1>5. t # <<>> /\ t[1] # NL /\ t[1].part = 1 /\ t[Len(t)] = NL
  BY <1>0, <1>2, <1>3
<1>6. WholeLines(t)
  BY <1>2, <1>4, <1>5 DEF WholeLines
<1> QED
  BY <1>6 DEF t

\* Lines behind lines are lines.
LEMMA WholeAppends ==
  ASSUME NEW s, NEW t, WholeLines(s), WholeLines(t)
  PROVE  WholeLines(s \o t)
<1> DEFINE u == s \o t
<1>0. s \in Seq(Symbols) /\ t \in Seq(Symbols) /\ Len(s) \in Nat \ {0} /\ Len(t) \in Nat \ {0}
  BY DEF WholeLines
<1>1. /\ u \in Seq(Symbols) /\ Len(u) = Len(s) + Len(t)
      /\ \A i \in 1 .. Len(s) : u[i] = s[i]
      /\ \A i \in 1 .. Len(t) : u[Len(s) + i] = t[i]
  BY <1>0
<1> HIDE DEF u
<1>2. ASSUME NEW i \in 1 .. Len(u) - 1 PROVE Follows(u[i], u[i + 1])
  <2>1. CASE i < Len(s)
    <3>1. i \in 1 .. Len(s) - 1 /\ u[i] = s[i] /\ u[i + 1] = s[i + 1]
      <4>1. i \in 1 .. Len(s) - 1 /\ i \in 1 .. Len(s) /\ i + 1 \in 1 .. Len(s)
        BY <1>0, <1>1, <2>1
      <4> QED
        BY <1>1, <4>1
    <3> QED
      BY <3>1 DEF WholeLines
  <2>2. CASE i = Len(s)
    <3>1. u[i] = NL /\ u[i + 1] = t[1]
      BY <1>0, <1>1, <2>2 DEF WholeLines
    <3> QED
      BY <3>1 DEF WholeLines, Follows
  <2>3. CASE i > Len(s)
    <3> DEFINE j == i - Len(s)
    <3>1. j \in 1 .. Len(t) - 1 /\ i = Len(s) + j /\ i + 1 = Len(s) + (j + 1)
      BY <1>0, <1>1, <2>3
    <3>2. u[i] = t[j] /\ u[i + 1] = t[j + 1]
      <4>1. j \in 1 .. Len(t) /\ j + 1 \in 1 .. Len(t)
        BY <1>0, <3>1
      <4>2. u[Len(s) + j] = t[j] /\ u[Len(s) + (j + 1)] = t[j + 1]
        BY <1>1, <4>1
      <4> QED
        BY <3>1, <4>2
    <3> QED
      BY <3>1, <3>2 DEF WholeLines
  <2> QED
    BY <1>0, <2>1, <2>2, <2>3
<1>3. u # <<>> /\ u[1] = s[1] /\ u[Len(u)] = t[Len(t)]
  BY <1>0, <1>1
<1>4. WholeLines(u)
  BY <1>1, <1>2, <1>3 DEF WholeLines
<1> QED
  BY <1>4 DEF u

\* g holds the first lines of seqs, one after the other.
Flattens(g, seqs) ==
  g = [i \in 1 .. Len(seqs) |-> IF i = 1 THEN seqs[i] ELSE g[i - 1] \o seqs[i]]

\* There is a function that holds the first lines, for any number of lines.
LEMMA FlattensExists ==
  ASSUME NEW V, NEW seqs \in Seq(V)
  PROVE  \E g : Flattens(g, seqs)
<1> DEFINE n == Len(seqs)
           Fits(k, g) == \A i \in 1 .. k : i <= n => g[i] = IF i = 1 THEN seqs[i] ELSE g[i - 1] \o seqs[i]
           N == {k \in Nat : \E g : Fits(k, g)}
<1>0. n \in Nat
  OBVIOUS
<1>1. 0 \in N
  <2>1. Fits(0, <<>>)
    OBVIOUS
  <2> QED
    BY <2>1
<1>2. ASSUME NEW k \in N PROVE k + 1 \in N
  <2>0. k \in Nat /\ k + 1 \in Nat
    OBVIOUS
  <2>1. PICK g : Fits(k, g)
    OBVIOUS
  <2> DEFINE h == [i \in 1 .. k + 1 |->
                    IF i <= k THEN g[i] ELSE IF i = 1 THEN seqs[i] ELSE g[i - 1] \o seqs[i]]
  <2>2. ASSUME NEW i \in 1 .. k + 1, i <= n
        PROVE  h[i] = IF i = 1 THEN seqs[i] ELSE h[i - 1] \o seqs[i]
    <3>1. CASE i = 1
      BY <2>0, <2>1, <2>2, <3>1
    <3>2. CASE i # 1
      <4>1. i - 1 \in 1 .. k + 1 /\ i - 1 <= k
        BY <2>0, <3>2
      <4>2. h[i - 1] = g[i - 1]
        BY <4>1
      <4>3. h[i] = g[i - 1] \o seqs[i]
        <5>1. CASE i <= k
          <6>1. i \in 1 .. k /\ h[i] = g[i]
            BY <2>0, <5>1
          <6>2. g[i] = g[i - 1] \o seqs[i]
            BY <2>1, <2>2, <3>2, <6>1
          <6> QED
            BY <6>1, <6>2
        <5>2. CASE ~(i <= k)
          BY <3>2, <5>2
        <5> QED
          BY <5>1, <5>2
      <4> QED
        BY <3>2, <4>2, <4>3
    <3> QED
      BY <3>1, <3>2
  <2> HIDE DEF h
  <2>3. Fits(k + 1, h)
    BY <2>2
  <2> HIDE DEF Fits
  <2> QED
    BY <2>0, <2>3
<1>3. N = Nat
  <2>1. N \in SUBSET Nat
    OBVIOUS
  <2> HIDE DEF N
  <2> QED
    BY <1>1, <1>2, <2>1, InductiveSet
<1>4. PICK g : Fits(n, g)
  <2>1. n \in N
    <3> HIDE DEF N
    <3> QED
      BY <1>0, <1>3
  <2> QED
    BY <2>1
<1> DEFINE h == [i \in 1 .. n |-> g[i]]
<1>5. ASSUME NEW i \in 1 .. n PROVE h[i] = IF i = 1 THEN seqs[i] ELSE h[i - 1] \o seqs[i]
  <2>1. i # 1 => i - 1 \in 1 .. n
    BY <1>0
  <2> QED
    BY <1>0, <1>4, <2>1
<1>6. Flattens(h, seqs)
  <2> HIDE DEF h
  <2>1. h = [i \in 1 .. n |-> h[i]]
    BY DEF h
  <2> QED
    BY <1>5, <2>1 DEF Flattens
<1> QED
  BY <1>6

\* A text of at least one line is whole lines.
LEMMA TextIsWhole ==
  ASSUME NEW kinds \in Scripts
  PROVE  WholeLines(Text(kinds))
<1> DEFINE seqs == [i \in DOMAIN kinds |-> Append(Line(kinds[i]), NL)]
<1>0. PICK n \in 1 .. MaxLines : kinds \in [1 .. n -> Kinds]
  BY DEF Scripts
<1>1. n \in Nat /\ n >= 1
  BY StreamTapAssumption
<1>2. seqs \in Seq({x : x \in {seqs[i] : i \in 1 .. n}}) /\ Len(seqs) = n
      /\ \A i \in 1 .. n : WholeLines(seqs[i])
  <2>1. \A i \in 1 .. n : seqs[i] = Append(Line(kinds[i]), NL) /\ kinds[i] \in Kinds
    BY <1>0
  <2>2. \A i \in 1 .. n : WholeLines(seqs[i])
    BY <2>1, LineIsWhole
  <2>3. DOMAIN seqs = 1 .. n
    BY <1>0
  <2>4. seqs \in [1 .. n -> {x : x \in {seqs[i] : i \in 1 .. n}}]
    BY <1>0, <2>3
  <2> HIDE DEF seqs
  <2> QED
    BY <1>1, <2>2, <2>3, <2>4
<1> HIDE DEF seqs
<1> DEFINE iter == CHOOSE g : Flattens(g, seqs)
<1>3. Flattens(iter, seqs)
  BY <1>2, FlattensExists
<1>4. Text(kinds) = iter[n]
  <2>1. Text(kinds) = FlattenSeq(seqs)
    BY DEF Text, seqs
  <2>2. FlattenSeq(seqs) = iter[Len(seqs)]
    BY <1>1, <1>2 DEF FlattenSeq, Flattens
  <2> QED
    BY <1>2, <2>1, <2>2
<1> HIDE DEF iter
<1>5. \A i \in 1 .. n : iter[i] = IF i = 1 THEN seqs[i] ELSE iter[i - 1] \o seqs[i]
  BY <1>2, <1>3 DEF Flattens
<1> DEFINE S == {k \in Nat : k + 1 <= n => WholeLines(iter[k + 1])}
<1>6. 0 \in S
  <2>1. 1 \in 1 .. n
    BY <1>1
  <2>2. iter[1] = seqs[1]
    BY <1>5, <2>1
  <2> QED
    BY <1>2, <2>1, <2>2
<1>7. ASSUME NEW k \in S PROVE k + 1 \in S
  <2> SUFFICES ASSUME (k + 1) + 1 <= n PROVE WholeLines(iter[(k + 1) + 1])
    OBVIOUS
  <2>0. k \in Nat /\ (k + 1) + 1 \in 1 .. n /\ (k + 1) + 1 # 1 /\ (k + 1) + 1 - 1 = k + 1
    BY <1>1
  <2>1. WholeLines(iter[k + 1])
    BY <1>1, <2>0
  <2>2. iter[(k + 1) + 1] = iter[k + 1] \o seqs[(k + 1) + 1]
    <3> DEFINE j == (k + 1) + 1
    <3>1. j \in 1 .. n /\ j # 1 /\ j - 1 = k + 1
      BY <2>0
    <3>2. iter[j] = iter[j - 1] \o seqs[j]
      <4> HIDE DEF j
      <4> QED
        BY <1>5, <3>1
    <3> QED
      BY <3>1, <3>2
  <2>3. WholeLines(seqs[(k + 1) + 1])
    BY <1>2, <2>0
  <2> QED
    BY <2>1, <2>2, <2>3, WholeAppends
<1>8. S = Nat
  <2>1. S \in SUBSET Nat
    OBVIOUS
  <2> HIDE DEF S
  <2> QED
    BY <1>6, <1>7, <2>1, InductiveSet
<1>9. n - 1 \in S
  <2> HIDE DEF S
  <2> QED
    BY <1>1, <1>8
<1>10. WholeLines(iter[n])
  <2>1. (n - 1) + 1 = n
    BY <1>1
  <2> QED
    BY <1>1, <1>9, <2>1
<1> QED
  BY <1>4, <1>10

-----------------------------------------------------------------------------
(* The lines of a text, and the facts of them. *)

\* Lines that ended can be counted.
LEMMA LinesToType ==
  ASSUME NEW t, NEW kinds, NEW p \in Nat
  PROVE  /\ LinesTo(t, kinds, p) \in SUBSET Nat
         /\ IsFiniteSet(LinesTo(t, kinds, p))
         /\ Cardinality(LinesTo(t, kinds, p)) \in Nat
<1>1. 2 \in Int /\ p \in Int
  OBVIOUS
<1>2. IsFiniteSet(2 .. p)
  BY <1>1, FS_Interval
<1>3. LinesTo(t, kinds, p) \in SUBSET (2 .. p)
  BY DEF LinesTo
<1>4. LinesTo(t, kinds, p) \in SUBSET Nat
  BY <1>3
<1>5. IsFiniteSet(LinesTo(t, kinds, p))
  BY <1>2, <1>3, FS_Subset
<1> QED
  BY <1>4, <1>5, FS_CardinalityType

\* More text has no fewer lines.
LEMMA LinesToGrows ==
  ASSUME NEW t, NEW kinds, NEW p \in Nat, NEW q \in Nat, p <= q
  PROVE  /\ LinesTo(t, kinds, p) \subseteq LinesTo(t, kinds, q)
         /\ Cardinality(LinesTo(t, kinds, p)) <= Cardinality(LinesTo(t, kinds, q))
<1>1. LinesTo(t, kinds, p) \subseteq LinesTo(t, kinds, q)
  BY DEF LinesTo
<1>2. IsFiniteSet(LinesTo(t, kinds, q))
  BY LinesToType
<1> QED
  BY <1>1, <1>2, FS_Subset

\* A line that ends behind the place p is one more.
LEMMA LineBehind ==
  ASSUME NEW t, NEW kinds, NEW p \in Nat, NEW q \in Nat, p <= q,
         NEW i \in LinesTo(t, kinds, q), i > p
  PROVE  Cardinality(LinesTo(t, kinds, p)) + 1 <= Cardinality(LinesTo(t, kinds, q))
<1> DEFINE A == LinesTo(t, kinds, p)
           B == LinesTo(t, kinds, q)
<1>1. IsFiniteSet(A) /\ IsFiniteSet(B) /\ Cardinality(A) \in Nat /\ Cardinality(B) \in Nat
  BY LinesToType
<1>2. A \subseteq B \ {i}
  BY DEF LinesTo
<1>3. i \in B
  OBVIOUS
<1> HIDE DEF A, B
<1>4. IsFiniteSet(B \ {i}) /\ Cardinality(B \ {i}) = Cardinality(B) - 1
  BY <1>1, <1>3, FS_RemoveElement
<1>5. Cardinality(A) <= Cardinality(B \ {i})
  BY <1>2, <1>4, FS_Subset
<1>6. Cardinality(A) + 1 <= Cardinality(B)
  BY <1>1, <1>4, <1>5
<1> QED
  BY <1>6 DEF A, B

\* A newline ends a line of the kind of the symbol before it.
LEMMA LineEnds ==
  ASSUME NEW t, NEW kinds, NEW p \in Nat, p >= 1, t[p + 1] = NL
  PROVE  /\ t[p].kind \in kinds =>
              /\ LinesTo(t, kinds, p + 1) = LinesTo(t, kinds, p) \cup {p + 1}
              /\ Cardinality(LinesTo(t, kinds, p + 1)) = Cardinality(LinesTo(t, kinds, p)) + 1
         /\ t[p].kind \notin kinds => LinesTo(t, kinds, p + 1) = LinesTo(t, kinds, p)
<1>0. \A i \in 2 .. p + 1 : i \in 2 .. p \/ i = p + 1
  OBVIOUS
<1>00. p + 1 \in 2 .. p + 1 /\ (p + 1) - 1 = p /\ \A i \in 2 .. p : i \in 2 .. p + 1
  OBVIOUS
<1>1. ASSUME t[p].kind \in kinds
      PROVE  /\ LinesTo(t, kinds, p + 1) = LinesTo(t, kinds, p) \cup {p + 1}
             /\ Cardinality(LinesTo(t, kinds, p + 1)) = Cardinality(LinesTo(t, kinds, p)) + 1
  <2>1. LinesTo(t, kinds, p + 1) = LinesTo(t, kinds, p) \cup {p + 1}
    BY <1>0, <1>00, <1>1 DEF LinesTo
  <2>2. p + 1 \notin LinesTo(t, kinds, p)
    BY DEF LinesTo
  <2>3. IsFiniteSet(LinesTo(t, kinds, p))
    BY LinesToType
  <2> QED
    BY <2>1, <2>2, <2>3, FS_AddElement
<1>2. ASSUME t[p].kind \notin kinds
      PROVE  LinesTo(t, kinds, p + 1) = LinesTo(t, kinds, p)
  BY <1>0, <1>00, <1>2 DEF LinesTo
<1> QED
  BY <1>1, <1>2

\* Without a newline there is no new line.
LEMMA NoLineEnds ==
  ASSUME NEW t, NEW kinds, NEW p \in Nat, t[p + 1] # NL
  PROVE  LinesTo(t, kinds, p + 1) = LinesTo(t, kinds, p)
<1>0. \A i \in 2 .. p + 1 : i \in 2 .. p \/ i = p + 1
  OBVIOUS
<1>1. \A i \in 2 .. p : i \in 2 .. p + 1
  OBVIOUS
<1> QED
  BY <1>0, <1>1 DEF LinesTo

\* The keys of calls can be counted, and grow as the tap adds them.
LEMMA KeysOfType ==
  ASSUME NEW n \in Nat, NEW b \in BOOLEAN
  PROVE  /\ KeysOf(n, b) \in SUBSET ({"anon", "index"} \X Nat)
         /\ IsFiniteSet(KeysOf(n, b))
         /\ Cardinality(KeysOf(n, b)) = n + (IF b THEN 1 ELSE 0)
         /\ KeysOf(n, b) \cup {<<"anon", n>>} = KeysOf(n + 1, b)
         /\ KeysOf(n, b) \cup {<<"index", 0>>} = KeysOf(n, TRUE)
<1> DEFINE A == {<<"anon", i>> : i \in 0 .. n - 1}
<1>1. 0 \in Int /\ n - 1 \in Int
  OBVIOUS
<1>2. IsFiniteSet(0 .. n - 1) /\ Cardinality(0 .. n - 1) = n
  <2>1. IsFiniteSet(0 .. n - 1) /\ Cardinality(0 .. n - 1) = IF 0 > n - 1 THEN 0 ELSE (n - 1) - 0 + 1
    BY <1>1, FS_Interval, Zenon
  <2> QED
    BY <2>1
<1>3. IsFiniteSet(A) /\ Cardinality(A) = n
  <2> DEFINE f == [i \in 0 .. n - 1 |-> <<"anon", i>>]
  <2>1. f \in Bijection(0 .. n - 1, A)
    <3>1. f \in [0 .. n - 1 -> A]
      OBVIOUS
    <3>2. \A i, j \in 0 .. n - 1 : f[i] = f[j] => i = j
      OBVIOUS
    <3>3. \A y \in A : \E i \in 0 .. n - 1 : f[i] = y
      OBVIOUS
    <3> HIDE DEF f, A
    <3>4. f \in Injection(0 .. n - 1, A) /\ f \in Surjection(0 .. n - 1, A)
      BY <3>1, <3>2, <3>3 DEF Injection, IsInjective, Surjection
    <3> QED
      BY <3>4 DEF Bijection
  <2> HIDE DEF f, A
  <2>2. ExistsBijection(0 .. n - 1, A)
    BY <2>1 DEF ExistsBijection
  <2> QED
    BY <1>2, <2>2, FS_Bijection
<1>4. <<"index", 0>> \notin A
  OBVIOUS
<1>5. KeysOf(n, FALSE) = A /\ KeysOf(n, TRUE) = A \cup {<<"index", 0>>}
  BY DEF KeysOf
<1>6. IsFiniteSet(KeysOf(n, b)) /\ Cardinality(KeysOf(n, b)) = n + (IF b THEN 1 ELSE 0)
  <2> HIDE DEF A
  <2>1. CASE b = TRUE
    <3>1. KeysOf(n, b) = A \cup {<<"index", 0>>}
      BY <1>5, <2>1, Zenon
    <3>2. IsFiniteSet(A \cup {<<"index", 0>>}) /\ Cardinality(A \cup {<<"index", 0>>}) = Cardinality(A) + 1
      BY <1>3, <1>4, FS_AddElement
    <3> QED
      BY <1>3, <2>1, <3>1, <3>2
  <2>2. CASE b = FALSE
    <3>1. KeysOf(n, b) = A
      BY <1>5, <2>2, Zenon
    <3> QED
      BY <1>3, <2>2, <3>1
  <2> QED
    BY <2>1, <2>2
<1>7. KeysOf(n, b) \in SUBSET ({"anon", "index"} \X Nat)
  BY DEF KeysOf
<1>8. KeysOf(n, b) \cup {<<"anon", n>>} = KeysOf(n + 1, b)
  <2>1. 0 .. (n + 1) - 1 = (0 .. n - 1) \cup {n}
    OBVIOUS
  <2> QED
    BY <2>1 DEF KeysOf
<1>9. KeysOf(n, b) \cup {<<"index", 0>>} = KeysOf(n, TRUE)
  BY DEF KeysOf
<1> QED
  BY <1>6, <1>7, <1>8, <1>9

\* o is f and what a line of the kind k teaches, field by field.
Learns(o, f, k) ==
  /\ o \in Facts
  /\ o.content = IF k \in Contents THEN f.content + 1 ELSE f.content
  /\ o.anon = IF k = "anon" THEN f.anon + 1 ELSE f.anon
  /\ o.keys = IF k = "tool" THEN f.keys \cup {<<"index", 0>>}
              ELSE IF k = "anon" THEN f.keys \cup {<<"anon", f.anon>>} ELSE f.keys
  /\ o.finish = IF k \in Finishes THEN k ELSE f.finish
  /\ o.done = (f.done \/ k = "done")

\* A line teaches the tap what its kind says.
LEMMA Observed ==
  ASSUME NEW f \in Facts, NEW k \in Kinds
  PROVE  Learns(ObserveKind(f, k), f, k)
<1> USE DEF Contents, Finishes, Learns
<1>0. /\ f.content \in Nat /\ f.anon \in Nat /\ f.keys \in SUBSET ({"anon", "index"} \X Nat)
      /\ f.finish \in Finishes \cup {"none"} /\ f.done \in BOOLEAN
  BY DEF Facts
<1>1. CASE k \in Contents
  <2>1. ObserveKind(f, k) = [f EXCEPT !.content = f.content + 1]
    BY <1>1 DEF ObserveKind
  <2> QED
    BY <1>0, <1>1, <2>1 DEF Facts
<1>2. CASE k = "tool"
  <2>1. ObserveKind(f, k) = [f EXCEPT !.keys = f.keys \cup {<<"index", 0>>}]
    BY <1>2 DEF ObserveKind, ToolCallKey
  <2>2. f.keys \cup {<<"index", 0>>} \in SUBSET ({"anon", "index"} \X Nat)
    BY <1>0
  <2> QED
    BY <1>0, <1>2, <2>1, <2>2 DEF Facts
<1>3. CASE k = "anon"
  <2>1. ObserveKind(f, k) = [f EXCEPT !.keys = f.keys \cup {<<"anon", f.anon>>}, !.anon = f.anon + 1]
    BY <1>3 DEF ObserveKind, ToolCallKey
  <2>2. f.keys \cup {<<"anon", f.anon>>} \in SUBSET ({"anon", "index"} \X Nat)
    BY <1>0
  <2> QED
    <3> DEFINE o == [f EXCEPT !.keys = f.keys \cup {<<"anon", f.anon>>}, !.anon = f.anon + 1]
    <3>1. /\ o.content = f.content /\ o.anon = f.anon + 1 /\ o.finish = f.finish /\ o.done = f.done
          /\ o.keys = f.keys \cup {<<"anon", f.anon>>}
      BY DEF Facts
    <3>2. o \in Facts
      <4> DEFINE o1 == [f EXCEPT !.keys = f.keys \cup {<<"anon", f.anon>>}]
      <4>1. o1 \in Facts
        BY <1>0, <2>2 DEF Facts
      <4>2. o = [o1 EXCEPT !.anon = f.anon + 1]
        BY DEF Facts
      <4> HIDE DEF o1, o
      <4> QED
        BY <1>0, <4>1, <4>2 DEF Facts
    <3> HIDE DEF o
    <3>3. Learns(o, f, k)
      BY <1>0, <1>3, <3>1, <3>2
    <3> QED
      BY <2>1, <3>3 DEF o
<1>4. CASE k \in Finishes
  <2>1. ObserveKind(f, k) = [f EXCEPT !.finish = k]
    BY <1>4 DEF ObserveKind
  <2> QED
    BY <1>0, <1>4, <2>1 DEF Facts
<1>5. CASE k = "done"
  <2>1. ObserveKind(f, k) = [f EXCEPT !.done = TRUE]
    BY <1>5 DEF ObserveKind
  <2> QED
    BY <1>0, <1>5, <2>1 DEF Facts
<1> QED
  BY <1>1, <1>2, <1>3, <1>4, <1>5 DEF Kinds

\* At the end of a line, exact facts stay exact when the line is observed.
LEMMA ObserveExact ==
  ASSUME NEW t, NEW f \in Facts, NEW p \in Nat, p >= 1, t[p + 1] = NL, t[p].kind \in Kinds,
         ExactFacts(t, f, p)
  PROVE  ExactFacts(t, ObserveKind(f, t[p].kind), p + 1)
<1> DEFINE k == t[p].kind
           o == ObserveKind(f, k)
<1>0. /\ f.anon \in Nat /\ f.done \in BOOLEAN
      /\ o.content = IF k \in Contents THEN f.content + 1 ELSE f.content
      /\ o.anon = IF k = "anon" THEN f.anon + 1 ELSE f.anon
      /\ o.keys = IF k = "tool" THEN f.keys \cup {<<"index", 0>>}
                  ELSE IF k = "anon" THEN f.keys \cup {<<"anon", f.anon>>} ELSE f.keys
      /\ o.finish = IF k \in Finishes THEN k ELSE f.finish
      /\ o.done = (f.done \/ k = "done")
  <2>1. Learns(o, f, k)
    BY Observed
  <2>2. f.anon \in Nat /\ f.content \in Nat /\ f.done \in BOOLEAN
    BY DEF Facts
  <2> HIDE DEF o
  <2> QED
    BY <2>1, <2>2 DEF Learns
<1>1. \A kinds : /\ k \in kinds =>
                      /\ LinesTo(t, kinds, p + 1) = LinesTo(t, kinds, p) \cup {p + 1}
                      /\ Cardinality(LinesTo(t, kinds, p + 1)) = Cardinality(LinesTo(t, kinds, p)) + 1
                 /\ k \notin kinds => LinesTo(t, kinds, p + 1) = LinesTo(t, kinds, p)
  BY LineEnds
<1> HIDE DEF o
<1>2. o.content = Cardinality(LinesTo(t, Contents, p + 1))
  BY <1>0, <1>1 DEF ExactFacts
<1>3. o.anon = Cardinality(LinesTo(t, {"anon"}, p + 1))
  <2>1. k = "anon" <=> k \in {"anon"}
    OBVIOUS
  <2> HIDE DEF k
  <2> QED
    BY <1>0, <1>1, <2>1 DEF ExactFacts
<1>4. o.keys = KeysOf(o.anon, LinesTo(t, {"tool"}, p + 1) # {})
  <2> DEFINE b == LinesTo(t, {"tool"}, p) # {}
             c == LinesTo(t, {"tool"}, p + 1) # {}
  <2>0. b \in BOOLEAN /\ c \in BOOLEAN /\ f.keys = KeysOf(f.anon, b)
    BY DEF ExactFacts
  <2>1. CASE k = "tool"
    <3>1. k \in {"tool"}
      BY <2>1
    <3>2. LinesTo(t, {"tool"}, p + 1) # {}
      BY <1>1, <3>1
    <3>3. c = TRUE
      BY <3>2
    <3> HIDE DEF b, c
    <3>4. KeysOf(f.anon, b) \cup {<<"index", 0>>} = KeysOf(f.anon, TRUE)
      BY <1>0, <2>0, KeysOfType
    <3>5. o.keys = KeysOf(o.anon, c)
      BY <1>0, <2>0, <2>1, <3>3, <3>4
    <3> QED
      BY <3>5 DEF c
  <2>2. CASE k # "tool"
    <3>1. k \notin {"tool"}
      BY <2>2
    <3>2. c = b
      BY <1>1, <3>1
    <3> HIDE DEF b, c
    <3>3. KeysOf(f.anon, b) \cup {<<"anon", f.anon>>} = KeysOf(f.anon + 1, b)
      BY <1>0, <2>0, KeysOfType
    <3>4. o.keys = KeysOf(o.anon, c)
      BY <1>0, <2>0, <2>2, <3>2, <3>3
    <3> QED
      BY <3>4 DEF c
  <2> QED
    BY <2>1, <2>2
<1>5. o.finish = IF LinesTo(t, Finishes, p + 1) = {} THEN "none"
                 ELSE t[Max(LinesTo(t, Finishes, p + 1)) - 1].kind
  <2> DEFINE L == LinesTo(t, Finishes, p + 1)
  <2>1. CASE k \in Finishes
    <3>1. L = LinesTo(t, Finishes, p) \cup {p + 1}
      BY <1>1, <2>1
    <3>2. \A i \in L : i <= p + 1
      BY <3>1 DEF LinesTo
    <3>3. L \in SUBSET Nat /\ IsFiniteSet(L) /\ L # {} /\ p + 1 \in L
      BY <3>1, LinesToType
    <3> HIDE DEF L
    <3>4. Max(L) \in L /\ \A x \in L : x <= Max(L)
      BY <3>3, MaxIs
    <3>5. Max(L) \in Nat /\ Max(L) <= p + 1 /\ p + 1 <= Max(L)
      BY <3>2, <3>3, <3>4
    <3>6. Max(L) - 1 = p
      BY <3>5
    <3>7. L # {}
      BY <3>3
    <3>8. o.finish = t[Max(L) - 1].kind
      BY <1>0, <2>1, <3>6
    <3> QED
      BY <3>7, <3>8 DEF L
  <2>2. CASE k \notin Finishes
    BY <1>0, <1>1, <2>2 DEF ExactFacts
  <2> QED
    BY <2>1, <2>2
<1>6. o.done = (LinesTo(t, {"done"}, p + 1) # {})
  <2>1. CASE k = "done"
    <3>1. k \in {"done"}
      BY <2>1
    <3>2. LinesTo(t, {"done"}, p + 1) # {}
      BY <1>1, <3>1
    <3> QED
      BY <1>0, <2>1, <3>2
  <2>2. CASE k # "done"
    <3>1. k \notin {"done"}
      BY <2>2
    <3>2. LinesTo(t, {"done"}, p + 1) = LinesTo(t, {"done"}, p)
      BY <1>1, <3>1
    <3> QED
      BY <1>0, <2>2, <3>2 DEF ExactFacts
  <2> QED
    BY <2>1, <2>2
<1>7. ExactFacts(t, o, p + 1)
  BY <1>2, <1>3, <1>4, <1>5, <1>6 DEF ExactFacts
<1> QED
  BY <1>7 DEF o

\* Sound facts stay sound when more text was forwarded.
LEMMA SoundGrows ==
  ASSUME NEW t, NEW f \in Facts, NEW p \in Nat, NEW q \in Nat, p <= q, SoundFacts(t, f, p)
  PROVE  SoundFacts(t, f, q)
<1>1. f.content \in Nat /\ f.anon \in Nat
  BY DEF Facts
<1>2. \A kinds : /\ LinesTo(t, kinds, p) \subseteq LinesTo(t, kinds, q)
                 /\ Cardinality(LinesTo(t, kinds, p)) <= Cardinality(LinesTo(t, kinds, q))
                 /\ Cardinality(LinesTo(t, kinds, p)) \in Nat
                 /\ Cardinality(LinesTo(t, kinds, q)) \in Nat
  BY LinesToGrows, LinesToType
<1>3. f.content <= Cardinality(LinesTo(t, Contents, q))
  BY <1>1, <1>2 DEF SoundFacts
<1>4. f.anon <= Cardinality(LinesTo(t, {"anon"}, q))
  BY <1>1, <1>2 DEF SoundFacts
<1>5. \E indexed \in BOOLEAN :
        f.keys = KeysOf(f.anon, indexed) /\ (indexed => LinesTo(t, {"tool"}, q) # {})
  BY <1>2 DEF SoundFacts
<1>6. f.finish # "none" => LinesTo(t, {f.finish}, q) # {}
  BY <1>2 DEF SoundFacts
<1>7. f.done => LinesTo(t, {"done"}, q) # {}
  BY <1>2 DEF SoundFacts
<1> QED
  BY <1>3, <1>4, <1>5, <1>6, <1>7 DEF SoundFacts

\* Sound facts stay sound when a line is observed that ends behind them.
LEMMA ObserveSound ==
  ASSUME NEW t, NEW f \in Facts, NEW k \in Kinds, NEW p \in Nat, NEW q \in Nat, p <= q,
         SoundFacts(t, f, p), NEW i \in LinesTo(t, {k}, q), i > p
  PROVE  SoundFacts(t, ObserveKind(f, k), q)
<1> DEFINE o == ObserveKind(f, k)
<1>0. /\ f.anon \in Nat /\ f.content \in Nat /\ f.done \in BOOLEAN
      /\ o.content = IF k \in Contents THEN f.content + 1 ELSE f.content
      /\ o.anon = IF k = "anon" THEN f.anon + 1 ELSE f.anon
      /\ o.keys = IF k = "tool" THEN f.keys \cup {<<"index", 0>>}
                  ELSE IF k = "anon" THEN f.keys \cup {<<"anon", f.anon>>} ELSE f.keys
      /\ o.finish = IF k \in Finishes THEN k ELSE f.finish
      /\ o.done = (f.done \/ k = "done")
  <2>1. Learns(o, f, k)
    BY Observed
  <2>2. f.anon \in Nat /\ f.content \in Nat /\ f.done \in BOOLEAN
    BY DEF Facts
  <2> HIDE DEF o
  <2> QED
    BY <2>1, <2>2 DEF Learns
<1>1. SoundFacts(t, f, q)
  BY SoundGrows
<1>2. \A kinds : k \in kinds => i \in LinesTo(t, kinds, q)
  BY DEF LinesTo
<1>3. \A kinds : k \in kinds =>
        Cardinality(LinesTo(t, kinds, p)) + 1 <= Cardinality(LinesTo(t, kinds, q))
  BY <1>2, LineBehind
<1>4. \A kinds : Cardinality(LinesTo(t, kinds, p)) \in Nat /\ Cardinality(LinesTo(t, kinds, q)) \in Nat
  BY LinesToType
<1> HIDE DEF o
<1>5. o.content <= Cardinality(LinesTo(t, Contents, q))
  <2>1. CASE k \in Contents
    <3>1. Cardinality(LinesTo(t, Contents, p)) + 1 <= Cardinality(LinesTo(t, Contents, q))
      BY <1>3, <2>1
    <3>2. f.content <= Cardinality(LinesTo(t, Contents, p))
      BY DEF SoundFacts
    <3> QED
      BY <1>0, <1>4, <2>1, <3>1, <3>2
  <2>2. CASE k \notin Contents
    BY <1>0, <1>1, <2>2 DEF SoundFacts
  <2> QED
    BY <2>1, <2>2
<1>6. o.anon <= Cardinality(LinesTo(t, {"anon"}, q))
  <2>1. CASE k = "anon"
    <3>0. k \in {"anon"}
      BY <2>1
    <3>1. Cardinality(LinesTo(t, {"anon"}, p)) + 1 <= Cardinality(LinesTo(t, {"anon"}, q))
      BY <1>3, <3>0
    <3>2. f.anon <= Cardinality(LinesTo(t, {"anon"}, p))
      BY DEF SoundFacts
    <3> QED
      BY <1>0, <1>4, <2>1, <3>1, <3>2
  <2>2. CASE k # "anon"
    BY <1>0, <1>1, <2>2 DEF SoundFacts
  <2> QED
    BY <2>1, <2>2
<1>7. \E indexed \in BOOLEAN :
        o.keys = KeysOf(o.anon, indexed) /\ (indexed => LinesTo(t, {"tool"}, q) # {})
  <2>1. PICK b \in BOOLEAN : f.keys = KeysOf(f.anon, b) /\ (b => LinesTo(t, {"tool"}, q) # {})
    BY <1>1 DEF SoundFacts
  <2>2. /\ KeysOf(f.anon, b) \cup {<<"anon", f.anon>>} = KeysOf(f.anon + 1, b)
        /\ KeysOf(f.anon, b) \cup {<<"index", 0>>} = KeysOf(f.anon, TRUE)
    BY <1>0, KeysOfType
  <2>3. CASE k = "tool"
    <3>0. k \in {"tool"}
      BY <2>3
    <3>1. LinesTo(t, {"tool"}, q) # {}
      BY <1>2, <3>0
    <3>2. o.keys = KeysOf(o.anon, TRUE)
      BY <1>0, <2>1, <2>2, <2>3
    <3> QED
      BY <3>1, <3>2
  <2>4. CASE k # "tool"
    <3>1. o.keys = KeysOf(o.anon, b)
      BY <1>0, <2>1, <2>2, <2>4
    <3> QED
      BY <2>1, <3>1
  <2> QED
    BY <2>3, <2>4
<1>8. o.finish # "none" => LinesTo(t, {o.finish}, q) # {}
  <2>1. CASE k \in Finishes
    BY <1>0, <2>1
  <2>2. CASE k \notin Finishes
    BY <1>0, <1>1, <2>2 DEF SoundFacts
  <2> QED
    BY <2>1, <2>2
<1>9. o.done => LinesTo(t, {"done"}, q) # {}
  <2>1. CASE k = "done"
    BY <1>0, <2>1
  <2>2. CASE k # "done"
    BY <1>0, <1>1, <2>2 DEF SoundFacts
  <2> QED
    BY <2>1, <2>2
<1>10. SoundFacts(t, o, q)
  BY <1>5, <1>6, <1>7, <1>8, <1>9 DEF SoundFacts
<1> QED
  BY <1>10 DEF o

-----------------------------------------------------------------------------
(* The walk over the symbols. *)

\* Where a walk over the symbols may be: in a line, knowing facts.
Heard == [line : Seq(Symbols \ {NL}), facts : Facts]

\* What the walk has heard is of the first p symbols of t.
HeardSound(t, a, p) == a \in Heard /\ SoundLine(t, a.line, a.facts, p)

\* What the walk has heard is all of the first p symbols of t.
HeardExact(t, a, p) == a \in Heard /\ ExactLine(t, a.line, p) /\ ExactFacts(t, a.facts, p)

\* In a text, what stands before a newline is the last part of a line, and what
\* follows another last part is one.
LEMMA TextOrder ==
  ASSUME NEW t, WholeLines(t), NEW p \in Nat, p + 1 <= Len(t)
  PROVE  /\ t[p + 1] \in Symbols
         /\ p = 0 => t[p + 1] # NL /\ t[p + 1].part = 1
         /\ p >= 1 => t[p] \in Symbols /\ Follows(t[p], t[p + 1])
<1>0. t \in Seq(Symbols) /\ Len(t) \in Nat
  BY DEF WholeLines
<1>1. t[p + 1] \in Symbols
  <2>1. p + 1 \in 1 .. Len(t)
    BY <1>0
  <2> QED
    BY <1>0, <2>1
<1>2. ASSUME p = 0 PROVE t[p + 1] # NL /\ t[p + 1].part = 1
  BY <1>2 DEF WholeLines
<1>3. ASSUME p >= 1 PROVE t[p] \in Symbols /\ Follows(t[p], t[p + 1])
  <2>1. p \in 1 .. Len(t) /\ p \in 1 .. Len(t) - 1
    BY <1>0, <1>3
  <2> QED
    BY <1>0, <2>1 DEF WholeLines
<1> QED
  BY <1>1, <1>2, <1>3

\* One symbol: what is sound, or exact, before it is so after it.
LEMMA HearsSymbol ==
  ASSUME NEW t, WholeLines(t), NEW p \in Nat, p + 1 <= Len(t), t[p + 1] # NL,
         NEW a \in Heard
  PROVE  /\ ScanSymbol(a, t[p + 1]) = [line |-> Append(a.line, t[p + 1]), facts |-> a.facts]
         /\ HeardSound(t, a, p) => HeardSound(t, ScanSymbol(a, t[p + 1]), p + 1)
         /\ HeardExact(t, a, p) => HeardExact(t, ScanSymbol(a, t[p + 1]), p + 1)
<1> DEFINE c == t[p + 1]
           b == ScanSymbol(a, c)
           l == Append(a.line, c)
<1>0. /\ c \in Symbols \ {NL} /\ a.line \in Seq(Symbols \ {NL}) /\ a.facts \in Facts
      /\ Len(a.line) \in Nat
  <2>1. t[p + 1] \in Symbols
    BY TextOrder
  <2>2. a.line \in Seq(Symbols \ {NL}) /\ a.facts \in Facts
    BY DEF Heard
  <2>3. Len(a.line) \in Nat
    BY <2>2
  <2> QED
    BY <2>1, <2>2, <2>3
<1>1. b = [line |-> l, facts |-> a.facts]
  <2>1. b = [a EXCEPT !.line = Append(a.line, c)]
    BY DEF ScanSymbol
  <2>2. a = [line |-> a.line, facts |-> a.facts]
    BY DEF Heard
  <2> HIDE DEF b, c
  <2> QED
    BY <2>1, <2>2
<1>2. l \in Seq(Symbols \ {NL}) /\ l # <<>> /\ Len(l) = Len(a.line) + 1 /\ l[Len(l)] = c
      /\ \A i \in 1 .. Len(a.line) : l[i] = a.line[i]
  <2> HIDE DEF c
  <2> QED
    BY <1>0
<1>3. b \in Heard /\ b.line = l /\ b.facts = a.facts
  <2> HIDE DEF l, b
  <2> QED
    BY <1>0, <1>1, <1>2 DEF Heard
<1>4. ASSUME HeardSound(t, a, p) PROVE HeardSound(t, b, p + 1)
  <2>1. PICK m \in 0 .. p : SoundFacts(t, a.facts, m)
    BY <1>4 DEF HeardSound, SoundLine
  <2>2. m \in 0 .. p + 1 /\ p + 1 \in m + 1 .. p + 1
    OBVIOUS
  <2>3. \E j \in m + 1 .. p + 1 : t[j] = b.line[Len(b.line)]
    <3>1. b.line[Len(b.line)] = c
      BY <1>2, <1>3
    <3> HIDE DEF b
    <3> QED
      BY <2>2, <3>1
  <2> HIDE DEF b
  <2>4. SoundLine(t, b.line, b.facts, p + 1)
    BY <1>3, <2>1, <2>2, <2>3 DEF SoundLine
  <2> QED
    BY <1>3, <2>4 DEF HeardSound
<1>5. ASSUME HeardExact(t, a, p) PROVE HeardExact(t, b, p + 1)
  <2>0. ExactLine(t, a.line, p) /\ ExactFacts(t, a.facts, p)
    BY <1>5 DEF HeardExact
  <2>1. ExactFacts(t, a.facts, p + 1)
    <3>1. \A kinds : LinesTo(t, kinds, p + 1) = LinesTo(t, kinds, p)
      BY NoLineEnds
    <3> QED
      BY <2>0, <3>1 DEF ExactFacts
  <2>2. ExactLine(t, l, p + 1)
    <3>0. p + 1 > 0 /\ c # NL
      OBVIOUS
    <3>1. CASE a.line = <<>>
      <4>1. Len(l) = 1
        BY <1>2, <3>1
      <4>2. c.part = 1
        <5>1. CASE p = 0
          BY <5>1, TextOrder
        <5>2. CASE p # 0
          <6>1. t[p] = NL /\ Follows(t[p], c)
            BY <2>0, <3>1, <5>2, TextOrder DEF ExactLine
          <6> QED
            BY <6>1 DEF Follows
        <5> QED
          BY <5>1, <5>2
      <4>3. l[1] = [kind |-> c.kind, part |-> 1]
        <5>1. l[1] = c /\ c = [kind |-> c.kind, part |-> c.part]
          BY <1>0, <1>2, <4>1, SymbolFacts
        <5> QED
          BY <4>2, <5>1
      <4>4. \A i \in 1 .. Len(l) : l[i] = [kind |-> c.kind, part |-> i]
        BY <4>1, <4>3
      <4> HIDE DEF l
      <4> QED
        BY <1>2, <3>0, <4>1, <4>2, <4>4 DEF ExactLine
    <3>2. CASE a.line # <<>>
      <4>1. /\ p > 0 /\ t[p] # NL /\ t[p].part = Len(a.line)
            /\ \A i \in 1 .. Len(a.line) : a.line[i] = [kind |-> t[p].kind, part |-> i]
        BY <2>0, <3>2 DEF ExactLine
      <4>2. Follows(t[p], c)
        BY <4>1, TextOrder
      <4>3. c = [kind |-> t[p].kind, part |-> Len(a.line) + 1]
        BY <3>0, <4>1, <4>2 DEF Follows
      <4>4. c.kind = t[p].kind /\ c.part = Len(l)
        <5> HIDE DEF l, c
        <5> QED
          BY <1>2, <4>3
      <4>5. ASSUME NEW i \in 1 .. Len(l) PROVE l[i] = [kind |-> c.kind, part |-> i]
        <5> HIDE DEF l
        <5>1. CASE i = Len(l)
          BY <1>2, <4>3, <4>4, <5>1
        <5>2. CASE i # Len(l)
          <6>1. i \in 1 .. Len(a.line)
            BY <1>0, <1>2, <5>2
          <6> QED
            BY <1>2, <4>1, <4>4, <6>1
        <5> QED
          BY <5>1, <5>2
      <4> HIDE DEF l
      <4> QED
        BY <1>2, <3>0, <4>4, <4>5 DEF ExactLine
    <3> QED
      BY <3>1, <3>2
  <2> HIDE DEF b, l
  <2> QED
    BY <1>3, <2>1, <2>2 DEF HeardExact
<1> QED
  BY <1>1, <1>4, <1>5

\* A whole line is known by its first symbol.
LEMMA WholeLineKind ==
  ASSUME NEW k \in Kinds
  PROVE  /\ Line(k) \in Seq(Symbols \ {NL}) /\ Len(Line(k)) = Parts(k) /\ Line(k) # <<>>
         /\ \A i \in 1 .. Parts(k) : Line(k)[i] = [kind |-> k, part |-> i]
         /\ Line(k)[1].kind = k
         /\ \A f : ObserveLine(f, Line(k)) = ObserveKind(f, k)
<1>0. Parts(k) \in Nat /\ Parts(k) >= 2
  BY PartsNumbers
<1>1. Line(k) = [i \in 1 .. Parts(k) |-> [kind |-> k, part |-> i]]
  BY DEF Line
<1>2. \A i \in 1 .. Parts(k) : [kind |-> k, part |-> i] \in Symbols \ {NL}
  BY SymbolFacts
<1>3. Line(k) \in Seq(Symbols \ {NL}) /\ Len(Line(k)) = Parts(k) /\ Line(k) # <<>>
  BY <1>0, <1>1, <1>2
<1>4. Line(k)[1].kind = k
  BY <1>0, <1>1
<1> QED
  BY <1>1, <1>3, <1>4 DEF ObserveLine

\* Facts stay facts, whatever line is observed.
LEMMA ObserveLineType ==
  ASSUME NEW f \in Facts, NEW l
  PROVE  ObserveLine(f, l) \in Facts
<1>1. CASE \E k \in Kinds : l = Line(k)
  <2>1. PICK k \in Kinds : l = Line(k)
    BY <1>1
  <2>2. ObserveLine(f, l) = ObserveKind(f, k)
    BY <2>1, WholeLineKind
  <2>3. Learns(ObserveKind(f, k), f, k)
    BY Observed
  <2> QED
    BY <2>2, <2>3 DEF Learns
<1>2. CASE ~\E k \in Kinds : l = Line(k)
  BY <1>2 DEF ObserveLine
<1> QED
  BY <1>1, <1>2

\* One newline: what is sound, or exact, before it is so after it.
LEMMA HearsNewline ==
  ASSUME NEW t, WholeLines(t), NEW p \in Nat, p + 1 <= Len(t), t[p + 1] = NL,
         NEW a \in Heard
  PROVE  /\ HeardSound(t, a, p) => HeardSound(t, ScanSymbol(a, t[p + 1]), p + 1)
         /\ HeardExact(t, a, p) => HeardExact(t, ScanSymbol(a, t[p + 1]), p + 1)
<1> DEFINE b == ScanSymbol(a, t[p + 1])
           f == a.facts
           o == ObserveLine(f, a.line)
<1>0. f \in Facts /\ a.line \in Seq(Symbols \ {NL})
  BY DEF Heard
<1>1. b = [line |-> <<>>, facts |-> o]
  BY DEF ScanSymbol
<1>2. b \in Heard /\ b.line = <<>> /\ b.facts = o
  <2>1. o \in Facts
    BY <1>0, ObserveLineType
  <2> HIDE DEF b, o
  <2> QED
    BY <1>1, <2>1 DEF Heard
<1>3. ASSUME HeardSound(t, a, p) PROVE HeardSound(t, b, p + 1)
  <2>1. PICK m \in 0 .. p : /\ SoundFacts(t, f, m)
                            /\ a.line # <<>> => \E j \in m + 1 .. p : t[j] = a.line[Len(a.line)]
    BY <1>3 DEF HeardSound, SoundLine
  <2>2. CASE \E k \in Kinds : a.line = Line(k)
    <3>1. PICK k \in Kinds : a.line = Line(k)
      BY <2>2
    <3>2. o = ObserveKind(f, k) /\ a.line # <<>> /\ a.line[Len(a.line)] = [kind |-> k, part |-> Parts(k)]
      BY <3>1, PartsNumbers, WholeLineKind
    <3>3. PICK j \in m + 1 .. p : t[j] = [kind |-> k, part |-> Parts(k)]
      BY <2>1, <3>2
    <3>4. j \in Nat /\ j >= 1 /\ j + 1 <= Len(t) /\ j + 1 \in 2 .. p + 1 /\ j + 1 > m /\ (j + 1) - 1 = j
      <4>1. Len(t) \in Nat
        BY DEF WholeLines
      <4> QED
        BY <4>1
    <3>5. t[j + 1] = NL
      <4>1. Follows(t[j], t[j + 1])
        BY <3>4, TextOrder
      <4>2. t[j] # NL /\ t[j].part = Parts(t[j].kind)
        <5>1. Parts(k) \in 1 .. Parts(k)
          BY PartsNumbers
        <5> QED
          BY <3>3, <5>1, SymbolFacts
      <4> QED
        BY <4>1, <4>2 DEF Follows
    <3>6. j + 1 \in LinesTo(t, {k}, p + 1)
      BY <3>3, <3>4, <3>5 DEF LinesTo
    <3>7. SoundFacts(t, o, p + 1)
      <4>1. m \in Nat /\ p + 1 \in Nat /\ m <= p + 1
        OBVIOUS
      <4>2. SoundFacts(t, ObserveKind(f, k), p + 1)
        BY <1>0, <2>1, <3>4, <3>6, <4>1, ObserveSound
      <4> QED
        BY <3>2, <4>2
    <3>8. SoundLine(t, b.line, b.facts, p + 1)
      <4>1. p + 1 \in 0 .. p + 1
        OBVIOUS
      <4> HIDE DEF b, o
      <4> QED
        BY <1>2, <3>7, <4>1 DEF SoundLine
    <3> QED
      BY <1>2, <3>8 DEF HeardSound
  <2>3. CASE ~\E k \in Kinds : a.line = Line(k)
    <3>1. o = f
      BY <2>3 DEF ObserveLine
    <3>2. m \in 0 .. p + 1
      OBVIOUS
    <3>3. SoundLine(t, b.line, b.facts, p + 1)
      <4> HIDE DEF b, o
      <4> QED
        BY <1>2, <2>1, <3>1, <3>2 DEF SoundLine
    <3> QED
      BY <1>2, <3>3 DEF HeardSound
  <2> QED
    BY <2>2, <2>3
<1>4. ASSUME HeardExact(t, a, p) PROVE HeardExact(t, b, p + 1)
  <2>0. ExactLine(t, a.line, p) /\ ExactFacts(t, f, p)
    BY <1>4 DEF HeardExact
  <2>1. p >= 1 /\ t[p] # NL /\ a.line # <<>>
    <3>1. p >= 1
      BY TextOrder
    <3>2. Follows(t[p], t[p + 1])
      BY <3>1, TextOrder
    <3>3. t[p] # NL
      BY <3>2 DEF Follows
    <3> QED
      BY <2>0, <3>1, <3>3 DEF ExactLine
  <2> DEFINE k == t[p].kind
  <2>2. t[p] \in Symbols \ {NL} /\ k \in Kinds
    BY <2>1, TextOrder, SymbolFacts
  <2>3. t[p].part = Parts(k)
    <3>1. Follows(t[p], t[p + 1])
      BY <2>1, TextOrder
    <3>2. t[p + 1] # [kind |-> k, part |-> t[p].part + 1]
      <4>1. "nl" \notin Kinds /\ NL.kind = "nl"
        BY SymbolFacts
      <4> QED
        BY <2>2, <4>1
    <3> QED
      BY <2>1, <3>1, <3>2 DEF Follows
  <2>4. a.line = Line(k)
    <3>1. /\ Len(a.line) = Parts(k)
          /\ \A i \in 1 .. Len(a.line) : a.line[i] = [kind |-> k, part |-> i]
      BY <2>0, <2>1, <2>3 DEF ExactLine
    <3>2. Line(k) \in Seq(Symbols \ {NL}) /\ Len(Line(k)) = Parts(k)
          /\ \A i \in 1 .. Parts(k) : Line(k)[i] = [kind |-> k, part |-> i]
      BY <2>2, WholeLineKind
    <3> HIDE DEF k
    <3> QED
      BY <1>0, <3>1, <3>2
  <2>5. o = ObserveKind(f, k)
    BY <2>2, <2>4, WholeLineKind
  <2>6. ExactFacts(t, ObserveKind(f, k), p + 1)
    BY <1>0, <2>0, <2>1, <2>2, ObserveExact
  <2>7. ExactLine(t, <<>>, p + 1)
    BY DEF ExactLine
  <2> HIDE DEF b, o, k
  <2> QED
    BY <1>2, <2>5, <2>6, <2>7 DEF HeardExact
<1> QED
  BY <1>3, <1>4

\* One symbol of the text, newline or not.
LEMMA HearsNext ==
  ASSUME NEW t, WholeLines(t), NEW p \in Nat, p + 1 <= Len(t), NEW a \in Heard
  PROVE  /\ HeardSound(t, a, p) => HeardSound(t, ScanSymbol(a, t[p + 1]), p + 1)
         /\ HeardExact(t, a, p) => HeardExact(t, ScanSymbol(a, t[p + 1]), p + 1)
<1>1. CASE t[p + 1] = NL
  BY <1>1, HearsNewline
<1>2. CASE t[p + 1] # NL
  BY <1>2, HearsSymbol
<1> QED
  BY <1>1, <1>2

-----------------------------------------------------------------------------
(* The scan of a chunk behind a partial line.                              *)

\* The last newline of a sequence: behind it there is none.
LEMMA LastNLIs ==
  ASSUME NEW s \in Seq(Symbols)
  PROVE  /\ LastNL(s) \in 0 .. Len(s)
         /\ LastNL(s) > 0 => s[LastNL(s)] = NL
         /\ \A i \in LastNL(s) + 1 .. Len(s) : s[i] # NL
<1> DEFINE I == {i \in 1 .. Len(s) : s[i] = NL}
<1>0. Len(s) \in Nat
  OBVIOUS
<1>1. LastNL(s) = IF I # {} THEN Max(I) ELSE 0
  BY DEF LastNL, SelectLastInSubSeq
<1>2. IsFiniteSet(I) /\ I \in SUBSET Nat
  <2>1. 1 \in Int /\ Len(s) \in Int
    BY <1>0
  <2>2. IsFiniteSet(1 .. Len(s)) /\ I \in SUBSET (1 .. Len(s))
    BY <2>1, FS_Interval
  <2> QED
    BY <2>2, FS_Subset
<1>3. CASE I = {}
  BY <1>0, <1>1, <1>3
<1>4. CASE I # {}
  <2>1. Max(I) \in I /\ \A x \in I : x <= Max(I)
    BY <1>2, <1>4, MaxIs
  <2> QED
    <3> DEFINE x == Max(I)
    <3>1. LastNL(s) = x
      BY <1>1, <1>4
    <3>2. x \in 1 .. Len(s) /\ s[x] = NL
      BY <2>1
    <3>3. ASSUME NEW i \in x + 1 .. Len(s) PROVE s[i] # NL
      <4>1. i \in 1 .. Len(s) /\ ~(i <= x)
        BY <1>0, <3>2, <3>3
      <4>2. i \notin I
        BY <2>1, <4>1
      <4> QED
        BY <4>1, <4>2
    <3> HIDE DEF x, I
    <3> QED
      BY <1>0, <3>1, <3>2, <3>3
<1> QED
  BY <1>3, <1>4

\* A symbol that is no newline is appended to the line.
LEMMA ScanRecord ==
  ASSUME NEW l, NEW f, NEW c, c # NL
  PROVE  ScanSymbol([line |-> l, facts |-> f], c) = [line |-> Append(l, c), facts |-> f]
<1> DEFINE a == [line |-> l, facts |-> f]
<1>1. a.line = l
  OBVIOUS
<1>2. [a EXCEPT !.line = Append(a.line, c)] = [a EXCEPT !.line = Append(l, c)]
  BY <1>1
<1>3. [a EXCEPT !.line = Append(l, c)] = [line |-> Append(l, c), facts |-> f]
  OBVIOUS
<1> QED
  BY <1>2, <1>3 DEF ScanSymbol

\* Walking a prefix is the same walk.
LEMMA PrefixWalk ==
  ASSUME NEW s \in Seq(Symbols), NEW m \in 0 .. Len(s), NEW facts, NEW v, NEW w,
         Walks(w, facts, s), Walks(v, facts, SubSeq(s, 1, m))
  PROVE  v[m] = w[m]
<1> DEFINE S == {k \in Nat : k <= m => v[k] = w[k]}
<1>0. m \in Nat /\ Len(SubSeq(s, 1, m)) = m /\ \A k \in 1 .. m : SubSeq(s, 1, m)[k] = s[k]
  OBVIOUS
<1>1. 0 \in S
  BY DEF Walks
<1>2. ASSUME NEW k \in S PROVE k + 1 \in S
  <2> SUFFICES ASSUME k + 1 <= m PROVE v[k + 1] = w[k + 1]
    OBVIOUS
  <2>1. k \in Nat /\ k + 1 \in 1 .. m /\ k + 1 \in 1 .. Len(s) /\ (k + 1) - 1 = k
    BY <1>0
  <2>2. v[k] = w[k]
    BY <1>0, <2>1
  <2>3. v[k + 1] = ScanSymbol(v[k], SubSeq(s, 1, m)[k + 1])
    BY <1>0, <2>1 DEF Walks
  <2>4. w[k + 1] = ScanSymbol(w[k], s[k + 1])
    BY <2>1 DEF Walks
  <2> QED
    BY <1>0, <2>1, <2>2, <2>3, <2>4
<1>3. S = Nat
  <2>1. S \in SUBSET Nat
    OBVIOUS
  <2> HIDE DEF S
  <2> QED
    BY <1>1, <1>2, <2>1, InductiveSet
<1>4. m \in S
  <2> HIDE DEF S
  <2> QED
    BY <1>0, <1>3
<1> QED
  BY <1>0, <1>4

\* The walk has come to the line l and the facts f.
IsHeard(a, l, f) == a = [line |-> l, facts |-> f]

\* The fields of where the walk is.
LEMMA IsHeardFields ==
  ASSUME NEW a, NEW l, NEW f, IsHeard(a, l, f)
  PROVE  a.line = l /\ a.facts = f
BY DEF IsHeard

\* Without a newline the walk gathers the symbols and learns nothing.
LEMMA SilentWalk ==
  ASSUME NEW s \in Seq(Symbols), NEW m \in 0 .. Len(s), NEW n \in m .. Len(s), NEW facts, NEW w,
         Walks(w, facts, s), NEW f, IsHeard(w[m], <<>>, f),
         \A i \in m + 1 .. n : s[i] # NL
  PROVE  IsHeard(w[n], SubSeq(s, m + 1, n), f)
<1> DEFINE Quiet(k) == w[k] = [line |-> SubSeq(s, m + 1, k), facts |-> f]
           S == {k \in Nat : m + k <= n => Quiet(m + k)}
<1>0. m \in Nat /\ n \in Nat /\ Len(s) \in Nat /\ m <= n /\ n <= Len(s)
  OBVIOUS
<1>1. 0 \in S
  <2>1. SubSeq(s, m + 1, m) = <<>>
    BY <1>0
  <2>2. m + 0 = m
    BY <1>0
  <2>3. Quiet(m)
    BY <2>1 DEF IsHeard
  <2> HIDE DEF Quiet
  <2> QED
    BY <2>2, <2>3
<1>2. ASSUME NEW k \in S PROVE k + 1 \in S
  <2> SUFFICES ASSUME m + (k + 1) <= n PROVE Quiet(m + (k + 1))
    OBVIOUS
  <2> DEFINE i == m + k
  <2>1. i \in Nat /\ m + (k + 1) = i + 1 /\ i + 1 \in m + 1 .. n /\ i + 1 \in 1 .. Len(s) /\ (i + 1) - 1 = i
    BY <1>0
  <2>2. Quiet(i)
    <3>1. m + k <= n
      BY <1>0
    <3> QED
      BY <3>1
  <2>3. s[i + 1] # NL
    BY <2>1
  <2>4. w[i + 1] = ScanSymbol(w[i], s[i + 1])
    BY <2>1 DEF Walks
  <2>5. Append(SubSeq(s, m + 1, i), s[i + 1]) = SubSeq(s, m + 1, i + 1)
    <3> HIDE DEF i
    <3> QED
      <4> DEFINE L == Append(SubSeq(s, m + 1, i), s[i + 1])
                 R == SubSeq(s, m + 1, i + 1)
      <4>0. m + 1 \in 1 .. Len(s) + 1 /\ i \in m .. Len(s) /\ i + 1 \in m .. Len(s) /\ s[i + 1] \in Symbols
        BY <1>0, <2>1
      <4>1. SubSeq(s, m + 1, i) \in Seq(Symbols) /\ Len(SubSeq(s, m + 1, i)) = i - m
            /\ \A j \in 1 .. i - m : SubSeq(s, m + 1, i)[j] = s[m + j]
        BY <1>0, <2>1, <4>0
      <4>2. R \in Seq(Symbols) /\ Len(R) = (i + 1) - m
            /\ \A j \in 1 .. (i + 1) - m : R[j] = s[m + j]
        BY <1>0, <2>1, <4>0
      <4>3. L \in Seq(Symbols) /\ Len(L) = (i + 1) - m
            /\ (\A j \in 1 .. i - m : L[j] = s[m + j]) /\ L[(i + 1) - m] = s[i + 1]
        <5> DEFINE Q == SubSeq(s, m + 1, i)
        <5> HIDE DEF Q
        <5>1. /\ Q \in Seq(Symbols) /\ Len(Q) = i - m /\ i - m \in Nat
              /\ \A j \in 1 .. i - m : Q[j] = s[m + j]
          BY <1>0, <2>1, <4>0, <4>1 DEF Q
        <5>2. /\ Append(Q, s[i + 1]) \in Seq(Symbols) /\ Len(Append(Q, s[i + 1])) = (i + 1) - m
              /\ (\A j \in 1 .. i - m : Append(Q, s[i + 1])[j] = Q[j])
              /\ Append(Q, s[i + 1])[(i + 1) - m] = s[i + 1]
          BY <1>0, <2>1, <4>0, <5>1
        <5> QED
          BY <5>1, <5>2 DEF Q
      <4> HIDE DEF L, R
      <4>4. ASSUME NEW j \in 1 .. (i + 1) - m PROVE L[j] = R[j]
        <5>1. CASE j = (i + 1) - m
          <6>1. m + j = i + 1
            BY <1>0, <2>1, <5>1
          <6> QED
            BY <4>2, <4>3, <5>1, <6>1
        <5>2. CASE j # (i + 1) - m
          <6>1. j \in 1 .. i - m
            <7>1. m + k = i /\ i \in Nat /\ k \in Nat
              BY <2>1 DEF i
            <7> QED
              BY <1>0, <5>2, <7>1
          <6> QED
            BY <4>2, <4>3, <6>1
        <5> QED
          BY <5>1, <5>2
      <4>5. L = R
        BY <4>2, <4>3, <4>4
      <4> QED
        BY <4>5 DEF L, R
  <2> HIDE DEF i
  <2>6. w[i + 1] = [line |-> Append(SubSeq(s, m + 1, i), s[i + 1]), facts |-> f]
    <3> DEFINE X == SubSeq(s, m + 1, i)
    <3>1. w[i] = [line |-> X, facts |-> f]
      BY <2>2
    <3> HIDE DEF X
    <3>3. w[i + 1] = [line |-> Append(X, s[i + 1]), facts |-> f]
      <4>1. ScanSymbol([line |-> X, facts |-> f], s[i + 1]) = [line |-> Append(X, s[i + 1]), facts |-> f]
        BY <2>3, ScanRecord
      <4> QED
        BY <2>4, <3>1, <4>1
    <3> QED
      BY <3>3 DEF X
  <2>7. Quiet(i + 1)
    BY <2>5, <2>6
  <2> HIDE DEF Quiet
  <2> QED
    BY <2>1, <2>7
<1>3. S = Nat
  <2>1. S \in SUBSET Nat
    OBVIOUS
  <2> HIDE DEF S
  <2> QED
    BY <1>1, <1>2, <2>1, InductiveSet
<1>4. n - m \in S
  <2>1. n - m \in Nat
    BY <1>0
  <2> HIDE DEF S
  <2> QED
    BY <1>3, <2>1
<1>5. Quiet(n)
  <2>1. m + (n - m) = n
    BY <1>0
  <2> HIDE DEF Quiet
  <2> QED
    BY <1>4, <2>1
<1> QED
  BY <1>5 DEF IsHeard

\* The facts of the complete lines, and what is left behind the last, are what
\* the walk over all symbols ends with.
LEMMA ScanSplits ==
  ASSUME NEW s \in Seq(Symbols), NEW facts, NEW w, Walks(w, facts, s)
  PROVE  w[Len(s)].line = Rest(s) /\ w[Len(s)].facts = Scan(facts, Complete(s))
<1> DEFINE m == LastNL(s)
<1>0. /\ Len(s) \in Nat /\ m \in 0 .. Len(s) /\ Len(s) \in m .. Len(s)
      /\ m > 0 => s[m] = NL
      /\ \A i \in m + 1 .. Len(s) : s[i] # NL
  BY LastNLIs
<1> HIDE DEF m
<1>1. PICK f : IsHeard(w[m], <<>>, f)
  <2>1. CASE m = 0
    BY <2>1 DEF Walks, IsHeard
  <2>2. CASE m # 0
    <3>1. m \in 1 .. Len(s) /\ s[m] = NL
      BY <1>0, <2>2
    <3>2. w[m] = ScanSymbol(w[m - 1], s[m])
      BY <3>1 DEF Walks
    <3> QED
      BY <3>1, <3>2 DEF ScanSymbol, IsHeard
  <2> QED
    BY <2>1, <2>2
<1>2. w[Len(s)].line = SubSeq(s, m + 1, Len(s)) /\ w[Len(s)].facts = w[m].facts
  <2>1. IsHeard(w[Len(s)], SubSeq(s, m + 1, Len(s)), f)
    BY <1>0, <1>1, SilentWalk
  <2>2. w[m].facts = f
    BY <1>1, IsHeardFields
  <2> QED
    BY <2>1, <2>2, IsHeardFields
<1>3. SubSeq(s, 1, m) \in Seq(Symbols) /\ Len(SubSeq(s, 1, m)) = m
  BY <1>0
<1>4. PICK v : Walks(v, facts, SubSeq(s, 1, m)) /\ Scan(facts, SubSeq(s, 1, m)) = v[m].facts
  BY <1>3, ScanIsWalk
<1>5. v[m] = w[m]
  BY <1>0, <1>4, PrefixWalk
<1> QED
  BY <1>2, <1>4, <1>5 DEF m, Rest, Complete

\* The places of a concatenation.
LEMMA Concatenated ==
  ASSUME NEW V, NEW a \in Seq(V), NEW b \in Seq(V)
  PROVE  /\ a \o b \in Seq(V) /\ Len(a \o b) = Len(a) + Len(b)
         /\ \A i \in 1 .. Len(a) : (a \o b)[i] = a[i]
         /\ \A i \in 1 .. Len(b) : (a \o b)[Len(a) + i] = b[i]
OBVIOUS

\* The walk over the partial line and a chunk of the text is a walk over the text.
LEMMA TextWalk ==
  ASSUME NEW t, WholeLines(t), NEW p \in Nat, NEW n \in Nat, p + n <= Len(t),
         NEW l \in Seq(Symbols \ {NL}), NEW f \in Facts, NEW w,
         Walks(w, f, l \o SubSeq(t, p + 1, p + n))
  PROVE  /\ SoundLine(t, l, f, p) => HeardSound(t, w[Len(l) + n], p + n)
         /\ ExactLine(t, l, p) /\ ExactFacts(t, f, p) => HeardExact(t, w[Len(l) + n], p + n)
<1> DEFINE chunk == SubSeq(t, p + 1, p + n)
           all == l \o chunk
           m == Len(l)
<1>0. t \in Seq(Symbols) /\ Len(t) \in Nat /\ m \in Nat /\ l \in Seq(Symbols)
      /\ \A i \in 1 .. m : l[i] # NL
  BY DEF WholeLines
<1>1. chunk \in Seq(Symbols) /\ Len(chunk) = n /\ \A i \in 1 .. n : chunk[i] = t[p + i]
  <2>1. p + 1 \in 1 .. Len(t) + 1 /\ p + n \in p .. Len(t)
    BY <1>0
  <2>2. \A i \in 1 .. n : p + i \in 1 .. Len(t)
    BY <1>0
  <2> QED
    BY <1>0, <2>1, <2>2
<1> HIDE DEF chunk
<1>2. /\ all \in Seq(Symbols) /\ Len(all) = m + n
      /\ \A i \in 1 .. m : all[i] = l[i]
      /\ \A i \in 1 .. n : all[m + i] = t[p + i]
  <2>1. all \in Seq(Symbols) /\ Len(all) = m + n
    <3>1. all \in Seq(Symbols) /\ Len(all) = Len(l) + Len(chunk)
      BY <1>0, <1>1, Concatenated, Zenon
    <3> HIDE DEF all
    <3> QED
      BY <1>1, <3>1
  <2>2. \A i \in 1 .. m : all[i] = l[i]
    BY <1>0, <1>1, Concatenated, Zenon
  <2>3. \A i \in 1 .. n : all[m + i] = chunk[i]
    <3>1. \A i \in 1 .. Len(chunk) : (l \o chunk)[Len(l) + i] = chunk[i]
      BY <1>0, <1>1
    <3>2. Len(chunk) = n
      BY <1>1
    <3> QED
      BY <3>1, <3>2, Zenon
  <2> QED
    BY <1>1, <2>1, <2>2, <2>3
<1>3. Walks(w, f, all)
  BY DEF chunk
<1> HIDE DEF all
<1>4. w[m] = [line |-> l, facts |-> f]
  <2>1. IsHeard(w[0], <<>>, f)
    BY <1>3 DEF Walks, IsHeard
  <2>2. 0 \in 0 .. Len(all) /\ m \in 0 .. Len(all) /\ \A i \in 0 + 1 .. m : all[i] # NL
    BY <1>0, <1>2
  <2>3. IsHeard(w[m], SubSeq(all, 0 + 1, m), f)
    BY <1>2, <1>3, <2>1, <2>2, SilentWalk
  <2>4. SubSeq(all, 1, m) = l
    <3>1. SubSeq(all, 1, m) \in Seq(Symbols) /\ Len(SubSeq(all, 1, m)) = m
          /\ \A i \in 1 .. m : SubSeq(all, 1, m)[i] = all[i]
      BY <1>0, <1>2
    <3> DEFINE q == SubSeq(all, 1, m)
    <3> HIDE DEF q
    <3>2. q \in Seq(Symbols) /\ Len(q) = m /\ \A i \in 1 .. m : q[i] = l[i]
      BY <1>2, <3>1 DEF q
    <3>3. q = l
      BY <1>0, <3>2
    <3> QED
      BY <3>3 DEF q
  <2> QED
    BY <2>3, <2>4 DEF IsHeard
<1>5. w[m] \in Heard /\ w[m].line = l /\ w[m].facts = f
  BY <1>4 DEF Heard
<1>6. ASSUME NEW k \in Nat, k + 1 <= n
      PROVE  /\ w[m + (k + 1)] = ScanSymbol(w[m + k], t[(p + k) + 1])
             /\ (p + k) + 1 <= Len(t) /\ p + k \in Nat /\ (p + k) + 1 = p + (k + 1)
  <2>1. m + (k + 1) \in 1 .. Len(all) /\ (m + (k + 1)) - 1 = m + k /\ k + 1 \in 1 .. n
    BY <1>0, <1>2, <1>6
  <2>2. w[m + (k + 1)] = ScanSymbol(w[(m + (k + 1)) - 1], all[m + (k + 1)])
    BY <1>3, <2>1 DEF Walks
  <2>3. all[m + (k + 1)] = t[p + (k + 1)] /\ (p + k) + 1 = p + (k + 1)
    <3> DEFINE j == k + 1
    <3>1. j \in 1 .. n /\ (p + k) + 1 = p + j
      BY <2>1
    <3> HIDE DEF j
    <3>2. all[m + j] = t[p + j]
      BY <1>2, <3>1
    <3> QED
      BY <3>1, <3>2 DEF j
  <2>4. (p + k) + 1 <= Len(t) /\ p + k \in Nat
    BY <1>0, <1>6
  <2> QED
    BY <2>1, <2>2, <2>3, <2>4
<1>7. ASSUME SoundLine(t, l, f, p) PROVE HeardSound(t, w[m + n], p + n)
  <2> DEFINE S == {k \in Nat : k <= n => HeardSound(t, w[m + k], p + k)}
  <2>1. 0 \in S
    <3>1. HeardSound(t, w[m], p)
      BY <1>5, <1>7 DEF HeardSound
    <3>2. m + 0 = m /\ p + 0 = p
      BY <1>0
    <3> QED
      BY <3>1, <3>2
  <2>2. ASSUME NEW k \in S PROVE k + 1 \in S
    <3> SUFFICES ASSUME k + 1 <= n PROVE HeardSound(t, w[m + (k + 1)], p + (k + 1))
      OBVIOUS
    <3>1. k \in Nat /\ HeardSound(t, w[m + k], p + k)
      OBVIOUS
    <3>2. w[m + k] \in Heard
      BY <3>1 DEF HeardSound
    <3> QED
      BY <1>6, <3>1, <3>2, HearsNext
  <2>3. S = Nat
    <3>1. S \in SUBSET Nat
      OBVIOUS
    <3> HIDE DEF S
    <3> QED
      BY <2>1, <2>2, <3>1, InductiveSet
  <2>4. n \in S
    <3> HIDE DEF S
    <3> QED
      BY <2>3
  <2> QED
    BY <2>4
<1>8. ASSUME ExactLine(t, l, p), ExactFacts(t, f, p) PROVE HeardExact(t, w[m + n], p + n)
  <2> DEFINE S == {k \in Nat : k <= n => HeardExact(t, w[m + k], p + k)}
  <2>1. 0 \in S
    <3>1. HeardExact(t, w[m], p)
      BY <1>5, <1>8 DEF HeardExact
    <3>2. m + 0 = m /\ p + 0 = p
      BY <1>0
    <3> QED
      BY <3>1, <3>2
  <2>2. ASSUME NEW k \in S PROVE k + 1 \in S
    <3> SUFFICES ASSUME k + 1 <= n PROVE HeardExact(t, w[m + (k + 1)], p + (k + 1))
      OBVIOUS
    <3>1. k \in Nat /\ HeardExact(t, w[m + k], p + k)
      OBVIOUS
    <3>2. w[m + k] \in Heard
      BY <3>1 DEF HeardExact
    <3> QED
      BY <1>6, <3>1, <3>2, HearsNext
  <2>3. S = Nat
    <3>1. S \in SUBSET Nat
      OBVIOUS
    <3> HIDE DEF S
    <3> QED
      BY <2>1, <2>2, <3>1, InductiveSet
  <2>4. n \in S
    <3> HIDE DEF S
    <3> QED
      BY <2>3
  <2> QED
    BY <2>4
<1> QED
  BY <1>7, <1>8

\* A stream starts with a tap that has heard nothing.
LEMMA TapInit == Init => TapInv
<1> SUFFICES ASSUME Init PROVE TapInv
  OBVIOUS
<1>1. WholeLines(text)
  BY TextIsWhole DEF Init
<1>2. sent \in 0 .. Len(text)
  BY <1>1 DEF Init, WholeLines
<1>3. partial \in Seq(Symbols \ {NL}) /\ Len(partial) <= MaxPartialLine
  BY PartsNumbers DEF Init
<1>4. tap \in Facts
  BY DEF Init, NoFacts, Facts
<1>5. \A kinds : LinesTo(text, kinds, 0) = {}
  BY DEF LinesTo
<1>6. ExactFacts(text, tap, sent) /\ SoundFacts(text, tap, 0)
  <2>1. KeysOf(0, FALSE) = {}
    BY DEF KeysOf
  <2>2. Cardinality({}) = 0
    BY FS_EmptySet
  <2>3. tap = NoFacts /\ sent = 0
    BY DEF Init
  <2>4. \A kinds : Cardinality(LinesTo(text, kinds, 0)) = 0
    BY <1>5, <2>2, Zenon
  <2>5. (LinesTo(text, {"tool"}, 0) # {}) = FALSE
    BY <1>5
  <2>6. KeysOf(0, LinesTo(text, {"tool"}, 0) # {}) = {}
    BY <2>1, <2>5, Zenon
  <2>7. ExactFacts(text, tap, sent)
    BY <1>5, <2>3, <2>4, <2>6 DEF ExactFacts, NoFacts
  <2>8. SoundFacts(text, tap, 0)
    <3>1. /\ tap.content = 0 /\ tap.anon = 0 /\ tap.keys = {} /\ tap.finish = "none" /\ tap.done = FALSE
      BY <2>3 DEF NoFacts
    <3>2. tap.keys = KeysOf(tap.anon, FALSE) /\ (FALSE => LinesTo(text, {"tool"}, 0) # {})
      BY <2>1, <3>1
    <3>3. \E indexed \in BOOLEAN :
            tap.keys = KeysOf(tap.anon, indexed) /\ (indexed => LinesTo(text, {"tool"}, 0) # {})
      BY <3>2, Zenon
    <3>4. tap.content <= Cardinality(LinesTo(text, Contents, 0))
      BY <2>4, <3>1
    <3>5. tap.anon <= Cardinality(LinesTo(text, {"anon"}, 0))
      BY <2>4, <3>1
    <3> QED
      BY <3>1, <3>3, <3>4, <3>5 DEF SoundFacts
  <2> QED
    BY <2>7, <2>8
<1>7. SoundLine(text, partial, tap, sent) /\ ExactLine(text, partial, sent)
  BY <1>6 DEF Init, SoundLine, ExactLine
<1> QED
  BY <1>1, <1>2, <1>3, <1>4, <1>6, <1>7 DEF TapInv

\* A chunk, understood or not, is heard as what it is.
LEMMA TapChunk ==
  ASSUME TapInv, NEW n \in Nat, Chunk(n)
  PROVE  TapInv'
<1> DEFINE chunk == SubSeq(text, sent + 1, sent + n)
           last == text[sent + n]
           cutAfter == last.kind = "wide" /\ last.part = 1
           all == partial \o chunk
           rest == Rest(all)
<1>0. /\ WholeLines(text) /\ text \in Seq(Symbols) /\ Len(text) \in Nat
      /\ sent \in Nat /\ sent + n <= Len(text) /\ sent' = sent + n /\ text' = text
      /\ partial \in Seq(Symbols \ {NL}) /\ Len(partial) \in Nat /\ Len(partial) <= MaxPartialLine
      /\ tap \in Facts /\ SoundLine(text, partial, tap, sent)
      /\ (~dropped => ExactLine(text, partial, sent) /\ ExactFacts(text, tap, sent))
  BY DEF TapInv, WholeLines, Chunk
<1>1. Observe(chunk, cutAfter)
  BY DEF Chunk
<1>2. sent' \in 0 .. Len(text)
  BY <1>0
<1>3. CASE ~Utf8(chunk, cutAfter)
  <2>1. dropped' = TRUE /\ tap' = tap /\ partial' = partial
    BY <1>1, <1>3 DEF Observe
  <2>2. SoundLine(text, partial, tap, sent')
    <3>1. PICK m \in 0 .. sent : /\ SoundFacts(text, tap, m)
                                 /\ partial # <<>> => \E j \in m + 1 .. sent : text[j] = partial[Len(partial)]
      BY <1>0 DEF SoundLine
    <3>2. m \in 0 .. sent' /\ \A j \in m + 1 .. sent : j \in m + 1 .. sent'
      BY <1>0
    <3> QED
      BY <3>1, <3>2 DEF SoundLine
  <2> QED
    BY <1>0, <1>2, <2>1, <2>2 DEF TapInv
<1>4. CASE Utf8(chunk, cutAfter)
  <2>1. /\ tap' = Scan(tap, Complete(all))
        /\ partial' = IF Len(rest) > MaxPartialLine THEN <<>> ELSE rest
        /\ dropped' = (dropped \/ Len(rest) > MaxPartialLine)
    BY <1>1, <1>4 DEF Observe
  <2>2. all \in Seq(Symbols) /\ Len(all) = Len(partial) + n
    <3>1. chunk \in Seq(Symbols) /\ Len(chunk) = n
      <4>1. sent + 1 \in 1 .. Len(text) + 1 /\ sent + n \in sent .. Len(text)
        BY <1>0
      <4> QED
        BY <1>0, <4>1
    <3>2. partial \in Seq(Symbols)
      BY <1>0
    <3> HIDE DEF chunk
    <3> QED
      <4>1. all \in Seq(Symbols) /\ Len(all) = Len(partial) + Len(chunk)
        BY <3>1, <3>2, Concatenated, Zenon
      <4> HIDE DEF all
      <4> QED
        BY <3>1, <4>1
  <2>3. PICK w : Walks(w, tap, all)
    BY <2>2, ScanIsWalk
  <2> DEFINE h == w[Len(partial) + n]
  <2>4. HeardSound(text, h, sent + n)
    BY <1>0, <2>3, TextWalk
  <2>5. ~dropped => HeardExact(text, h, sent + n)
    BY <1>0, <2>3, TextWalk
  <2>6. h.line = rest /\ h.facts = tap'
    BY <2>1, <2>2, <2>3, ScanSplits
  <2> HIDE DEF h, rest, all
  <2>7. rest \in Seq(Symbols \ {NL}) /\ tap' \in Facts /\ SoundLine(text, rest, tap', sent')
    BY <1>0, <2>4, <2>6 DEF HeardSound, Heard
  <2>8. partial' \in Seq(Symbols \ {NL}) /\ Len(partial') <= MaxPartialLine
    <3>1. CASE Len(rest) > MaxPartialLine
      BY <2>1, <3>1, PartsNumbers
    <3>2. CASE ~(Len(rest) > MaxPartialLine)
      <4>1. Len(rest) \in Nat
        BY <2>7
      <4> QED
        BY <2>1, <2>7, <3>2, <4>1, PartsNumbers
    <3> QED
      BY <3>1, <3>2
  <2>9. SoundLine(text, partial', tap', sent')
    <3>1. SoundLine(text, <<>>, tap', sent')
      BY <2>7 DEF SoundLine
    <3> QED
      BY <2>1, <2>7, <3>1
  <2>10. ~dropped' => ExactLine(text, partial', sent') /\ ExactFacts(text, tap', sent')
    BY <1>0, <2>1, <2>5, <2>6 DEF HeardExact
  <2> QED
    BY <1>0, <1>2, <2>7, <2>8, <2>9, <2>10 DEF TapInv
<1> QED
  BY <1>3, <1>4

-----------------------------------------------------------------------------
(* The whole state of a stream, and its theorems.                          *)

\* The inductive invariant of a stream.
TapStateInv == TapInv /\ EndInv /\ RecordInv

\* The calls the tap has keys for can be counted.
LEMMA KeysCount ==
  ASSUME TapInv
  PROVE  IsFiniteSet(tap.keys) /\ Cardinality(tap.keys) \in Nat
<1>1. PICK m \in 0 .. sent : SoundFacts(text, tap, m)
  BY DEF TapInv, SoundLine
<1>2. PICK b \in BOOLEAN : tap.keys = KeysOf(tap.anon, b)
  BY <1>1 DEF SoundFacts
<1>3. tap.anon \in Nat
  BY DEF TapInv, Facts
<1> QED
  BY <1>2, <1>3, KeysOfType, FS_CardinalityType

\* A turn that is not clean is named truncated, and every turn has a name.
LEMMA ClassifyIs ==
  ASSUME NEW f, NEW c
  PROVE  /\ Classify(f, c, FALSE) = "truncated_stream" /\ Classify(f, c, FALSE) \in Modes
         /\ Classify(f, c, TRUE) \in Modes
<1>1. Classify(f, c, FALSE) = "truncated_stream"
  BY DEF Classify
<1>2. Classify(f, c, TRUE) \in Modes
  BY DEF Classify, Modes
<1> QED
  BY <1>1, <1>2 DEF Modes

\* A stream starts in the invariant.
LEMMA TapStateInit == Init => TapStateInv
<1> SUFFICES ASSUME Init PROVE EndInv /\ RecordInv
  BY TapInit DEF TapStateInv
<1>1. EndInv
  BY DEF Init, EndInv, Ends
<1>2. RecordInv
  <2>1. /\ record.mode = "none" /\ record.clean = FALSE /\ watcher = "waits"
        /\ record \in [mode : Modes, clean : BOOLEAN, end : Ends, calls : Nat, late : BOOLEAN]
    <3>1. record = NoRecord /\ watcher = "waits"
      BY DEF Init
    <3>2. NoRecord \in [mode : Modes, clean : BOOLEAN, end : Ends, calls : Nat, late : BOOLEAN]
          /\ NoRecord.mode = "none" /\ NoRecord.clean = FALSE
      BY DEF NoRecord, Ends, Modes
    <3> QED
      BY <3>1, <3>2
  <2> QED
    BY <2>1 DEF RecordInv
<1> QED
  BY <1>1, <1>2

\* What does not touch the text and the tap keeps what the tap has heard.
LEMMA TapFrame ==
  ASSUME TapInv, UNCHANGED textFrame
  PROVE  TapInv' /\ \A kinds : LinesTo(text, kinds, sent)' = LinesTo(text, kinds, sent)
BY DEF TapInv, textFrame, LinesTo

\* Every step keeps the invariant, action by action.
LEMMA TapStateStep ==
  ASSUME TapStateInv, [Next]_vars
  PROVE  TapStateInv'
<1> USE DEF TapStateInv
<1>0. TapInv /\ EndInv /\ RecordInv
  OBVIOUS
<1>1. CASE Poll
  <2>1. TapInv'
    BY <1>0, <1>1, TapFrame DEF Poll
  <2>2. EndInv'
    BY <1>0, <1>1 DEF Poll, EndInv, textFrame, Ends
  <2>3. RecordInv'
    BY <1>0, <1>1 DEF Poll, RecordInv, textFrame, LinesTo
  <2> QED
    BY <2>1, <2>2, <2>3
<1>2. ASSUME NEW n \in 1 .. Len(text), Chunk(n) PROVE TapStateInv'
  <2>0. n \in Nat /\ sent \in Nat
    BY <1>0 DEF TapInv, WholeLines
  <2>1. TapInv'
    BY <1>0, <1>2, <2>0, TapChunk
  <2>2. /\ body = "waiting" /\ body' = "unpolled" /\ sent' = sent + n /\ text' = text
        /\ UNCHANGED <<end, finalized, client, watcher, record>>
        /\ ~finalized
    BY <1>0, <1>2 DEF Chunk, EndInv
  <2>3. cut' \in BOOLEAN /\ dropped' \in BOOLEAN
    BY <1>0, <1>2 DEF Chunk, Observe, EndInv
  <2>4. EndInv'
    BY <1>0, <2>2, <2>3 DEF EndInv, Ends
  <2>5. LinesTo(text, {"done"}, sent) \subseteq LinesTo(text, {"done"}, sent)'
    <3>1. LinesTo(text, {"done"}, sent) \subseteq LinesTo(text, {"done"}, sent + n)
      BY <2>0, LinesToGrows
    <3> QED
      BY <2>2, <3>1 DEF LinesTo
  <2>6. RecordInv'
    BY <1>0, <2>2, <2>5 DEF RecordInv
  <2> QED
    BY <2>1, <2>4, <2>6
<1>3. ASSUME NEW e \in Ends, EndSeen(e) PROVE TapStateInv'
  <2>1. TapInv'
    BY <1>0, <1>3, TapFrame DEF EndSeen
  <2>2. /\ body = "waiting" /\ body' = e /\ end = "clean" /\ end' = e /\ ~finalized
        /\ UNCHANGED <<textFrame, finalized, client, watcher, record>>
    BY <1>0, <1>3 DEF EndSeen, RecordEnd, EndInv
  <2>3. EndInv'
    BY <1>0, <2>2 DEF EndInv, textFrame, Ends
  <2>4. RecordInv'
    BY <1>0, <2>2 DEF RecordInv, textFrame, LinesTo
  <2> QED
    BY <2>1, <2>3, <2>4
<1>4. CASE Finalize
  <2>1. TapInv'
    BY <1>0, <1>4, TapFrame DEF Finalize
  <2>2. /\ body \in Ends /\ body' = "ended" /\ finalized' = TRUE /\ end = body /\ ~finalized
        /\ client' = (IF body # "clean" THEN "aborted"
                      ELSE IF tap.done THEN "complete" ELSE "error_frame")
        /\ UNCHANGED <<textFrame, end, watcher, record>>
    BY <1>0, <1>4 DEF Finalize, EndInv, Ends
  <2>3. EndInv'
    BY <1>0, <2>2 DEF EndInv, textFrame, Ends
  <2>4. RecordInv'
    BY <1>0, <2>2 DEF RecordInv, textFrame, LinesTo
  <2> QED
    BY <2>1, <2>3, <2>4
<1>5. CASE Dropped
  <2>1. TapInv'
    BY <1>0, <1>5, TapFrame DEF Dropped
  <2>2. EndInv'
    BY <1>0, <1>5 DEF Dropped, EndInv, textFrame, Ends
  <2>3. RecordInv'
    BY <1>0, <1>5 DEF Dropped, RecordInv, textFrame, LinesTo
  <2> QED
    BY <2>1, <2>2, <2>3
<1>6. CASE Wake
  <2>1. TapInv'
    BY <1>0, <1>6, TapFrame DEF Wake
  <2>2. EndInv'
    BY <1>0, <1>6 DEF Wake, EndInv, textFrame
  <2>3. RecordInv'
    BY <1>0, <1>6 DEF Wake, RecordInv, textFrame, LinesTo
  <2> QED
    BY <2>1, <2>2, <2>3
<1>7. CASE Write
  <2>1. TapInv'
    BY <1>0, <1>7, TapFrame DEF Write
  <2>2. EndInv'
    BY <1>0, <1>7 DEF Write, EndInv, textFrame
  <2>3. /\ record' = [mode  |-> Classify(tap.finish, tap.content, tap.done),
                      clean |-> tap.done, end |-> end,
                      calls |-> Cardinality(tap.keys), late  |-> watcher = "late"]
        /\ watcher \in {"ended", "late"} /\ watcher' = "done"
        /\ UNCHANGED <<textFrame, end, finalized>>
    BY <1>7 DEF Write
  <2>4. tap.done \in BOOLEAN /\ end \in Ends /\ Cardinality(tap.keys) \in Nat
    BY <1>0, KeysCount DEF TapInv, Facts, EndInv
  <2>5. Classify(tap.finish, tap.content, tap.done) \in Modes
        /\ (~tap.done => Classify(tap.finish, tap.content, tap.done) = "truncated_stream")
    <3>1. CASE tap.done = FALSE
      BY <3>1, ClassifyIs, Zenon DEF Modes
    <3>2. CASE tap.done = TRUE
      BY <3>2, ClassifyIs, Zenon
    <3> QED
      BY <2>4, <3>1, <3>2
  <2> DEFINE mode == Classify(tap.finish, tap.content, tap.done)
             calls == Cardinality(tap.keys)
  <2>6. tap.done => LinesTo(text, {"done"}, sent) # {}
    <3>1. PICK m \in 0 .. sent : SoundFacts(text, tap, m)
      BY <1>0 DEF TapInv, SoundLine
    <3>2. m \in Nat /\ sent \in Nat /\ m <= sent
      BY <1>0 DEF TapInv, WholeLines
    <3>3. LinesTo(text, {"done"}, m) \subseteq LinesTo(text, {"done"}, sent)
      BY <3>2, LinesToGrows
    <3> QED
      BY <3>1, <3>3 DEF SoundFacts
  <2>7. LinesTo(text, {"done"}, sent)' = LinesTo(text, {"done"}, sent)
    BY <1>0, <2>3, TapFrame
  <2>8. /\ record'.mode = mode /\ record'.clean = tap.done /\ record'.end = end
        /\ record'.late = (watcher = "late")
        /\ record' \in [mode : Modes, clean : BOOLEAN, end : Ends, calls : Nat, late : BOOLEAN]
    <3>1. (watcher = "late") \in BOOLEAN
      OBVIOUS
    <3> DEFINE late == watcher = "late"
    <3>2. late \in BOOLEAN /\ mode \in Modes /\ calls \in Nat
      BY <2>4, <2>5
    <3>3. record' = [mode |-> mode, clean |-> tap.done, end |-> end, calls |-> calls, late |-> late]
      BY <2>3
    <3> HIDE DEF late, mode, calls
    <3>4. /\ record'.mode = mode /\ record'.clean = tap.done /\ record'.end = end
          /\ record'.late = late
          /\ record' \in [mode : Modes, clean : BOOLEAN, end : Ends, calls : Nat, late : BOOLEAN]
      BY <2>4, <3>2, <3>3
    <3> QED
      BY <3>4 DEF late
  <2>9. ~record'.late => finalized
    BY <1>0, <2>3, <2>8 DEF EndInv
  <2>10. tap' = tap /\ finalized' = finalized /\ end' = end
    BY <2>3 DEF textFrame
  <2> HIDE DEF mode, calls
  <2>11. ~tap.done => mode = "truncated_stream"
    BY <2>5 DEF mode
  <2>12. RecordInv'
    BY <2>4, <2>6, <2>7, <2>8, <2>9, <2>10, <2>11 DEF RecordInv
  <2> QED
    BY <2>1, <2>2, <2>12
<1>8. CASE UNCHANGED vars
  <2>1. TapInv'
    BY <1>0, <1>8, TapFrame DEF vars, textFrame
  <2>2. EndInv'
    BY <1>0, <1>8 DEF vars, EndInv
  <2>3. RecordInv'
    BY <1>0, <1>8 DEF vars, RecordInv, LinesTo
  <2> QED
    BY <2>1, <2>2, <2>3
<1> QED
  BY <1>1, <1>2, <1>3, <1>4, <1>5, <1>6, <1>7, <1>8 DEF Next

\* The inductive invariant holds always.
LEMMA TapStateAlways == Spec => []TapStateInv
  BY TapStateInit, TapStateStep, PTL DEF Spec

\* The lines the properties count are those up to what was sent.
LEMMA LinesOfIs ==
  ASSUME NEW kinds
  PROVE  LinesOf(kinds) = LinesTo(text, kinds, sent) /\ Number(kinds) = Cardinality(LinesTo(text, kinds, sent))
BY DEF LinesOf, Number, LinesTo

\* The variables of a stream keep their types, and the partial line of SseTap
\* stays within MAX_PARTIAL_LINE for texts of any length and any cut into
\* chunks.
THEOREM StreamTypeCorrect == Spec => []TypeOK
<1>1. TapStateInv => TypeOK
  <2> SUFFICES ASSUME TapInv, EndInv, RecordInv PROVE TypeOK
    BY DEF TapStateInv
  <2>1. tap.content \in Nat /\ tap.anon \in Nat /\ tap.done \in BOOLEAN /\ tap.finish \in Finishes \cup {"none"}
    BY DEF TapInv, Facts
  <2>2. IsFiniteSet(tap.keys)
    BY KeysCount
  <2>3. DOMAIN record = DOMAIN NoRecord
    BY DEF RecordInv, NoRecord
  <2>4. sent \in 0 .. Len(text) /\ Len(partial) <= MaxPartialLine
    BY DEF TapInv
  <2> QED
    BY <2>1, <2>2, <2>3, <2>4 DEF TypeOK, EndInv
<1> QED
  BY <1>1, TapStateAlways, PTL

\* SseTap::observe counts exactly the whole lines that were forwarded, for any
\* upstream text and any cut of it into chunks, a call in fragments once and a
\* finish reason the last one, as long as it could read every chunk; and when
\* it had to let some pass, it still counts nothing that was not there.
THEOREM TapIsExact == Spec => []TapCountsWhatWasForwarded
<1>1. TapStateInv => TapCountsWhatWasForwarded
  <2> SUFFICES ASSUME TapInv PROVE TapCountsWhatWasForwarded
    BY DEF TapStateInv
  <2> DEFINE anons == Cardinality(LinesTo(text, {"anon"}, sent))
             tools == Cardinality(LinesTo(text, {"tool"}, sent))
             calls == anons + LowerOf(tools, 1)
  <2>0. sent \in Nat /\ tap \in Facts /\ tap.anon \in Nat /\ tap.content \in Nat
    BY DEF TapInv, Facts, WholeLines
  <2>1. anons \in Nat /\ tools \in Nat /\ (tools = 0 <=> LinesTo(text, {"tool"}, sent) = {})
    <3>1. anons \in Nat /\ tools \in Nat /\ IsFiniteSet(LinesTo(text, {"tool"}, sent))
      BY <2>0, LinesToType
    <3>2. tools = 0 <=> LinesTo(text, {"tool"}, sent) = {}
      BY <3>1, FS_EmptySet
    <3> QED
      BY <3>1, <3>2
  <2>2. \A b \in BOOLEAN : Cardinality(KeysOf(tap.anon, b)) = tap.anon + (IF b THEN 1 ELSE 0)
    BY <2>0, KeysOfType
  <2> HIDE DEF anons, tools
  <2>3. \A kinds : LinesOf(kinds) = LinesTo(text, kinds, sent)
                   /\ Number(kinds) = Cardinality(LinesTo(text, kinds, sent))
    BY LinesOfIs
  <2>4. CASE dropped
    <3>1. SoundFacts(text, tap, sent)
      <4>1. PICK m \in 0 .. sent : SoundFacts(text, tap, m)
        BY DEF TapInv, SoundLine
      <4>2. m \in Nat /\ m <= sent
        BY <2>0
      <4> QED
        BY <2>0, <4>1, <4>2, SoundGrows
    <3>2. PICK b \in BOOLEAN : tap.keys = KeysOf(tap.anon, b) /\ (b => LinesTo(text, {"tool"}, sent) # {})
      BY <3>1 DEF SoundFacts
    <3>3. Cardinality(tap.keys) <= calls
      <4>1. Cardinality(tap.keys) = tap.anon + (IF b THEN 1 ELSE 0)
        BY <2>2, <3>2
      <4>2. tap.anon <= anons
        BY <3>1 DEF SoundFacts, anons
      <4> QED
        BY <2>0, <2>1, <3>2, <4>1, <4>2 DEF LowerOf
    <3>4. /\ tap.content <= Number(Contents)
          /\ tap.finish # "none" => LinesOf({tap.finish}) # {}
          /\ tap.done => LinesOf({"done"}) # {}
      BY <2>3, <3>1 DEF SoundFacts
    <3>5. calls = Number({"anon"}) + LowerOf(Number({"tool"}), 1)
      BY <2>3 DEF anons, tools
    <3> HIDE DEF calls
    <3> QED
      BY <2>4, <3>3, <3>4, <3>5 DEF TapCountsWhatWasForwarded
  <2>5. CASE ~dropped
    <3>1. ExactFacts(text, tap, sent)
      BY <2>5 DEF TapInv
    <3> DEFINE b == LinesTo(text, {"tool"}, sent) # {}
    <3>2. b \in BOOLEAN /\ tap.keys = KeysOf(tap.anon, b) /\ tap.anon = anons
      BY <3>1 DEF ExactFacts, anons
    <3>3. Cardinality(tap.keys) = calls
      <4>1. Cardinality(tap.keys) = tap.anon + (IF b THEN 1 ELSE 0)
        <5> HIDE DEF b
        <5> QED
          BY <2>2, <3>2
      <4> QED
        BY <2>0, <2>1, <3>2, <4>1 DEF LowerOf
    <3>4. /\ tap.content = Number(Contents)
          /\ tap.finish = IF LinesOf(Finishes) = {} THEN "none" ELSE text[Max(LinesOf(Finishes)) - 1].kind
          /\ tap.done = (LinesOf({"done"}) # {})
      BY <2>3, <3>1 DEF ExactFacts
    <3>5. calls = Number({"anon"}) + LowerOf(Number({"tool"}), 1)
      BY <2>3 DEF anons, tools
    <3> HIDE DEF calls
    <3> QED
      BY <2>5, <3>3, <3>4, <3>5 DEF TapCountsWhatWasForwarded
  <2> QED
    BY <2>4, <2>5
<1> QED
  BY <1>1, TapStateAlways, PTL

\* The completion record never presents as a success a stream whose [DONE] was
\* not forwarded to the client, whenever the detached task wakes up to write
\* it, before the end or after.
THEOREM TruncationNeverSuccess == Spec => []NoTruncationLoggedAsSuccess
<1>1. TapStateInv => NoTruncationLoggedAsSuccess
  <2> SUFFICES ASSUME RecordInv PROVE NoTruncationLoggedAsSuccess
    BY DEF TapStateInv
  <2>1. LinesOf({"done"}) = LinesTo(text, {"done"}, sent)
    BY LinesOfIs
  <2> QED
    BY <2>1 DEF RecordInv, NoTruncationLoggedAsSuccess
<1> QED
  BY <1>1, TapStateAlways, PTL

\* A record written after the tap was finalized tells what the client was given
\* of the end: the guard or the connection for an abort, a truncated stream for
\* an error frame, a clean one for a complete stream.
THEOREM RecordTellsTheEnd == Spec => []RecordAgreesWithClient
<1>1. TapStateInv => RecordAgreesWithClient
  <2> SUFFICES ASSUME EndInv, RecordInv, watcher = "done", ~record.late
               PROVE  /\ client = "complete"    => record.clean
                      /\ client = "error_frame" => record.mode = "truncated_stream" /\ record.end = "clean"
                      /\ client = "aborted"     => record.end \in {"guard_stall", "upstream_error"}
    BY DEF TapStateInv, RecordAgreesWithClient
  <2>1. record.clean = tap.done /\ (~tap.done => record.mode = "truncated_stream") /\ record.end = end
    BY DEF RecordInv
  <2> QED
    BY <2>1 DEF EndInv, Ends
<1> QED
  BY <1>1, TapStateAlways, PTL
=============================================================================
