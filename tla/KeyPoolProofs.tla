---------------------------- MODULE KeyPoolProofs ----------------------------
(***************************************************************************)
(* Proofs about the keys, for every ceiling of a window and every number   *)
(* of keys and requests, in three parts.                                   *)
(*                                                                         *)
(* The AIMD arithmetic (Aimd): what each operator returns, and how the two *)
(* success costs compare.                                                  *)
(*                                                                         *)
(* One key's window (KeyWindow): its type; that the adaptive recovery rule *)
(* never falls behind the fixed one; that a streak of successes restores   *)
(* the ceiling.                                                            *)
(*                                                                         *)
(* The pool (KeyPool): its type; that a key on cooldown from the first     *)
(* step of a scan to its last is never the one the scan leases; that a     *)
(* refusal is true of the keys; and that the excluded key is a last        *)
(* resort.                                                                 *)
(***************************************************************************)
EXTENDS KeyPool, KeyWindow, WellFoundedInduction, FiniteSetTheorems, TLAPS

-----------------------------------------------------------------------------
(* Induction on numbers, as a fact about sets.                             *)

\* A set of numbers that has 0 and the successor of each of its members has all of them.
LEMMA InductiveSet ==
  ASSUME NEW S \in SUBSET Nat, 0 \in S, \A n \in S : n + 1 \in S
  PROVE  S = Nat
<1> DEFINE R == OpToRel(<, Nat)
           T == Nat \ S
<1>0. R = {q \in Nat \X Nat : q[1] < q[2]}
  BY DEF OpToRel
<1>1. IsWellFoundedOn(R, Nat)
  BY NatLessThanWellFounded
<1>2. ASSUME T # {} PROVE FALSE
  <2> HIDE DEF R
  <2>1. PICK x \in T : \A y \in T : ~ (<<y, x>> \in R)
    BY <1>1, <1>2, WFMin
  <2>2. x \in Nat /\ x # 0 /\ x - 1 \in Nat
    BY <2>1
  <2>3. <<x - 1, x>> \in R
    BY <1>0, <2>2
  <2>4. x - 1 \in S
    BY <2>1, <2>2, <2>3
  <2> QED
    BY <2>1, <2>2, <2>4
<1> QED
  BY <1>2

-----------------------------------------------------------------------------
(* The AIMD arithmetic.                                                    *)

\* Every cost is a positive number, and the cost of the last slot is 1.
LEMMA StaticSuccessCostType ==
  ASSUME NEW deficit \in Nat
  PROVE  StaticSuccessCost(deficit) \in 1 .. AIMD_SUCCESS_THRESHOLD
<1>1. CASE deficit <= 1
  BY <1>1 DEF StaticSuccessCost, AIMD_SUCCESS_THRESHOLD
<1>2. CASE deficit > 1
  <2>1. (deficit + 7) \div deficit >= 1 /\ (deficit + 7) \div deficit <= 8
    BY <1>2, SMT
  <2>2. (8 + deficit - 1) = deficit + 7 /\ (8 + deficit - 1) \div deficit \in Int
    BY <1>2, SMT
  <2> QED
    BY <1>2, <2>1, <2>2 DEF StaticSuccessCost, AIMD_SUCCESS_THRESHOLD, CeilDiv
<1> QED
  BY <1>1, <1>2

\* The derived bar lies within its clamps, whatever the ratio.
LEMMA PressureBarType ==
  ASSUME NEW ratio \in Ratio
  PROVE  PressureBar(ratio) \in AIMD_BAR_MIN .. AIMD_BAR_MAX
<1>1. CASE \E b \in AIMD_BAR_MIN .. AIMD_BAR_MAX : BarReaches(ratio, b)
  <2> DEFINE Reached == {b \in 1 .. 8 : BarReaches(ratio, b)}
  <2>1. PICK c \in 1 .. 8 : BarReaches(ratio, c)
    BY <1>1 DEF AIMD_BAR_MIN, AIMD_BAR_MAX
  <2>2. \E b \in 1 .. 8 : /\ BarReaches(ratio, b)
                          /\ \A d \in 1 .. 8 : BarReaches(ratio, d) => b <= d
    BY <2>1
  <2> QED
    BY <1>1, <2>2 DEF PressureBar, AIMD_BAR_MIN, AIMD_BAR_MAX
<1>2. CASE ~ \E b \in AIMD_BAR_MIN .. AIMD_BAR_MAX : BarReaches(ratio, b)
  BY <1>2 DEF PressureBar, AIMD_BAR_MIN, AIMD_BAR_MAX
<1> QED
  BY <1>1, <1>2

\* An outcome keeps the 429 ratio between none and all.
LEMMA FoldOutcomeType ==
  ASSUME NEW ratio \in Ratio, NEW rateLimited \in BOOLEAN
  PROVE  FoldOutcome(ratio, rateLimited) \in Ratio
<1>1. ratio \in Int /\ 0 <= ratio /\ ratio <= 4096
  BY DEF Ratio, RatioOne
<1>2. (7 * ratio + 0) \div 8 \in 0 .. 4096 /\ (7 * ratio + 4096) \div 8 \in 0 .. 4096
  BY <1>1, SMT
<1> QED
  BY <1>2 DEF FoldOutcome, Ratio, RatioOne

\* Rounding up preserves order.
LEMMA CeilDivMonotone ==
  ASSUME NEW d \in Nat \ {0}, NEW a \in Nat, NEW b \in Nat, a <= b
  PROVE  CeilDiv(a, d) <= CeilDiv(b, d)
<1> DEFINE p == (a + d - 1) \div d
           q == (b + d - 1) \div d
<1>1. p \in Int /\ q \in Int /\ d * p <= a + d - 1 /\ b + d - 1 < d * (q + 1)
  BY SMT
<1>2. ASSUME q < p PROVE FALSE
  <2> HIDE DEF p, q
  <2>1. d * (q + 1) <= d * p
    BY <1>1, <1>2, SMT
  <2> QED
    BY <1>1, <2>1, SMT
<1> QED
  BY <1>1, <1>2 DEF CeilDiv

\* The adaptive cost is a number.
LEMMA PressureSuccessCostType ==
  ASSUME NEW deficit \in Nat, NEW ratio \in Ratio, NEW barMax \in Nat
  PROVE  PressureSuccessCost(deficit, ratio, barMax) \in Int
<1> DEFINE ceiling == AtLeast(AtMost(barMax, AIMD_BAR_MAX), AIMD_BAR_MIN)
           bar     == AtMost(PressureBar(ratio), ceiling)
<1>1. bar \in Int
  BY PressureBarType DEF AtLeast, AtMost, AIMD_BAR_MIN, AIMD_BAR_MAX
<1>2. deficit > 1 => CeilDiv(bar, deficit) \in Int
  <2> HIDE DEF bar
  <2> QED  BY <1>1 DEF CeilDiv
<1> QED
  BY <1>2 DEF PressureSuccessCost, AtLeast

\* A slot never costs more under the adaptive bar than under the static one.
LEMMA AdaptiveCostsNoMore ==
  ASSUME NEW deficit \in Nat, NEW ratio \in Ratio, NEW barMax \in Nat
  PROVE  PressureSuccessCost(deficit, ratio, barMax) <= StaticSuccessCost(deficit)
<1> DEFINE ceiling == AtLeast(AtMost(barMax, AIMD_BAR_MAX), AIMD_BAR_MIN)
           bar     == AtMost(PressureBar(ratio), ceiling)
<1>1. bar \in 1 .. 8
  BY PressureBarType DEF AtLeast, AtMost, AIMD_BAR_MIN, AIMD_BAR_MAX
<1>2. CASE deficit <= 1
  BY <1>2 DEF PressureSuccessCost, StaticSuccessCost
<1>3. CASE deficit > 1
  <2>1. CeilDiv(bar, deficit) <= CeilDiv(8, deficit)
    <3> HIDE DEF bar
    <3> QED  BY <1>1, <1>3, CeilDivMonotone
  <2>2. StaticSuccessCost(deficit) = CeilDiv(8, deficit) /\ CeilDiv(8, deficit) >= 1
    BY <1>3, StaticSuccessCostType DEF StaticSuccessCost, AIMD_SUCCESS_THRESHOLD
  <2>3. PressureSuccessCost(deficit, ratio, barMax) = AtLeast(CeilDiv(bar, deficit), 1)
    BY <1>3 DEF PressureSuccessCost
  <2> QED
    BY <2>1, <2>2, <2>3 DEF AtLeast
<1> QED
  BY <1>2, <1>3

-----------------------------------------------------------------------------
(* One outcome recorded in one window.                                     *)

\* A 429 keeps a window well-formed: it never falls below one slot.
LEMMA RecordRateLimitedType ==
  ASSUME NEW mode \in AimdModes, NEW w \in KeyWindow
  PROVE  RecordRateLimited(mode, w) \in KeyWindow
<1>1. /\ w.current \in 1 .. MaxInFlightPerKey /\ w.successesSinceIncrease \in Nat
      /\ w.pressureSuccesses \in Nat /\ w.pressureRatio \in Ratio
  BY DEF KeyWindow
<1>2. AtLeast(w.current \div 2, 1) \in 1 .. MaxInFlightPerKey
  BY <1>1, MaxInFlightAssumption, SMT DEF AtLeast
<1>3. /\ w.successesSinceIncrease \div AIMD_CREDIT_DECAY \in Nat
      /\ w.pressureSuccesses \div AIMD_CREDIT_DECAY \in Nat
  BY <1>1, SMT DEF AIMD_CREDIT_DECAY
<1>4. FoldOutcome(w.pressureRatio, TRUE) \in Ratio
  BY <1>1, FoldOutcomeType
<1> QED
  BY <1>2, <1>3, <1>4 DEF RecordRateLimited, KeyWindow

\* A success keeps a window well-formed: it never grows past the ceiling.
LEMMA RecordSuccessType ==
  ASSUME NEW mode \in AimdModes, NEW barMax \in Nat, NEW w \in KeyWindow
  PROVE  RecordSuccess(mode, barMax, w) \in KeyWindow
<1>1. /\ w.current \in 1 .. MaxInFlightPerKey /\ w.successesSinceIncrease \in Nat
      /\ w.pressureSuccesses \in Nat /\ w.pressureRatio \in Ratio
  BY DEF KeyWindow
<1>2. w.current < MaxInFlightPerKey => w.current + 1 \in 1 .. MaxInFlightPerKey
  BY <1>1, MaxInFlightAssumption, SMT
<1>3. FoldOutcome(w.pressureRatio, FALSE) \in Ratio
  BY <1>1, FoldOutcomeType
<1> DEFINE below == w.current < MaxInFlightPerKey
           grown == below /\ BuysSlot(mode, barMax, w)
           current == IF grown THEN w.current + 1 ELSE w.current
           sizeCredit == IF grown \/ ~below THEN 0 ELSE w.successesSinceIncrease + 1
           barCredit == IF grown \/ ~below THEN 0 ELSE w.pressureSuccesses + 1
<1>4. current \in 1 .. MaxInFlightPerKey
  BY <1>1, <1>2
<1>5. sizeCredit \in Nat /\ barCredit \in Nat
  BY <1>1
<1>6. RecordSuccess(mode, barMax, w) =
        [ current                |-> current,
          successesSinceIncrease |-> sizeCredit,
          pressureSuccesses      |-> barCredit,
          pressureRatio          |-> FoldOutcome(w.pressureRatio, FALSE) ]
  BY DEF RecordSuccess
<1> HIDE DEF current, sizeCredit, barCredit
<1>7. \A c \in 1 .. MaxInFlightPerKey, m \in Nat, n \in Nat, q \in Ratio :
        [ current |-> c, successesSinceIncrease |-> m,
          pressureSuccesses |-> n, pressureRatio |-> q ] \in KeyWindow
  BY DEF KeyWindow
<1> QED
  BY <1>3, <1>4, <1>5, <1>6, <1>7, Zenon

-----------------------------------------------------------------------------
(* One key's window under both rules.                                      *)

\* How many slots a window may be short of.
Deficits == 0 .. MaxInFlightPerKey - 1

\* The sum of the costs is the function its recursive definition describes: one
\* that satisfies it up to n extends to n + 1.
LEMMA RecoveryCostUnfolds ==
  RecoveryCost = [d \in Deficits |->
                   IF d = 0 THEN 0 ELSE StaticSuccessCost(d) + RecoveryCost[d - 1]]
<1> DEFINE Costs(n, g) == /\ g \in [0 .. n -> Nat]
                          /\ \A i \in 0 .. n :
                               g[i] = IF i = 0 THEN 0 ELSE StaticSuccessCost(i) + g[i - 1]
           S == {n \in Nat : \E g : Costs(n, g)}
<1>1. 0 \in S
  <2>1. Costs(0, [i \in 0 .. 0 |-> 0])
    OBVIOUS
  <2> QED
    BY <2>1
<1>2. ASSUME NEW n \in S PROVE n + 1 \in S
  <2>0. n \in Nat
    OBVIOUS
  <2>1. PICK g : Costs(n, g)
    OBVIOUS
  <2> DEFINE c == StaticSuccessCost(n + 1)
             h == [i \in 0 .. n + 1 |-> IF i <= n THEN g[i] ELSE c + g[n]]
  <2>2. c \in Nat
    <3>1. n + 1 \in Nat
      BY <2>0
    <3>2. c \in 1 .. AIMD_SUCCESS_THRESHOLD
      BY <3>1, StaticSuccessCostType, Zenon
    <3> QED
      BY <3>2 DEF AIMD_SUCCESS_THRESHOLD
  <2> HIDE DEF c
  <2>3. h \in [0 .. n + 1 -> Nat]
    BY <2>1, <2>2
  <2>4. ASSUME NEW i \in 0 .. n + 1
        PROVE  h[i] = IF i = 0 THEN 0 ELSE StaticSuccessCost(i) + h[i - 1]
    <3>1. CASE i <= n
      BY <2>1, <3>1
    <3>2. CASE i = n + 1
      BY <3>2 DEF c
    <3> QED
      BY <3>1, <3>2
  <2>5. Costs(n + 1, h)
    BY <2>3, <2>4
  <2>6. n + 1 \in Nat
    BY <2>0
  <2> HIDE DEF Costs
  <2> QED
    BY <2>5, <2>6
<1>3. S = Nat
  <2> HIDE DEF S
  <2>1. S \in SUBSET Nat
    BY DEF S
  <2> QED
    BY <1>1, <1>2, <2>1, InductiveSet
<1>4. \E g : Costs(MaxInFlightPerKey - 1, g)
  <2>1. MaxInFlightPerKey - 1 \in Nat
    BY MaxInFlightAssumption
  <2>2. MaxInFlightPerKey - 1 \in S
    BY <1>3, <2>1, Zenon
  <2> QED
    BY <2>2
<1>5. \E f : f = [d \in 0 .. MaxInFlightPerKey - 1 |->
                   IF d = 0 THEN 0 ELSE StaticSuccessCost(d) + f[d - 1]]
  <2>1. PICK g : Costs(MaxInFlightPerKey - 1, g)
    BY <1>4
  <2>2. g = [d \in 0 .. MaxInFlightPerKey - 1 |->
                   IF d = 0 THEN 0 ELSE StaticSuccessCost(d) + g[d - 1]]
    BY <2>1
  <2> QED
    BY <2>2
<1> QED
  BY <1>5 DEF RecoveryCost, Deficits


-----------------------------------------------------------------------------
(* The comparison is not inductive alone: when the two windows are equal,  *)
(* the adaptive one must also hold as much credit, or the next success     *)
(* could lift the fixed one past it.                                       *)
Ahead(a, f) ==
  \/ a.current > f.current
  \/ a.current = f.current /\ a.pressureSuccesses >= f.successesSinceIncrease

(* Nor is the recovery: a streak has bought every slot that the fixed      *)
(* window is not short of, and what is left over is credit, which never    *)
(* covers a whole slot.                                                    *)
Deficit(w) == MaxInFlightPerKey - w.current

OnTheWayBack(f, s) ==
  /\ s + RecoveryCost[Deficit(f)] <= StreakCap + f.successesSinceIncrease
  /\ Deficit(f) > 0 => f.successesSinceIncrease < StaticSuccessCost(Deficit(f))

WindowIInv ==
  /\ WindowTypeOK
  /\ Ahead(window[PressureAdaptive], window[Fixed])
  /\ OnTheWayBack(window[Fixed], streak)

\* What the slots cost are numbers, and each slot adds its own cost.
LEMMA RecoveryCostType ==
  /\ RecoveryCost \in [Deficits -> Nat]
  /\ RecoveryCost[0] = 0
  /\ \A d \in Deficits \ {0} :
       RecoveryCost[d] = StaticSuccessCost(d) + RecoveryCost[d - 1]
<1>1. /\ RecoveryCost[0] = 0
      /\ \A d \in Deficits \ {0} :
           RecoveryCost[d] = StaticSuccessCost(d) + RecoveryCost[d - 1]
  <2>1. 0 \in Deficits
    BY MaxInFlightAssumption DEF Deficits
  <2>2. \A d \in Deficits :
          RecoveryCost[d] = IF d = 0 THEN 0 ELSE StaticSuccessCost(d) + RecoveryCost[d - 1]
    BY RecoveryCostUnfolds, Zenon
  <2> QED
    BY <2>1, <2>2
<1> DEFINE S == {n \in Nat : n \in Deficits => RecoveryCost[n] \in Nat}
<1>2. ASSUME NEW n \in S PROVE n + 1 \in S
  <2>1. n \in Nat /\ n + 1 \in Nat
    OBVIOUS
  <2>2. ASSUME n + 1 \in Deficits PROVE RecoveryCost[n + 1] \in Nat
    <3>0. n \in Deficits
      BY <2>1, <2>2, MaxInFlightAssumption DEF Deficits
    <3>1. RecoveryCost[n] \in Nat
      BY <3>0
    <3>2. StaticSuccessCost(n + 1) \in Nat
      BY <2>1, StaticSuccessCostType DEF AIMD_SUCCESS_THRESHOLD
    <3>3. RecoveryCost[n + 1] = StaticSuccessCost(n + 1) + RecoveryCost[(n + 1) - 1]
      BY <1>1, <2>1, <2>2
    <3>4. (n + 1) - 1 = n
      BY <2>1
    <3> QED
      BY <3>1, <3>2, <3>3, <3>4
  <2> QED
    BY <2>1, <2>2
<1>3. S = Nat
  <2>1. 0 \in S /\ S \in SUBSET Nat
    BY <1>1
  <2> HIDE DEF S
  <2> QED
    BY <1>2, <2>1, InductiveSet
<1>4. \A d \in Deficits : RecoveryCost[d] \in Nat
  BY <1>3 DEF Deficits
<1>5. RecoveryCost \in [Deficits -> Nat]
  BY <1>4, RecoveryCostUnfolds
<1> QED
  BY <1>1, <1>5

\* No deficit costs more than the deepest one.
LEMMA RecoveryCostBounded ==
  ASSUME NEW d \in Deficits
  PROVE  RecoveryCost[d] <= StreakCap
<1> DEFINE Deepest == MaxInFlightPerKey - 1
           S == {n \in Nat : n <= Deepest => RecoveryCost[Deepest - n] <= StreakCap}
<1>0. Deepest \in Nat /\ Deepest \in Deficits
  BY MaxInFlightAssumption DEF Deficits
<1>1. 0 \in S
  BY <1>0, RecoveryCostType DEF StreakCap
<1>2. ASSUME NEW n \in S PROVE n + 1 \in S
  <2>1. n \in Nat /\ n + 1 \in Nat
    OBVIOUS
  <2>2. ASSUME n + 1 <= Deepest PROVE RecoveryCost[Deepest - (n + 1)] <= StreakCap
    <3> DEFINE e == Deepest - n
    <3>1. e \in Deficits \ {0} /\ e - 1 \in Deficits /\ e - 1 = Deepest - (n + 1) /\ e \in Nat
      BY <1>0, <2>1, <2>2 DEF Deficits
    <3>2. RecoveryCost[e] <= StreakCap
      BY <1>0, <2>1, <2>2
    <3> HIDE DEF e
    <3>3. RecoveryCost[e] = StaticSuccessCost(e) + RecoveryCost[e - 1]
      BY <3>1, RecoveryCostType
    <3>4. StaticSuccessCost(e) \in Nat
      BY <3>1, StaticSuccessCostType DEF AIMD_SUCCESS_THRESHOLD
    <3>5. RecoveryCost[e - 1] \in Nat /\ StreakCap \in Nat
      BY <1>0, <3>1, RecoveryCostType DEF StreakCap
    <3>6. RecoveryCost[e - 1] <= StreakCap
      BY <3>2, <3>3, <3>4, <3>5
    <3> QED
      BY <3>1, <3>6
  <2> QED
    BY <2>1, <2>2
<1>3. S = Nat
  <2>1. S \in SUBSET Nat
    OBVIOUS
  <2> HIDE DEF S
  <2> QED
    BY <1>1, <1>2, <2>1, InductiveSet
<1>4. Deepest - d \in Nat /\ Deepest - d <= Deepest /\ Deepest - (Deepest - d) = d
  BY <1>0 DEF Deficits
<1>5. Deepest - d \in S
  BY <1>3, <1>4, Zenon
<1> QED
  BY <1>4, <1>5

\* A 429 starts the way back anew, wherever it pushes the window.
LEMMA OnTheWayBackAfterRateLimited ==
  ASSUME NEW f \in KeyWindow
  PROVE  OnTheWayBack(RecordRateLimited(Fixed, f), 0)
<1> DEFINE F == RecordRateLimited(Fixed, f)
<1>1. F \in KeyWindow
  BY RecordRateLimitedType DEF AimdModes
<1>2. F.successesSinceIncrease = 0
  BY DEF RecordRateLimited
<1> HIDE DEF F
<1>3. Deficit(F) \in Deficits /\ Deficit(F) \in Nat
  BY <1>1, MaxInFlightAssumption DEF KeyWindow, Deficit, Deficits
<1>4. RecoveryCost[Deficit(F)] \in Nat /\ RecoveryCost[Deficit(F)] <= StreakCap
  BY <1>3, RecoveryCostType, RecoveryCostBounded
<1>5. StaticSuccessCost(Deficit(F)) \in 1 .. 8
  BY <1>3, StaticSuccessCostType DEF AIMD_SUCCESS_THRESHOLD
<1>6. StreakCap \in Nat
  BY RecoveryCostType, MaxInFlightAssumption DEF StreakCap, Deficits
<1>7. OnTheWayBack(F, 0)
  BY <1>2, <1>4, <1>5, <1>6 DEF OnTheWayBack
<1> QED
  BY <1>7 DEF F

\* A success is a step of the way back: it buys a slot, or adds to the credit.
LEMMA OnTheWayBackAfterSuccess ==
  ASSUME NEW barMax \in Nat, NEW f \in KeyWindow, NEW s \in 0 .. StreakCap,
         OnTheWayBack(f, s)
  PROVE  OnTheWayBack(RecordSuccess(Fixed, barMax, f),
                      IF s < StreakCap THEN s + 1 ELSE s)
<1> DEFINE F == RecordSuccess(Fixed, barMax, f)
           t == IF s < StreakCap THEN s + 1 ELSE s
           d == Deficit(f)
           c == f.successesSinceIncrease
<1>0. StreakCap \in Nat
  BY RecoveryCostType, MaxInFlightAssumption DEF StreakCap, Deficits
<1>1. /\ f.current \in 1 .. MaxInFlightPerKey /\ c \in Nat
      /\ d \in Deficits /\ d \in Nat /\ (d > 0 <=> f.current < MaxInFlightPerKey)
  BY MaxInFlightAssumption DEF KeyWindow, Deficit, Deficits
<1>2. s \in Nat /\ t \in Nat /\ t <= StreakCap /\ t <= s + 1
  BY <1>0
<1>3. RecoveryCost[d] \in Nat /\ StaticSuccessCost(d) \in 1 .. 8
  BY <1>1, RecoveryCostType, StaticSuccessCostType DEF AIMD_SUCCESS_THRESHOLD
<1>4. BuysSlot(Fixed, barMax, f) <=> c + 1 >= StaticSuccessCost(d)
  BY DEF BuysSlot, Deficit
<1>5. s + RecoveryCost[d] <= StreakCap + c /\ (d > 0 => c < StaticSuccessCost(d))
  BY DEF OnTheWayBack
<1>6. CASE d = 0
  <2>1. F.current = f.current /\ F.successesSinceIncrease = 0
    BY <1>1, <1>6, MaxInFlightAssumption DEF RecordSuccess
  <2>2. Deficit(F) = 0
    BY <1>6, <2>1 DEF Deficit
  <2>3. t + 0 <= StreakCap + 0
    BY <1>0, <1>2
  <2> HIDE DEF F, t
  <2>4. OnTheWayBack(F, t)
    BY <2>1, <2>2, <2>3, RecoveryCostType DEF OnTheWayBack
  <2> QED
    BY <2>4 DEF F, t
<1>7. CASE d > 0 /\ c + 1 >= StaticSuccessCost(d)
  <2>1. F.current = f.current + 1 /\ F.successesSinceIncrease = 0
    BY <1>1, <1>4, <1>7 DEF RecordSuccess
  <2>2. Deficit(F) = d - 1 /\ d - 1 \in Deficits /\ d - 1 \in Nat /\ d \in Deficits \ {0}
    BY <1>1, <1>7, <2>1, MaxInFlightAssumption DEF Deficit, Deficits
  <2>3. /\ RecoveryCost[d] = StaticSuccessCost(d) + RecoveryCost[d - 1]
        /\ RecoveryCost[d - 1] \in Nat /\ StaticSuccessCost(d - 1) \in 1 .. 8
    BY <2>2, RecoveryCostType, StaticSuccessCostType DEF AIMD_SUCCESS_THRESHOLD
  <2> HIDE DEF F, t, d, c
  <2>4. t + RecoveryCost[d - 1] <= StreakCap + 0
    BY <1>0, <1>1, <1>2, <1>3, <1>5, <1>7, <2>3
  <2>5. OnTheWayBack(F, t)
    BY <2>1, <2>2, <2>3, <2>4 DEF OnTheWayBack
  <2> QED
    BY <2>5 DEF F, t
<1>8. CASE d > 0 /\ ~ (c + 1 >= StaticSuccessCost(d))
  <2>1. F.current = f.current /\ F.successesSinceIncrease = c + 1
    BY <1>1, <1>4, <1>8 DEF RecordSuccess
  <2>2. Deficit(F) = d
    BY <2>1 DEF Deficit
  <2> HIDE DEF F, t, d, c
  <2>3. t + RecoveryCost[d] <= StreakCap + (c + 1) /\ c + 1 < StaticSuccessCost(d)
    BY <1>0, <1>1, <1>2, <1>3, <1>5, <1>8
  <2>4. OnTheWayBack(F, t)
    BY <2>1, <2>2, <2>3 DEF OnTheWayBack
  <2> QED
    BY <2>4 DEF F, t
<1>9. d = 0 \/ d > 0
  BY <1>1
<1> QED
  BY <1>6, <1>7, <1>8, <1>9

\* A 429 halves both windows, and wipes the fixed credit only.
LEMMA AheadAfterRateLimited ==
  ASSUME NEW a \in KeyWindow, NEW f \in KeyWindow, Ahead(a, f)
  PROVE  Ahead(RecordRateLimited(PressureAdaptive, a), RecordRateLimited(Fixed, f))
<1> DEFINE A == RecordRateLimited(PressureAdaptive, a)
           F == RecordRateLimited(Fixed, f)
<1>1. a.current \in Nat /\ f.current \in Nat /\ a.current >= f.current
  BY MaxInFlightAssumption DEF Ahead, KeyWindow
<1>2. A.current \in Int /\ F.current \in Int /\ A.current >= F.current
  BY <1>1, SMT DEF RecordRateLimited, AtLeast
<1>3. F.successesSinceIncrease = 0
  BY DEF RecordRateLimited
<1>4. A.pressureSuccesses \in Nat
  BY RecordRateLimitedType DEF KeyWindow, AimdModes
<1> QED
  BY <1>2, <1>3, <1>4 DEF Ahead

\* A success that lifts the fixed window lifts an equal adaptive one too.
LEMMA AheadAfterSuccess ==
  ASSUME NEW barMax \in Nat, NEW a \in KeyWindow, NEW f \in KeyWindow, Ahead(a, f)
  PROVE  Ahead(RecordSuccess(PressureAdaptive, barMax, a), RecordSuccess(Fixed, barMax, f))
<1> DEFINE A == RecordSuccess(PressureAdaptive, barMax, a)
           F == RecordSuccess(Fixed, barMax, f)
<1>1. /\ a.current \in 1 .. MaxInFlightPerKey /\ f.current \in 1 .. MaxInFlightPerKey
      /\ a.pressureSuccesses \in Nat /\ f.successesSinceIncrease \in Nat
      /\ a.pressureRatio \in Ratio
  BY DEF KeyWindow
<1>2. A.current \in {a.current, a.current + 1} /\ F.current \in {f.current, f.current + 1}
  BY DEF RecordSuccess
<1>3. A.pressureSuccesses \in Nat
  BY <1>1 DEF RecordSuccess
<1>4. F.current # f.current => F.current = f.current + 1 /\ F.successesSinceIncrease = 0
  BY <1>1, MaxInFlightAssumption DEF RecordSuccess
<1>5. CASE a.current > f.current
  <2>1. CASE F.current # f.current
    BY <1>1, <1>2, <1>3, <1>4, <1>5, <2>1, MaxInFlightAssumption DEF Ahead
  <2>2. CASE F.current = f.current
    BY <1>1, <1>2, <1>5, <2>2, MaxInFlightAssumption DEF Ahead
  <2> QED
    BY <2>1, <2>2
<1>6. CASE a.current = f.current /\ a.pressureSuccesses >= f.successesSinceIncrease
  <2> DEFINE deficit == MaxInFlightPerKey - f.current
             ratio   == FoldOutcome(a.pressureRatio, FALSE)
  <2>0. ratio \in Ratio
    BY <1>1, FoldOutcomeType
  <2>1. deficit \in Nat /\ deficit = MaxInFlightPerKey - a.current
    BY <1>1, <1>6, MaxInFlightAssumption
  <2> HIDE DEF ratio, deficit
  <2>2. PressureSuccessCost(deficit, ratio, barMax) <= StaticSuccessCost(deficit)
    BY <2>0, <2>1, AdaptiveCostsNoMore
  <2>3. /\ StaticSuccessCost(deficit) \in Int
        /\ PressureSuccessCost(deficit, ratio, barMax) \in Int
    BY <2>0, <2>1, StaticSuccessCostType, PressureSuccessCostType DEF AIMD_SUCCESS_THRESHOLD
  <2>4. BuysSlot(Fixed, barMax, f)
          <=> f.successesSinceIncrease + 1 >= StaticSuccessCost(deficit)
    BY DEF BuysSlot, deficit
  <2>5. BuysSlot(PressureAdaptive, barMax, a)
          <=> a.pressureSuccesses + 1 >= PressureSuccessCost(deficit, ratio, barMax)
    BY <2>1 DEF BuysSlot, ratio, Fixed, PressureAdaptive
  <2>6. f.successesSinceIncrease + 1 >= StaticSuccessCost(deficit)
          => a.pressureSuccesses + 1 >= PressureSuccessCost(deficit, ratio, barMax)
    BY <1>1, <1>6, <2>2, <2>3
  <2>7. BuysSlot(Fixed, barMax, f) => BuysSlot(PressureAdaptive, barMax, a)
    BY <2>4, <2>5, <2>6, Zenon
  <2> QED
    BY <1>1, <1>6, <2>7, MaxInFlightAssumption DEF Ahead, RecordSuccess
<1> QED
  BY <1>5, <1>6 DEF Ahead

-----------------------------------------------------------------------------
\* The strengthened invariant holds of a key never used.
LEMMA WindowInitIInv == WindowInit => WindowIInv
<1> SUFFICES ASSUME WindowInit PROVE WindowIInv
  OBVIOUS
<1>1. StreakCap \in Nat /\ RecoveryCost[0] = 0
  BY RecoveryCostType, MaxInFlightAssumption DEF StreakCap, Deficits
<1>2. NewWindow \in KeyWindow
  BY MaxInFlightAssumption DEF NewWindow, KeyWindow, Ratio, RatioOne
<1>3. window[Fixed] = NewWindow /\ window[PressureAdaptive] = NewWindow /\ streak = 0
  BY DEF WindowInit, AimdModes
<1>4. WindowTypeOK
  BY <1>1, <1>2 DEF WindowInit, WindowTypeOK
<1>5. Ahead(NewWindow, NewWindow)
  BY DEF NewWindow, Ahead
<1>6. Deficit(NewWindow) = 0 /\ NewWindow.successesSinceIncrease = 0
  BY MaxInFlightAssumption DEF NewWindow, Deficit
<1>7. OnTheWayBack(NewWindow, 0)
  BY <1>1, <1>6 DEF OnTheWayBack
<1> QED
  BY <1>3, <1>4, <1>5, <1>7 DEF WindowIInv

\* Either outcome preserves the strengthened invariant.
LEMMA WindowNextIInv == WindowIInv /\ [WindowNext]_windowVars => WindowIInv'
<1> SUFFICES ASSUME WindowIInv, [WindowNext]_windowVars PROVE WindowIInv'
  OBVIOUS
<1> USE DEF WindowIInv
<1>0. StreakCap \in Nat
  BY RecoveryCostType, MaxInFlightAssumption DEF StreakCap, Deficits
<1>1. /\ Fixed \in AimdModes /\ PressureAdaptive \in AimdModes
      /\ window[Fixed] \in KeyWindow /\ window[PressureAdaptive] \in KeyWindow
      /\ window \in [AimdModes -> KeyWindow] /\ streak \in 0 .. StreakCap
  BY DEF WindowTypeOK, AimdModes
<1>2. CASE SuccessInBoth
  <2>0. /\ window' = [m \in AimdModes |-> RecordSuccess(m, AimdMaxSuccessBar, window[m])]
        /\ streak' = IF streak < StreakCap THEN streak + 1 ELSE streak
    BY <1>2 DEF SuccessInBoth
  <2>1. \A m \in AimdModes : window'[m] \in KeyWindow
    BY <1>1, <2>0, RecordSuccessType, BarAssumption
  <2>2. window' \in [AimdModes -> KeyWindow] /\ streak' \in 0 .. StreakCap
    BY <1>0, <1>1, <2>0, <2>1
  <2>3. Ahead(window[PressureAdaptive], window[Fixed])'
    BY <1>1, <2>0, AheadAfterSuccess, BarAssumption
  <2>4. OnTheWayBack(window'[Fixed], streak')
    BY <1>1, <2>0, OnTheWayBackAfterSuccess, BarAssumption
  <2>5. WindowTypeOK'
    BY <2>2 DEF WindowTypeOK, StreakCap
  <2> QED
    BY <2>3, <2>4, <2>5
<1>3. CASE RateLimitedInBoth
  <2>0. /\ window' = [m \in AimdModes |-> RecordRateLimited(m, window[m])]
        /\ streak' = 0
    BY <1>3 DEF RateLimitedInBoth
  <2>1. \A m \in AimdModes : window'[m] \in KeyWindow
    BY <1>1, <2>0, RecordRateLimitedType
  <2>2. window' \in [AimdModes -> KeyWindow] /\ streak' \in 0 .. StreakCap
    BY <1>0, <1>1, <2>0, <2>1
  <2>3. Ahead(window[PressureAdaptive], window[Fixed])'
    BY <1>1, <2>0, AheadAfterRateLimited
  <2>4. OnTheWayBack(window'[Fixed], streak')
    BY <1>1, <2>0, OnTheWayBackAfterRateLimited
  <2>5. WindowTypeOK'
    BY <2>2 DEF WindowTypeOK, StreakCap
  <2> QED
    BY <2>3, <2>4, <2>5
<1>4. CASE UNCHANGED windowVars
  BY <1>4 DEF windowVars, WindowTypeOK
<1> QED
  BY <1>2, <1>3, <1>4 DEF WindowNext

\* The windows of a key stay well-formed: between one slot and the ceiling.
THEOREM WindowTypeCorrect == WindowSpec => []WindowTypeOK
<1>1. WindowIInv => WindowTypeOK
  BY DEF WindowIInv
<1> QED
  BY WindowInitIInv, WindowNextIInv, <1>1, PTL DEF WindowSpec

\* AimdMode::PressureAdaptive never leaves a key with a smaller window than
\* AimdMode::Fixed would have, for every ceiling and every bar.
THEOREM AdaptiveNeverBehind == WindowSpec => []AdaptiveNeverBehindFixed
<1>1. WindowIInv => AdaptiveNeverBehindFixed
  BY DEF WindowIInv, Ahead, AdaptiveNeverBehindFixed, WindowTypeOK, KeyWindow, AimdModes
<1> QED
  BY WindowInitIInv, WindowNextIInv, <1>1, PTL DEF WindowSpec

\* A key that answers for as many requests as the static costs add up to, with
\* no 429 in between, is back at its ceiling under either rule.
THEOREM StreakRecovers == WindowSpec => []RecoveredAfterStreak
<1>1. WindowIInv => RecoveredAfterStreak
  <2> SUFFICES ASSUME WindowIInv, streak = StreakCap
               PROVE  \A m \in AimdModes : window[m].current = MaxInFlightPerKey
    BY DEF RecoveredAfterStreak
  <2> DEFINE f == window[Fixed]
             a == window[PressureAdaptive]
             d == Deficit(f)
  <2>1. /\ f \in KeyWindow /\ a \in KeyWindow /\ a.current >= f.current
        /\ OnTheWayBack(f, StreakCap)
    BY DEF WindowIInv, WindowTypeOK, AimdModes, Ahead, KeyWindow
  <2>2. d \in Deficits /\ d \in Nat /\ f.successesSinceIncrease \in Nat
    BY <2>1, MaxInFlightAssumption DEF Deficit, Deficits, KeyWindow
  <2>3. ASSUME d > 0 PROVE FALSE
    <3>1. d \in Deficits \ {0} /\ d - 1 \in Deficits
      <4> HIDE DEF d
      <4> QED  BY <2>2, <2>3, MaxInFlightAssumption DEF Deficits
    <3>2. /\ RecoveryCost[d] = StaticSuccessCost(d) + RecoveryCost[d - 1]
          /\ RecoveryCost[d - 1] \in Nat /\ StreakCap \in Nat
          /\ StaticSuccessCost(d) \in 1 .. 8
      BY <2>2, <3>1, RecoveryCostType, StaticSuccessCostType, MaxInFlightAssumption
      DEF AIMD_SUCCESS_THRESHOLD, StreakCap, Deficits
    <3>3. /\ StreakCap + RecoveryCost[d] <= StreakCap + f.successesSinceIncrease
          /\ f.successesSinceIncrease < StaticSuccessCost(d)
      BY <2>1, <2>3 DEF OnTheWayBack
    <3> HIDE DEF d, f
    <3> QED
      BY <2>2, <3>2, <3>3
  <2>4. f.current = MaxInFlightPerKey
    BY <2>1, <2>2, <2>3, MaxInFlightAssumption DEF Deficit, KeyWindow
  <2>5. a.current = MaxInFlightPerKey
    BY <2>1, <2>4, MaxInFlightAssumption DEF KeyWindow
  <2> QED
    BY <2>4, <2>5 DEF AimdModes
<1> QED
  BY WindowInitIInv, WindowNextIInv, <1>1, PTL DEF WindowSpec

-----------------------------------------------------------------------------
(* The pool.                                                               *)

USE DEF Keys, NoKey

LEMMA ZeroIsKey == 0 \in Keys
BY KeyPoolAssumption

LEMMA KeyAtType ==
  ASSUME NEW s \in ScanState
  PROVE  KeyAt(s) \in Keys
BY KeyPoolAssumption DEF KeyAt, ScanState

\* What moving a scan does to its state.
LEMMA ScanStateUpdate ==
  ASSUME NEW s \in ScanState, NEW p \in Keys, NEW n \in Nat
  PROVE  /\ [s EXCEPT !.pos = p] \in ScanState
         /\ [s EXCEPT !.inFlight = n] \in ScanState
         /\ [s EXCEPT !.pass = 1] \in ScanState
         /\ [s EXCEPT !.busy = TRUE] \in ScanState
         /\ [s EXCEPT !.active = TRUE] \in ScanState
<1>1. [s EXCEPT !.pos = p] \in ScanState
  BY DEF ScanState
<1>2. [s EXCEPT !.inFlight = n] \in ScanState
  BY DEF ScanState
<1>3. [s EXCEPT !.pass = 1] \in ScanState
  BY DEF ScanState
<1>4. [s EXCEPT !.busy = TRUE] \in ScanState
  BY DEF ScanState
<1>5. [s EXCEPT !.active = TRUE] \in ScanState
  BY DEF ScanState
<1> QED
  BY <1>1, <1>2, <1>3, <1>4, <1>5

LEMMA NoScanType == NoScan \in ScanState
BY KeyPoolAssumption DEF NoScan, ScanState

LEMMA InFlightType ==
  ASSUME NEW k
  PROVE  InFlight(k) \in Nat
<1>1. IsFiniteSet({r \in Requests : lease[r] = k})
  BY KeyPoolAssumption, FS_Subset, {r \in Requests : lease[r] = k} \subseteq Requests
<1> QED
  BY <1>1, FS_CardinalityType DEF InFlight

\* The view of a window that the fixed mode reads is a window.
LEMMA FixedViewType ==
  ASSUME NEW w \in KeyWindow
  PROVE  FixedView(w) \in KeyWindow
<1> DEFINE v == [w EXCEPT !.pressureSuccesses = 0]
<1>1. v \in KeyWindow
  BY DEF KeyWindow
<1>2. \A u \in KeyWindow : [u EXCEPT !.pressureRatio = 0] \in KeyWindow
  BY DEF KeyWindow, Ratio, RatioOne
<1>3. FixedView(w) = [v EXCEPT !.pressureRatio = 0]
  BY DEF FixedView
<1> HIDE DEF v
<1> QED
  BY <1>1, <1>2, <1>3

\* The history variable stays well-formed over any step.
LEMMA WatchType ==
  ASSUME Watch, watch \in [Requests -> Watched]
  PROVE  watch' \in [Requests -> Watched]
<1> SUFFICES ASSUME NEW r \in Requests PROVE watch'[r] \in Watched
  BY DEF Watch
<1> DEFINE warmNow == Warm(scan[r])'
           freeNow == {k \in warmNow : /\ HasRoom(k)'
                                       /\ windows'[k].current >= windows[k].current}
<1>1. warmNow \subseteq Keys /\ freeNow \subseteq Keys
  BY DEF Warm
<1>2. watch[r] \in Watched
  OBVIOUS
<1> HIDE DEF warmNow, freeNow, Keys
<1>3. watch'[r] = IF pc'[r] \notin ScanPcs \cup Refusals
                  THEN [warm |-> {}, cold |-> {}, free |-> {}]
                  ELSE IF pc[r] = "idle"
                       THEN [warm |-> warmNow, cold |-> Keys \ warmNow, free |-> freeNow]
                       ELSE [warm |-> watch[r].warm \cap warmNow,
                             cold |-> watch[r].cold \ warmNow,
                             free |-> watch[r].free \cap freeNow]
  BY Zenon DEF Watch, warmNow, freeNow
<1> QED
  BY <1>1, <1>2, <1>3 DEF Watched

\* Where Advance takes a scan that stands at s.
LEMMA AdvanceType ==
  ASSUME RequestTypeOK, NEW r \in Requests, NEW s \in ScanState, Advance(r, s)
  PROVE  /\ \E t \in ScanState : scan' = [scan EXCEPT ![r] = t]
         /\ \E to \in {"cooldown"} \cup Refusals : pc' = [pc EXCEPT ![r] = to]
<1>1. CASE s.pos < NKeys - 1
  <2>1. [s EXCEPT !.pos = @ + 1, !.inFlight = 0] \in ScanState
    <3>1. s.pos + 1 \in Keys
      BY <1>1, KeyPoolAssumption DEF ScanState
    <3> DEFINE t == [s EXCEPT !.pos = s.pos + 1]
    <3>2. t \in ScanState
      BY <3>1, ScanStateUpdate
    <3>3. [s EXCEPT !.pos = @ + 1, !.inFlight = 0] = [t EXCEPT !.inFlight = 0]
      OBVIOUS
    <3> HIDE DEF t
    <3>4. [t EXCEPT !.inFlight = 0] \in ScanState
      BY <3>2, ScanStateUpdate, ZeroIsKey
    <3> QED
      BY <3>3, <3>4, Zenon
  <2> QED
    BY <1>1, <2>1 DEF Advance, Goto
<1>2. CASE ~(s.pos < NKeys - 1) /\ s.pass = 0
  <2>1. [s EXCEPT !.pass = 1, !.pos = 0, !.inFlight = 0] \in ScanState
    <3>1. 0 \in Keys
      BY KeyPoolAssumption
    <3> DEFINE t == [s EXCEPT !.pass = 1]
               u == [t EXCEPT !.pos = 0]
    <3>2. t \in ScanState
      BY <3>1, ScanStateUpdate
    <3>3. [s EXCEPT !.pass = 1, !.pos = 0, !.inFlight = 0] = [u EXCEPT !.inFlight = 0]
      OBVIOUS
    <3> HIDE DEF t
    <3>4. u \in ScanState
      BY <3>1, <3>2, ScanStateUpdate
    <3> HIDE DEF u
    <3>5. [u EXCEPT !.inFlight = 0] \in ScanState
      BY <3>1, <3>4, ScanStateUpdate
    <3> QED
      BY <3>3, <3>5, Zenon
  <2> QED
    BY <1>2, <2>1 DEF Advance, Goto
<1>3. CASE ~(s.pos < NKeys - 1) /\ s.pass # 0
  BY <1>3 DEF Advance, Goto, Refusals
<1> QED
  BY <1>1, <1>2, <1>3

-----------------------------------------------------------------------------
LEMMA InitTypeOK == Init => TypeOK
<1> SUFFICES ASSUME Init PROVE TypeOK
  OBVIOUS
<1>1. 0 \in Keys
  BY KeyPoolAssumption
<1>2. NewWindow \in KeyWindow
  BY MaxInFlightAssumption DEF NewWindow, KeyWindow, Ratio, RatioOne
<1>3. PoolTypeOK
  BY <1>1, <1>2, KeyPoolAssumption DEF Init, PoolTypeOK, Bench, NoBench, RateLimit, AuthFailure
<1>4. RequestTypeOK
  <2>1. NoKey \notin Keys
    BY KeyPoolAssumption
  <2>2. "idle" \in Pcs /\ "idle" \notin LeasedPcs
    BY DEF Pcs, LeasedPcs
  <2>3. watch \in [Requests -> Watched]
    BY DEF Init, Watched
  <2> QED
    BY <2>1, <2>2, <2>3, NoScanType DEF Init, RequestTypeOK
<1> QED
  BY <1>3, <1>4 DEF TypeOK

\* The steps of a scan leave the pool's keys alone; what remains to show is how
\* they move one request.  A step that moves request r to pc `to`, with a lease
\* exactly when `to` calls for one, keeps the types.
LEMMA MoveType ==
  ASSUME RequestTypeOK, Watch, NEW r \in Requests,
         NEW to \in Pcs, pc' = [pc EXCEPT ![r] = to],
         NEW k \in Keys \cup {NoKey}, lease' = [lease EXCEPT ![r] = k],
         k \in Keys <=> to \in LeasedPcs,
         scan' \in [Requests -> ScanState],
         secs' \in [Requests -> Nat]
  PROVE  RequestTypeOK'
<1>1. pc' \in [Requests -> Pcs] /\ lease' \in [Requests -> Keys \cup {NoKey}]
  BY DEF RequestTypeOK
<1>2. ASSUME NEW q \in Requests
      PROVE  lease'[q] \in Keys <=> pc'[q] \in LeasedPcs
  <2> HIDE DEF Keys, NoKey
  <2>1. CASE q = r
    BY <2>1 DEF RequestTypeOK
  <2>2. CASE q # r
    BY <2>2 DEF RequestTypeOK
  <2> QED
    BY <2>1, <2>2
<1>3. watch' \in [Requests -> Watched]
  BY WatchType DEF RequestTypeOK
<1> QED
  BY <1>1, <1>2, <1>3 DEF RequestTypeOK
\* The steps that leave the keys, the clock and the counter alone.
LEMMA ScanStepType ==
  ASSUME TypeOK, NEW r \in Requests,
         CheckCooldown(r) \/ ReadInFlight(r) \/ CheckWindow(r) \/ TryPermit(r)
           \/ Refused(r) \/ DropLease(r)
  PROVE  TypeOK'
<1> USE DEF TypeOK
<1>1. PoolTypeOK'
  BY DEF PoolTypeOK, CheckCooldown, ReadInFlight, CheckWindow, TryPermit, Refused, DropLease,
         poolVars
<1> SUFFICES RequestTypeOK'
  BY <1>1
<1>2. /\ scan[r] \in ScanState /\ lease[r] \in Keys \cup {NoKey} /\ pc \in [Requests -> Pcs]
      /\ lease \in [Requests -> Keys \cup {NoKey}] /\ scan \in [Requests -> ScanState]
      /\ secs \in [Requests -> Nat] /\ pc[r] \in Pcs
      /\ lease[r] \in Keys <=> pc[r] \in LeasedPcs
  BY DEF RequestTypeOK
<1>3. NoKey \notin Keys
  BY KeyPoolAssumption
<1>4. /\ {"cooldown"} \cup Refusals \subseteq Pcs
      /\ \A to \in {"cooldown"} \cup Refusals : to \notin LeasedPcs
      /\ {"idle", "in_flight", "window", "permit", "leased", "done"} \subseteq Pcs
      /\ \A to \in {"idle", "in_flight", "window", "permit"} : to \notin LeasedPcs
      /\ {"leased", "done"} \subseteq LeasedPcs
      /\ \A from \in {"cooldown", "in_flight", "window", "permit"} \cup Refusals :
           from \notin LeasedPcs
  BY DEF Pcs, LeasedPcs, ScanPcs, Refusals
<1> HIDE DEF Keys, NoKey, TypeOK
<1>5. ASSUME UNCHANGED lease, UNCHANGED secs, Watch, pc[r] \notin LeasedPcs,
             NEW s \in ScanState, Advance(r, s)
      PROVE  RequestTypeOK'
  <2>1. PICK t \in ScanState : scan' = [scan EXCEPT ![r] = t]
    BY <1>5, AdvanceType DEF TypeOK
  <2>2. PICK to \in {"cooldown"} \cup Refusals : pc' = [pc EXCEPT ![r] = to]
    BY <1>5, AdvanceType DEF TypeOK
  <2>3. lease' = [lease EXCEPT ![r] = lease[r]] /\ lease[r] \notin Keys
    BY <1>2, <1>5
  <2>4. scan' \in [Requests -> ScanState]
    BY <1>2, <2>1
  <2>5. to \in Pcs /\ to \notin LeasedPcs /\ RequestTypeOK /\ secs' \in [Requests -> Nat]
    BY <1>2, <1>4, <1>5 DEF TypeOK
  <2> QED
    BY <1>2, <1>5, <2>2, <2>3, <2>4, <2>5, MoveType
<1>6. ASSUME UNCHANGED lease, UNCHANGED secs, Watch, pc[r] \notin LeasedPcs,
             scan' \in [Requests -> ScanState],
             NEW to \in Pcs \ LeasedPcs, pc' = [pc EXCEPT ![r] = to]
      PROVE  RequestTypeOK'
  <2>1. lease' = [lease EXCEPT ![r] = lease[r]] /\ lease[r] \notin Keys
    BY <1>2, <1>6
  <2>2. RequestTypeOK /\ secs' \in [Requests -> Nat]
    BY <1>2, <1>6 DEF TypeOK
  <2> QED
    BY <1>2, <1>6, <2>1, <2>2, MoveType
<1>7. CASE CheckCooldown(r)
  <2>1. CASE Skips(scan[r]) \/ Cooling(KeyAt(scan[r]), scan[r].at)
    BY <1>2, <1>4, <1>5, <1>7, <2>1 DEF CheckCooldown
  <2>2. CASE ~(Skips(scan[r]) \/ Cooling(KeyAt(scan[r]), scan[r].at))
    <3>1. [scan[r] EXCEPT !.active = TRUE] \in ScanState
      BY <1>2, ScanStateUpdate, ZeroIsKey
    <3>2. scan' \in [Requests -> ScanState]
      BY <1>2, <1>7, <2>2, <3>1 DEF CheckCooldown
    <3> QED
      BY <1>4, <1>6, <1>7, <2>2, <3>2 DEF CheckCooldown, Goto
  <2> QED
    BY <2>1, <2>2
<1>8. CASE ReadInFlight(r)
  <2>1. [scan[r] EXCEPT !.inFlight = InFlight(KeyAt(scan[r]))] \in ScanState
    BY <1>2, InFlightType, ScanStateUpdate, ZeroIsKey
  <2>2. scan' \in [Requests -> ScanState]
    BY <1>2, <1>8, <2>1 DEF ReadInFlight
  <2> QED
    BY <1>4, <1>6, <1>8, <2>2 DEF ReadInFlight, Goto
<1>9. [scan[r] EXCEPT !.busy = TRUE] \in ScanState
  BY <1>2, ScanStateUpdate, ZeroIsKey
<1>10. CASE CheckWindow(r)
  <2>1. CASE scan[r].inFlight >= windows[KeyAt(scan[r])].current
    BY <1>4, <1>5, <1>9, <1>10, <2>1 DEF CheckWindow
  <2>2. CASE ~(scan[r].inFlight >= windows[KeyAt(scan[r])].current)
    BY <1>2, <1>4, <1>6, <1>10, <2>2 DEF CheckWindow, Goto
  <2> QED
    BY <2>1, <2>2
<1>11. CASE TryPermit(r)
  <2>1. CASE HasPermit(KeyAt(scan[r]))
    <3>1. scan' \in [Requests -> ScanState]
      BY <1>2, <1>11, <2>1, NoScanType DEF TryPermit
    <3>2. KeyAt(scan[r]) \in Keys
      BY <1>2, KeyAtType
    <3>3. /\ lease' = [lease EXCEPT ![r] = KeyAt(scan[r])]
          /\ pc' = [pc EXCEPT ![r] = "leased"]
          /\ secs' = secs /\ Watch
      BY <1>11, <2>1 DEF TryPermit, Goto
    <3>4. RequestTypeOK /\ secs' \in [Requests -> Nat]
      BY <1>2, <3>3 DEF TypeOK
    <3> QED
      BY <1>4, <3>1, <3>2, <3>3, <3>4, MoveType
  <2>2. CASE ~HasPermit(KeyAt(scan[r]))
    BY <1>4, <1>5, <1>9, <1>11, <2>2 DEF TryPermit
  <2> QED
    BY <2>1, <2>2
<1>12. CASE Refused(r)
  <2>1. scan' \in [Requests -> ScanState]
    BY <1>2, <1>12, NoScanType DEF Refused
  <2> QED
    BY <1>4, <1>6, <1>12, <2>1 DEF Refused, Goto
<1>13. CASE DropLease(r)
  <2>1. /\ lease' = [lease EXCEPT ![r] = NoKey]
        /\ pc' = [pc EXCEPT ![r] = "idle"]
        /\ secs' = secs /\ scan' = scan /\ Watch
    BY <1>13 DEF DropLease, Goto
  <2>2. RequestTypeOK /\ secs' \in [Requests -> Nat] /\ scan' \in [Requests -> ScanState]
    BY <1>2, <2>1 DEF TypeOK
  <2> QED
    BY <1>3, <1>4, <2>1, <2>2, MoveType
<1> QED
  BY <1>7, <1>8, <1>10, <1>11, <1>12, <1>13
\* The steps that change a key.
LEMMA OutcomeStepType ==
  ASSUME TypeOK, NEW r \in Requests,
         \/ record_success(r)
         \/ \E asked \in RetryAfters : record_rate_limited(r, asked)
         \/ BenchRateLimited(r)
         \/ CountAuthFailure(r)
         \/ BenchAuthFailed(r)
         \/ note_upstream_stall(r)
  PROVE  TypeOK'
<1>1. /\ lease[r] \in Keys \cup {NoKey} /\ lease \in [Requests -> Keys \cup {NoKey}]
      /\ scan \in [Requests -> ScanState] /\ secs \in [Requests -> Nat]
      /\ lease[r] \in Keys <=> pc[r] \in LeasedPcs
      /\ PoolTypeOK /\ RequestTypeOK
  BY DEF TypeOK, RequestTypeOK
<1>2. /\ {"leased", "bench", "quarantine", "done"} = LeasedPcs
      /\ LeasedPcs \subseteq Pcs
  BY DEF Pcs, LeasedPcs
<1> HIDE DEF Keys, NoKey
<1>3. ASSUME pc[r] \in LeasedPcs, UNCHANGED lease, UNCHANGED scan, Watch,
             secs' \in [Requests -> Nat],
             NEW to \in LeasedPcs, pc' = [pc EXCEPT ![r] = to]
      PROVE  RequestTypeOK'
  <2>1. lease' = [lease EXCEPT ![r] = lease[r]] /\ lease[r] \in Keys
    BY <1>1, <1>3
  <2>2. to \in Pcs /\ scan' \in [Requests -> ScanState]
    BY <1>1, <1>2, <1>3
  <2> QED
    BY <1>1, <1>3, <2>1, <2>2, MoveType
<1>4. CASE record_success(r)
  <2>1. windows' \in [Keys -> KeyWindow]
    <3>1. ASSUME NEW w \in KeyWindow
          PROVE  FixedView(RecordSuccess(Fixed, AIMD_BAR_MAX, w)) \in KeyWindow
      BY RecordSuccessType, FixedViewType DEF AimdModes, AIMD_BAR_MAX
    <3> QED
      BY <1>1, <1>4, <3>1 DEF record_success, PoolTypeOK
  <2>2. PoolTypeOK'
    BY <1>1, <1>4, <2>1 DEF record_success, PoolTypeOK
  <2>3. RequestTypeOK'
    BY <1>1, <1>2, <1>3, <1>4 DEF record_success, Goto
  <2> QED
    BY <2>2, <2>3 DEF TypeOK
<1>5. CASE \E asked \in RetryAfters : record_rate_limited(r, asked)
  <2>1. PICK asked \in RetryAfters : record_rate_limited(r, asked)
    BY <1>5
  <2>2. windows' \in [Keys -> KeyWindow]
    <3>1. ASSUME NEW w \in KeyWindow
          PROVE  FixedView(RecordRateLimited(Fixed, w)) \in KeyWindow
      BY RecordRateLimitedType, FixedViewType DEF AimdModes
    <3> QED
      BY <1>1, <2>1, <3>1 DEF record_rate_limited, PoolTypeOK
  <2>3. PoolTypeOK'
    BY <1>1, <2>1, <2>2 DEF record_rate_limited, PoolTypeOK
  <2>4. secs' \in [Requests -> Nat]
    BY <1>1, <2>1, KeyPoolAssumption DEF record_rate_limited, AtMost, NoCap
  <2>5. RequestTypeOK'
    BY <1>1, <1>2, <1>3, <2>1, <2>4 DEF record_rate_limited, Goto
  <2> QED
    BY <2>3, <2>5 DEF TypeOK
<1>6. CASE BenchRateLimited(r)
  <2>1. [until |-> now + secs[r], reason |-> RateLimit] \in Bench
    BY <1>1, KeyPoolAssumption DEF Bench, PoolTypeOK
  <2>2. PoolTypeOK'
    BY <1>1, <1>6, <2>1 DEF BenchRateLimited, PoolTypeOK
  <2>3. secs' \in [Requests -> Nat]
    BY <1>1, <1>6 DEF BenchRateLimited
  <2>4. RequestTypeOK'
    BY <1>2, <1>3, <1>6, <2>3 DEF BenchRateLimited, Goto
  <2> QED
    BY <2>2, <2>4 DEF TypeOK
<1>7. CASE CountAuthFailure(r)
  <2>0. lease[r] \in Keys /\ auth_failures[lease[r]] + 1 \in 0 .. MaxNotes
    <3>1. lease[r] \in Keys
      BY <1>1, <1>2, <1>7 DEF CountAuthFailure
    <3>2. auth_failures[lease[r]] + stalls[lease[r]] < MaxNotes
      BY <1>7, <3>1 DEF CountAuthFailure, Noting
    <3>3. auth_failures[lease[r]] \in 0 .. MaxNotes /\ stalls[lease[r]] \in 0 .. MaxNotes
      BY <1>1, <3>1 DEF PoolTypeOK
    <3> QED
      BY <3>1, <3>2, <3>3, KeyPoolAssumption
  <2>1. PoolTypeOK'
    BY <1>1, <1>7, <2>0 DEF CountAuthFailure, PoolTypeOK
  <2>2. RequestTypeOK'
    BY <1>1, <1>2, <1>3, <1>7 DEF CountAuthFailure, Goto
  <2> QED
    BY <2>1, <2>2 DEF TypeOK
<1>8. CASE BenchAuthFailed(r)
  <2>1. [until |-> now + AuthFailureCooldown, reason |-> AuthFailure] \in Bench
    BY <1>1, KeyPoolAssumption DEF Bench, PoolTypeOK
  <2>2. PoolTypeOK'
    BY <1>1, <1>8, <2>1 DEF BenchAuthFailed, PoolTypeOK
  <2>3. RequestTypeOK'
    BY <1>1, <1>2, <1>3, <1>8 DEF BenchAuthFailed, Goto
  <2> QED
    BY <2>2, <2>3 DEF TypeOK
<1>9. CASE note_upstream_stall(r)
  <2>0. lease[r] \in Keys /\ stalls[lease[r]] + 1 \in 0 .. MaxNotes
    <3>1. lease[r] \in Keys
      BY <1>1, <1>2, <1>9 DEF note_upstream_stall
    <3>2. auth_failures[lease[r]] + stalls[lease[r]] < MaxNotes
      BY <1>9, <3>1 DEF note_upstream_stall, Noting
    <3>3. auth_failures[lease[r]] \in 0 .. MaxNotes /\ stalls[lease[r]] \in 0 .. MaxNotes
      BY <1>1, <3>1 DEF PoolTypeOK
    <3> QED
      BY <3>1, <3>2, <3>3, KeyPoolAssumption
  <2>1. PoolTypeOK'
    BY <1>1, <1>9, <2>0 DEF note_upstream_stall, PoolTypeOK
  <2>2. RequestTypeOK'
    BY <1>1, <1>2, <1>3, <1>9 DEF note_upstream_stall, Goto
  <2> QED
    BY <2>1, <2>2 DEF TypeOK
<1> QED
  BY <1>4, <1>5, <1>6, <1>7, <1>8, <1>9

\* A scan starts at the counter's position, with the clock of that moment.
LEMMA StartScanType ==
  ASSUME TypeOK, NEW r \in Requests, NEW exclude \in Keys \cup {NoKey}, StartScan(r, exclude)
  PROVE  TypeOK'
<1>1. (index + 1) % NKeys \in Keys
  BY KeyPoolAssumption DEF TypeOK, PoolTypeOK
<1>2. PoolTypeOK'
  BY <1>1 DEF TypeOK, PoolTypeOK, StartScan, poolVars
<1> DEFINE a == [NoScan EXCEPT !.exclude = exclude]
           b == [a EXCEPT !.start = index]
           begun == [b EXCEPT !.at = now]
<1>3. begun = [NoScan EXCEPT !.exclude = exclude, !.start = index, !.at = now]
  OBVIOUS
<1>4. begun \in ScanState
  <2>1. index \in Keys /\ now \in 0 .. MaxTime
    BY DEF TypeOK, PoolTypeOK
  <2>2. a \in ScanState
    BY NoScanType DEF ScanState
  <2> HIDE DEF a
  <2>3. b \in ScanState
    BY <2>1, <2>2 DEF ScanState
  <2> HIDE DEF b
  <2> QED
    BY <2>1, <2>3 DEF ScanState
<1> HIDE DEF begun, Keys, NoKey
<1>5. scan' = [scan EXCEPT ![r] = begun]
  BY <1>3 DEF StartScan
<1>6. scan' \in [Requests -> ScanState]
  BY <1>4, <1>5 DEF TypeOK, RequestTypeOK
<1>7. "cooldown" \in Pcs /\ "cooldown" \notin LeasedPcs /\ "idle" \notin LeasedPcs
  BY DEF Pcs, ScanPcs, LeasedPcs
<1>8. /\ pc' = [pc EXCEPT ![r] = "cooldown"] /\ lease' = [lease EXCEPT ![r] = lease[r]]
      /\ lease[r] \in Keys \cup {NoKey} /\ lease[r] \notin Keys
      /\ secs' \in [Requests -> Nat] /\ Watch /\ RequestTypeOK
  BY <1>7 DEF StartScan, Goto, TypeOK, RequestTypeOK
<1>9. RequestTypeOK'
  BY <1>6, <1>7, <1>8, MoveType
<1> QED
  BY <1>2, <1>9 DEF TypeOK

LEMMA NextTypeOK == TypeOK /\ [Next]_vars => TypeOK'
<1> SUFFICES ASSUME TypeOK, [Next]_vars PROVE TypeOK'
  OBVIOUS
<1>1. ASSUME NEW r \in Requests, Request(r) PROVE TypeOK'
  BY <1>1, StartScanType, ScanStepType, OutcomeStepType DEF Request
<1>2. ASSUME next_key \/ Tick PROVE TypeOK'
  <2>1. PoolTypeOK'
    BY <1>2, KeyPoolAssumption DEF next_key, Tick, TypeOK, PoolTypeOK, poolVars
  <2>2. watch' \in [Requests -> Watched]
    BY <1>2, WatchType DEF next_key, Tick, TypeOK, RequestTypeOK
  <2>3. UNCHANGED <<pc, lease, scan, secs>>
    BY <1>2 DEF next_key, Tick
  <2>4. RequestTypeOK'
    BY <2>2, <2>3 DEF TypeOK, RequestTypeOK
  <2> QED
    BY <2>1, <2>4 DEF TypeOK
<1>3. CASE UNCHANGED vars
  BY <1>3 DEF vars, TypeOK, PoolTypeOK, RequestTypeOK
<1> QED
  BY <1>1, <1>2, <1>3 DEF Next

\* Permits are held exactly between a lease and its drop, and no window leaves
\* its range, for every number of keys, requests and slots.
THEOREM PoolTypeCorrect == Spec => []TypeOK
  BY InitTypeOK, NextTypeOK, PTL DEF Spec

-----------------------------------------------------------------------------
\* Past its cooldown check, a scan stands at a key that was seen off cooldown
\* during the scan.
PassedKeyWasWarm ==
  \A r \in Requests :
    pc[r] \in {"in_flight", "window", "permit"} => KeyAt(scan[r]) \notin watch[r].cold
\* Moving on never lands a scan past the check.
LEMMA ColdKeyPassed ==
  ASSUME TypeOK, PassedKeyWasWarm, [Next]_vars
  PROVE  PassedKeyWasWarm'
<1> DEFINE Passed == {"in_flight", "window", "permit"}
<1> SUFFICES ASSUME NEW r \in Requests, pc'[r] \in Passed
             PROVE  KeyAt(scan'[r]) \notin watch'[r].cold
  BY DEF PassedKeyWasWarm
<1>1. pc \in [Requests -> Pcs] /\ scan \in [Requests -> ScanState]
  BY DEF TypeOK, RequestTypeOK
<1>2. ASSUME Watch, pc[r] # "idle"
      PROVE  watch'[r].cold = watch[r].cold \ Warm(scan[r])'
  BY <1>2 DEF Watch, ScanPcs
\* Once past, only steps of the same kind keep it there, and cold only shrinks.
<1>3. ASSUME Watch, pc[r] \in Passed, scan'[r] = scan[r]
                    \/ KeyAt(scan'[r]) = KeyAt(scan[r])
      PROVE  KeyAt(scan'[r]) \notin watch'[r].cold
  BY <1>2, <1>3 DEF PassedKeyWasWarm
<1>4. ASSUME NEW q \in Requests, Request(q) PROVE KeyAt(scan'[r]) \notin watch'[r].cold
  <2>1. Watch
    BY <1>4 DEF Request, StartScan, CheckCooldown, ReadInFlight, CheckWindow, TryPermit, Refused,
       record_success, record_rate_limited, BenchRateLimited, CountAuthFailure, BenchAuthFailed,
       note_upstream_stall, DropLease
  <2>2. CASE q # r
    <3>1. pc'[r] = pc[r] /\ scan'[r] = scan[r]
      BY <1>1, <1>4, <2>2 DEF Request, StartScan, CheckCooldown, ReadInFlight, CheckWindow,
         TryPermit, Refused, record_success, record_rate_limited, BenchRateLimited,
         CountAuthFailure, BenchAuthFailed, note_upstream_stall, DropLease, Goto, Advance
    <3> QED
      BY <1>3, <2>1, <3>1
  <2>3. CASE q = r
    <3>1. \A s : Advance(r, s) => pc'[r] \notin Passed
      BY <1>1 DEF Advance, Goto, Refusals
    <3>2. \/ CheckCooldown(r) /\ pc'[r] = "in_flight"
          \/ ReadInFlight(r) /\ pc'[r] = "window"
          \/ CheckWindow(r) /\ pc'[r] = "permit"
      BY <1>1, <1>4, <2>3, <3>1 DEF Request, StartScan, CheckCooldown, ReadInFlight, CheckWindow,
         TryPermit, Refused, record_success, record_rate_limited, BenchRateLimited,
         CountAuthFailure, BenchAuthFailed, note_upstream_stall, DropLease, Goto
    <3>3. CASE CheckCooldown(r) /\ pc'[r] = "in_flight"
      <4>1. /\ ~Cooling(KeyAt(scan[r]), scan[r].at)
            /\ scan' = [scan EXCEPT ![r].active = TRUE]
            /\ UNCHANGED cooldowns /\ pc[r] = "cooldown"
        BY <3>1, <3>3 DEF CheckCooldown, poolVars
      <4>2. KeyAt(scan'[r]) = KeyAt(scan[r]) /\ scan'[r].at = scan[r].at
        BY <1>1, <4>1 DEF KeyAt, ScanState
      <4>3. KeyAt(scan[r]) \in Warm(scan[r])'
        BY <1>1, <4>1, <4>2, KeyAtType DEF Warm, Cooling
      <4> QED
        BY <1>2, <2>1, <4>1, <4>2, <4>3
    <3>4. CASE ReadInFlight(r) /\ pc'[r] = "window"
      <4>1. KeyAt(scan'[r]) = KeyAt(scan[r]) /\ pc[r] \in Passed
        BY <1>1, <3>4 DEF ReadInFlight, KeyAt, ScanState
      <4> QED
        BY <1>3, <2>1, <4>1
    <3>5. CASE CheckWindow(r) /\ pc'[r] = "permit"
      <4>1. scan'[r] = scan[r] /\ pc[r] \in Passed
        BY <3>1, <3>5 DEF CheckWindow
      <4> QED
        BY <1>3, <2>1, <4>1
    <3> QED
      BY <3>2, <3>3, <3>4, <3>5
  <2> QED
    BY <2>2, <2>3
<1>5. CASE next_key \/ Tick
  BY <1>3, <1>5 DEF next_key, Tick
<1>6. CASE UNCHANGED vars
  BY <1>6 DEF vars, PassedKeyWasWarm
<1> QED
  BY <1>4, <1>5, <1>6 DEF Next

\* A lease goes to the key its scan stands at.
LEMMA LeaseStep ==
  ASSUME TypeOK, [Next]_vars, NEW r \in Requests, pc[r] = "permit", pc'[r] = "leased"
  PROVE  lease'[r] = KeyAt(scan[r])
<1>1. pc \in [Requests -> Pcs] /\ lease \in [Requests -> Keys \cup {NoKey}]
  BY DEF TypeOK, RequestTypeOK
<1>2. \A s : Advance(r, s) => pc'[r] # "leased"
  BY <1>1 DEF Advance, Goto
<1>3. ASSUME NEW q \in Requests, Request(q) PROVE q = r /\ TryPermit(r)
  <2>1. q = r
    BY <1>1, <1>3 DEF Request, StartScan, CheckCooldown, ReadInFlight, CheckWindow,
       TryPermit, Refused, record_success, record_rate_limited, BenchRateLimited,
       CountAuthFailure, BenchAuthFailed, note_upstream_stall, DropLease, Goto, Advance
  <2> QED
    BY <1>3, <2>1 DEF Request, StartScan, CheckCooldown, ReadInFlight, CheckWindow,
       Refused, Refusals, record_success, record_rate_limited, BenchRateLimited,
       CountAuthFailure, BenchAuthFailed, note_upstream_stall, DropLease
<1>4. TryPermit(r)
  BY <1>3 DEF Next, next_key, Tick, vars
<1> QED
  BY <1>1, <1>2, <1>4 DEF TryPermit

LEMMA InitPassed == Init => PassedKeyWasWarm
BY DEF Init, PassedKeyWasWarm

\* Whatever other requests do between the locks of a scan, a key that was on
\* cooldown for the whole of it is not the one it leases.
THEOREM BenchedKeySafe == Spec => BenchedKeyNeverLeased
<1>1. TypeOK /\ PassedKeyWasWarm /\ [Next]_vars
        => [\A r \in Requests :
              pc[r] = "permit" /\ pc'[r] = "leased" => lease'[r] \notin watch[r].cold]_vars
  BY LeaseStep DEF PassedKeyWasWarm
<1>2. TypeOK /\ PassedKeyWasWarm /\ [Next]_vars => PassedKeyWasWarm'
  BY ColdKeyPassed
<1> QED
  BY InitTypeOK, NextTypeOK, InitPassed, <1>1, <1>2, PTL DEF Spec, BenchedKeyNeverLeased

-----------------------------------------------------------------------------
(* Refusals and the last resort.  A scan remembers nothing of the keys it   *)
(* has passed; what makes it sound is what was seen of each of them.        *)

\* The key at a position of a scan.
At(s, q) == (s.start + q) % NKeys

\* A key behind a scan was not free all the while, unless the first pass
\* skipped it; one behind the second pass that found no key off cooldown was
\* not off cooldown either.
ScanSound(s, W) ==
  /\ s.busy => s.active
  /\ \A q \in Keys : q < s.pos /\ At(s, q) \in W.free => s.pass = 0 /\ At(s, q) = s.exclude
  /\ s.pass = 1 => W.free \subseteq {s.exclude}
  /\ s.pass = 1 /\ ~s.active => \A q \in Keys : q < s.pos => At(s, q) \notin W.warm

Past == {"in_flight", "window", "permit"}

ScanInv(r) ==
  /\ pc[r] \in ScanPcs => ScanSound(scan[r], watch[r])
  /\ pc[r] \in Past => scan[r].active /\ ~Skips(scan[r])
  /\ pc[r] = "window" /\ KeyAt(scan[r]) \in watch[r].free
       => scan[r].inFlight < windows[KeyAt(scan[r])].current
  /\ pc[r] = "all_busy" => watch[r].free = {}
  /\ pc[r] = "all_cooling" => watch[r].warm = {}

\* What held all scan long holds now.
Observed(r) ==
  pc[r] \in ScanPcs \cup Refusals =>
    /\ watch[r].warm \subseteq Warm(scan[r])
    /\ watch[r].free \subseteq {k \in Warm(scan[r]) : HasRoom(k)}

ScanIInv == TypeOK /\ \A r \in Requests : ScanInv(r) /\ Observed(r)

\* A rotation visits every key.
LEMMA RotationCovers ==
  ASSUME NEW s \in ScanState, NEW k \in Keys
  PROVE  \E q \in Keys : At(s, q) = k
<1>1. NKeys \in Nat \ {0} /\ s.start \in 0 .. NKeys - 1 /\ k \in 0 .. NKeys - 1
  BY KeyPoolAssumption DEF ScanState
<1>2. CASE k >= s.start
  <2>1. k - s.start \in Keys /\ s.start + (k - s.start) = k
    BY <1>1, <1>2
  <2>2. k % NKeys = k
    BY <1>1
  <2> QED
    BY <2>1, <2>2 DEF At
<1>3. CASE k < s.start
  <2>1. k - s.start + NKeys \in Keys /\ s.start + (k - s.start + NKeys) = k + NKeys
    BY <1>1, <1>3
  <2>2. (k + NKeys) % NKeys = k
    BY <1>1
  <2> QED
    BY <2>1, <2>2 DEF At
<1> QED
  BY <1>1, <1>2, <1>3

\* Seeing less of the keys leaves a scan sound.
LEMMA ScanSoundShrinks ==
  ASSUME NEW s, NEW W, NEW V, ScanSound(s, W),
         V.free \subseteq W.free, V.warm \subseteq W.warm
  PROVE  ScanSound(s, V)
BY DEF ScanSound

\* Moving on from a candidate that was not free, or that the first pass skips,
\* leaves the scan sound, and what it refuses with is true.
LEMMA AdvanceSound ==
  ASSUME RequestTypeOK, NEW r \in Requests, NEW s \in ScanState, NEW W \in Watched,
         ScanSound(s, W), Advance(r, s),
         KeyAt(s) \in W.free => Skips(s),
         s.pass = 1 /\ ~s.active => KeyAt(s) \notin W.warm
  PROVE  \/ pc'[r] = "cooldown" /\ ScanSound(scan'[r], W)
         \/ pc'[r] = "all_busy" /\ W.free = {}
         \/ pc'[r] = "all_cooling" /\ W.warm = {}
<1>1. /\ s.start \in Keys /\ s.pos \in Keys /\ s.pass \in {0, 1} /\ NKeys \in Nat \ {0}
      /\ W.free \subseteq Keys /\ W.warm \subseteq Keys
      /\ scan \in [Requests -> ScanState] /\ pc \in [Requests -> Pcs]
  BY KeyPoolAssumption DEF ScanState, Watched, RequestTypeOK
<1>2. KeyAt(s) = At(s, s.pos)
  BY DEF KeyAt, At
<1>3. CASE s.pos < NKeys - 1
  <2> DEFINE t == [s EXCEPT !.pos = @ + 1, !.inFlight = 0]
  <2>1. scan'[r] = t /\ pc'[r] = "cooldown"
    BY <1>1, <1>3 DEF Advance, Goto
  <2>2. /\ t.pos = s.pos + 1 /\ t.start = s.start /\ t.pass = s.pass
        /\ t.exclude = s.exclude /\ t.active = s.active /\ t.busy = s.busy
    BY DEF ScanState
  <2>3. \A q \in Keys : q < t.pos => q < s.pos \/ q = s.pos
    BY <1>1, <2>2
  <2>4. \A q \in Keys : At(t, q) = At(s, q)
    BY <2>2 DEF At
  <2> HIDE DEF t, Keys
  <2>5. ScanSound(t, W)
    BY <1>2, <2>2, <2>3, <2>4 DEF ScanSound, Skips
  <2> QED
    BY <2>1, <2>5
<1>4. \A k \in Keys : \E q \in Keys : At(s, q) = k /\ (q < s.pos \/ q = s.pos \/ s.pos < NKeys - 1)
  <2>1. \A q \in Keys : q < s.pos \/ q = s.pos \/ s.pos < NKeys - 1
    BY <1>1
  <2>2. \A k \in Keys : \E q \in Keys : At(s, q) = k
    BY RotationCovers
  <2> HIDE DEF Keys
  <2> QED
    BY <2>1, <2>2
<1>5. CASE ~(s.pos < NKeys - 1) /\ s.pass = 0
  <2> DEFINE t == [s EXCEPT !.pass = 1, !.pos = 0, !.inFlight = 0]
  <2>1. scan'[r] = t /\ pc'[r] = "cooldown"
    BY <1>1, <1>5 DEF Advance, Goto
  <2>2. /\ t.pos = 0 /\ t.start = s.start /\ t.pass = 1
        /\ t.exclude = s.exclude /\ t.active = s.active /\ t.busy = s.busy
    BY DEF ScanState
  <2>3. W.free \subseteq {s.exclude}
    BY <1>1, <1>2, <1>4, <1>5 DEF ScanSound, Skips
  <2>4. \A q \in Keys : ~(q < t.pos)
    BY <2>2
  <2> HIDE DEF t, Keys
  <2>5. ScanSound(t, W)
    BY <2>2, <2>3, <2>4 DEF ScanSound
  <2> QED
    BY <2>1, <2>5
<1>6. CASE ~(s.pos < NKeys - 1) /\ s.pass = 1
  <2>1. pc'[r] = IF s.busy \/ s.active THEN "all_busy" ELSE "all_cooling"
    BY <1>1, <1>6 DEF Advance, Goto
  <2>2. W.free = {}
    BY <1>1, <1>2, <1>4, <1>6 DEF ScanSound, Skips
  <2>3. ~s.active => W.warm = {}
    BY <1>1, <1>2, <1>4, <1>6 DEF ScanSound
  <2> QED
    BY <2>1, <2>2, <2>3
<1> QED
  BY <1>1, <1>3, <1>5, <1>6

\* What a step leaves of the keys seen all scan long.
LEMMA WatchShrinks ==
  ASSUME Watch, NEW r \in Requests, pc'[r] \in ScanPcs \cup Refusals
  PROVE  /\ Observed(r)'
         /\ pc[r] # "idle" => /\ watch'[r].warm \subseteq watch[r].warm
                              /\ watch'[r].free \subseteq watch[r].free
         /\ \A k \in watch'[r].free :
              HasRoom(k)' /\ windows'[k].current >= windows[k].current
<1> DEFINE warmNow == Warm(scan[r])'
           freeNow == {k \in warmNow : /\ HasRoom(k)'
                                       /\ windows'[k].current >= windows[k].current}
<1>1. watch'[r] = IF pc[r] = "idle"
                  THEN [warm |-> warmNow, cold |-> Keys \ warmNow, free |-> freeNow]
                  ELSE [warm |-> watch[r].warm \cap warmNow,
                        cold |-> watch[r].cold \ warmNow,
                        free |-> watch[r].free \cap freeNow]
  BY Zenon DEF Watch
<1>2. watch'[r].warm \subseteq warmNow /\ watch'[r].free \subseteq freeNow
  BY <1>1
<1>3. pc[r] # "idle" => /\ watch'[r].warm \subseteq watch[r].warm
                        /\ watch'[r].free \subseteq watch[r].free
  BY <1>1
<1>4. \A k \in freeNow : /\ k \in warmNow /\ HasRoom(k)'
                         /\ windows'[k].current >= windows[k].current
  OBVIOUS
<1> HIDE DEF freeNow
<1>5. Observed(r)'
  BY <1>2, <1>4 DEF Observed
<1> QED
  BY <1>2, <1>3, <1>4, <1>5

\* The windows of a scan's key, as numbers.
LEMMA WindowOf ==
  ASSUME TypeOK, NEW k \in Keys
  PROVE  windows[k].current \in 1 .. MaxInFlightPerKey
BY DEF TypeOK, PoolTypeOK, KeyWindow

\* A step that leaves a scan where it is leaves it sound: whoever shrinks a
\* window takes the key from those that were free all scan long.
LEMMA StayingSound ==
  ASSUME TypeOK, TypeOK', NEW r \in Requests, ScanInv(r), Watch,
         pc'[r] = pc[r], scan'[r] = scan[r]
  PROVE  ScanInv(r)'
<1>1. CASE pc[r] \notin ScanPcs \cup Refusals
  BY <1>1 DEF ScanInv, ScanPcs, Past, Refusals
<1>2. CASE pc[r] \in ScanPcs \cup Refusals
  <2>1. /\ watch'[r].warm \subseteq watch[r].warm
        /\ watch'[r].free \subseteq watch[r].free
        /\ \A k \in watch'[r].free : windows'[k].current >= windows[k].current
    BY <1>2, WatchShrinks DEF ScanPcs, Refusals
  <2>2. pc[r] \in ScanPcs => ScanSound(scan'[r], watch'[r])
    BY <2>1, ScanSoundShrinks DEF ScanInv
  <2>3. scan[r] \in ScanState /\ KeyAt(scan[r]) \in Keys
    BY KeyAtType DEF TypeOK, RequestTypeOK
  <2>4. pc[r] = "window" /\ KeyAt(scan[r]) \in watch'[r].free
          => scan[r].inFlight < windows'[KeyAt(scan[r])].current
    <3> SUFFICES ASSUME pc[r] = "window", KeyAt(scan[r]) \in watch'[r].free
                 PROVE  scan[r].inFlight < windows'[KeyAt(scan[r])].current
      OBVIOUS
    <3>1. scan[r].inFlight < windows[KeyAt(scan[r])].current
      BY <2>1 DEF ScanInv
    <3>2. windows'[KeyAt(scan[r])].current >= windows[KeyAt(scan[r])].current
      BY <2>1
    <3>3. /\ scan[r].inFlight \in Nat
          /\ windows[KeyAt(scan[r])].current \in Nat
          /\ windows'[KeyAt(scan[r])].current \in Nat
      <4>1. windows[KeyAt(scan[r])] \in KeyWindow /\ windows'[KeyAt(scan[r])] \in KeyWindow
        BY <2>3 DEF TypeOK, PoolTypeOK
      <4> QED
        BY <2>3, <4>1, MaxInFlightAssumption DEF ScanState, KeyWindow
    <3> QED
      BY <3>1, <3>2, <3>3
  <2> QED
    BY <2>1, <2>2, <2>4 DEF ScanInv, Skips, KeyAt
<1> QED
  BY <1>1, <1>2

\* A scan that moves on by Advance from a candidate that is not free.
LEMMA MovingOnSound ==
  ASSUME TypeOK, NEW r \in Requests, ScanInv(r), Watch, pc[r] \in ScanPcs,
         NEW s \in ScanState, ScanSound(s, watch[r]), Advance(r, s),
         KeyAt(s) \in watch[r].free => Skips(s),
         s.pass = 1 /\ ~s.active => KeyAt(s) \notin watch[r].warm
  PROVE  ScanInv(r)'
<1>1. watch[r] \in Watched /\ RequestTypeOK
  BY DEF TypeOK, RequestTypeOK
<1>2. \/ pc'[r] = "cooldown" /\ ScanSound(scan'[r], watch[r])
      \/ pc'[r] = "all_busy" /\ watch[r].free = {}
      \/ pc'[r] = "all_cooling" /\ watch[r].warm = {}
  BY <1>1, AdvanceSound
<1>3. pc'[r] \in ScanPcs \cup Refusals /\ pc[r] # "idle"
  BY <1>2 DEF ScanPcs, Refusals
<1>4. /\ watch'[r].warm \subseteq watch[r].warm
      /\ watch'[r].free \subseteq watch[r].free
  BY <1>3, WatchShrinks
<1>5. CASE pc'[r] = "cooldown" /\ ScanSound(scan'[r], watch[r])
  BY <1>4, <1>5, ScanSoundShrinks DEF ScanInv, Past
<1>6. CASE pc'[r] \in Refusals
  BY <1>2, <1>4, <1>6 DEF ScanInv, Past, ScanPcs, Refusals
<1> QED
  BY <1>2, <1>5, <1>6 DEF Refusals

\* A scan's own steps.
LEMMA ScanStepSound ==
  ASSUME TypeOK, TypeOK', NEW r \in Requests, ScanInv(r), Observed(r),
         \/ CheckCooldown(r) \/ ReadInFlight(r) \/ CheckWindow(r) \/ TryPermit(r)
  PROVE  ScanInv(r)'
<1> DEFINE s == scan[r]
<1>1. /\ s \in ScanState /\ KeyAt(s) \in Keys
      /\ pc \in [Requests -> Pcs] /\ scan \in [Requests -> ScanState]
  BY KeyAtType DEF TypeOK, RequestTypeOK
<1>2. pc[r] \in ScanPcs /\ pc[r] # "idle" /\ Watch
  BY DEF CheckCooldown, ReadInFlight, CheckWindow, TryPermit, ScanPcs
<1>3. /\ ScanSound(s, watch[r])
      /\ watch[r].warm \subseteq Warm(s)
      /\ watch[r].free \subseteq {k \in Warm(s) : HasRoom(k)}
  BY <1>2 DEF ScanInv, Observed
\* Setting a flag of an active scan changes nothing of what it has passed.
<1>4. ASSUME s.active
      PROVE  LET t == [s EXCEPT !.busy = TRUE]
             IN  /\ t \in ScanState /\ ScanSound(t, watch[r]) /\ t.active
                 /\ KeyAt(t) = KeyAt(s) /\ (Skips(t) <=> Skips(s))
  BY <1>1, <1>3, <1>4 DEF ScanSound, ScanState, KeyAt, Skips, At
<1>5. ASSUME pc'[r] \in ScanPcs, ScanSound(scan'[r], watch[r])
      PROVE  ScanSound(scan'[r], watch'[r])
  BY <1>2, <1>5, WatchShrinks, ScanSoundShrinks
<1>6. CASE CheckCooldown(r)
  <2>1. CASE Skips(s) \/ Cooling(KeyAt(s), s.at)
    <3>1. Advance(r, s)
      BY <1>6, <2>1 DEF CheckCooldown
    <3>2. KeyAt(s) \in watch[r].free => Skips(s)
      BY <1>3, <2>1 DEF Warm
    <3>3. s.pass = 1 => KeyAt(s) \notin watch[r].warm
      BY <1>3, <2>1 DEF Warm, Skips
    <3> QED
      BY <1>1, <1>2, <1>3, <3>1, <3>2, <3>3, MovingOnSound
  <2>2. CASE ~(Skips(s) \/ Cooling(KeyAt(s), s.at))
    <3> DEFINE t == [s EXCEPT !.active = TRUE]
    <3>1. scan'[r] = t /\ pc'[r] = "in_flight"
      BY <1>1, <1>6, <2>2 DEF CheckCooldown, Goto
    <3>2. ScanSound(t, watch[r]) /\ t.active /\ ~Skips(t)
      BY <1>1, <1>3, <2>2 DEF ScanSound, ScanState, Skips, KeyAt, At
    <3> HIDE DEF t
    <3> QED
      BY <1>5, <3>1, <3>2 DEF ScanInv, ScanPcs, Past, Skips, KeyAt
  <2> QED
    BY <2>1, <2>2
<1>7. CASE ReadInFlight(r)
  <2> DEFINE t == [s EXCEPT !.inFlight = InFlight(KeyAt(s))]
  <2>1. scan'[r] = t /\ pc'[r] = "window" /\ pc[r] = "in_flight"
    BY <1>1, <1>7 DEF ReadInFlight, Goto
  <2>2. ScanSound(t, watch[r]) /\ KeyAt(t) = KeyAt(s) /\ t.active /\ ~Skips(t)
    BY <1>1, <1>3, <2>1 DEF ScanSound, ScanState, Skips, KeyAt, At, ScanInv, Past
  <2>3. t.inFlight = InFlight(KeyAt(s)) /\ UNCHANGED lease
    BY <1>1, <1>7 DEF ScanState, ReadInFlight
  <2> HIDE DEF t
  <2>4. KeyAt(t) \in watch'[r].free => t.inFlight < windows'[KeyAt(t)].current
    <3>1. \A k \in watch'[r].free : HasRoom(k)'
      BY <1>2, <2>1, WatchShrinks DEF ScanPcs
    <3> QED
      BY <2>2, <2>3, <3>1 DEF HasRoom, InFlight
  <2>5. ScanSound(t, watch'[r])
    BY <1>5, <2>1, <2>2 DEF ScanPcs
  <2> QED
    BY <2>1, <2>2, <2>4, <2>5 DEF ScanInv, ScanPcs, Past, Skips, KeyAt
<1>8. CASE CheckWindow(r)
  <2>1. pc[r] = "window" /\ s.active /\ ~Skips(s)
    BY <1>8 DEF CheckWindow, ScanInv, Past
  <2>2. CASE s.inFlight >= windows[KeyAt(s)].current
    <3>1. Advance(r, [s EXCEPT !.busy = TRUE])
      BY <1>8, <2>2 DEF CheckWindow
    <3>2. KeyAt(s) \notin watch[r].free
      <4>1. s.inFlight \in Nat /\ windows[KeyAt(s)].current \in Nat
        BY <1>1, WindowOf, MaxInFlightAssumption DEF ScanState
      <4> QED
        BY <2>1, <2>2, <4>1 DEF ScanInv
    <3> QED
      BY <1>1, <1>2, <1>4, <2>1, <3>1, <3>2, MovingOnSound
  <2>3. CASE ~(s.inFlight >= windows[KeyAt(s)].current)
    <3>1. scan'[r] = s /\ pc'[r] = "permit"
      BY <1>1, <1>8, <2>3 DEF CheckWindow, Goto
    <3>2. ScanSound(scan'[r], watch'[r])
      BY <1>3, <1>5, <3>1 DEF ScanPcs
    <3> QED
      BY <2>1, <3>1, <3>2 DEF ScanInv, ScanPcs, Past, Skips, KeyAt
  <2> QED
    BY <2>2, <2>3
<1>9. CASE TryPermit(r)
  <2>1. pc[r] = "permit" /\ s.active /\ ~Skips(s)
    BY <1>9 DEF TryPermit, ScanInv, Past
  <2>2. CASE HasPermit(KeyAt(s))
    <3>1. pc'[r] = "leased"
      BY <1>1, <1>9, <2>2 DEF TryPermit, Goto
    <3> QED
      BY <3>1 DEF ScanInv, ScanPcs, Past
  <2>3. CASE ~HasPermit(KeyAt(s))
    <3>1. Advance(r, [s EXCEPT !.busy = TRUE])
      BY <1>9, <2>3 DEF TryPermit
    <3>2. KeyAt(s) \notin watch[r].free
      <4>1. ~HasRoom(KeyAt(s))
        BY <1>1, <2>3, WindowOf, InFlightType, MaxInFlightAssumption DEF HasRoom, HasPermit
      <4> QED
        BY <1>3, <4>1
    <3> QED
      BY <1>1, <1>2, <1>4, <2>1, <3>1, <3>2, MovingOnSound
  <2> QED
    BY <2>2, <2>3
<1> QED
  BY <1>6, <1>7, <1>8, <1>9

LEMMA InitScanIInv == Init => ScanIInv
<1> SUFFICES ASSUME Init PROVE ScanIInv
  OBVIOUS
<1>1. TypeOK
  BY InitTypeOK
<1>2. \A r \in Requests : pc[r] = "idle"
  BY DEF Init
<1> QED
  BY <1>1, <1>2 DEF ScanIInv, ScanInv, Observed, ScanPcs, Refusals, Past

\* Every step of every request keeps every scan sound.
LEMMA NextScanIInv == ScanIInv /\ [Next]_vars => ScanIInv'
<1> SUFFICES ASSUME ScanIInv, [Next]_vars PROVE ScanIInv'
  OBVIOUS
<1>1. TypeOK /\ TypeOK'
  BY NextTypeOK DEF ScanIInv
<1>2. pc \in [Requests -> Pcs] /\ scan \in [Requests -> ScanState] /\ index \in Keys
  BY <1>1 DEF TypeOK, RequestTypeOK, PoolTypeOK
<1>3. CASE UNCHANGED vars
  BY <1>3, <1>1 DEF vars, ScanIInv, ScanInv, Observed, Skips, KeyAt, Warm, Cooling, HasRoom, InFlight
<1>4. ASSUME Watch PROVE \A r \in Requests : Observed(r)'
  <2> TAKE r \in Requests
  <2>1. CASE pc'[r] \in ScanPcs \cup Refusals
    BY <1>4, <2>1, WatchShrinks
  <2>2. CASE pc'[r] \notin ScanPcs \cup Refusals
    BY <2>2 DEF Observed
  <2> QED
    BY <2>1, <2>2
<1>5. CASE next_key \/ Tick
  <2>1. Watch /\ UNCHANGED <<pc, scan>>
    BY <1>5 DEF next_key, Tick
  <2>2. \A r \in Requests : ScanInv(r)'
    BY <1>1, <2>1, StayingSound DEF ScanIInv
  <2> QED
    BY <1>1, <1>4, <2>1, <2>2 DEF ScanIInv
<1>6. ASSUME NEW q \in Requests, Request(q) PROVE ScanIInv'
  <2>1. Watch
    BY <1>6 DEF Request, StartScan, CheckCooldown, ReadInFlight, CheckWindow, TryPermit, Refused,
       record_success, record_rate_limited, BenchRateLimited, CountAuthFailure, BenchAuthFailed,
       note_upstream_stall, DropLease
  <2>2. ASSUME NEW r \in Requests, r # q PROVE ScanInv(r)'
    <3>1. pc'[r] = pc[r] /\ scan'[r] = scan[r]
      BY <1>2, <1>6, <2>2 DEF Request, StartScan, CheckCooldown, ReadInFlight, CheckWindow,
         TryPermit, Refused, record_success, record_rate_limited, BenchRateLimited,
         CountAuthFailure, BenchAuthFailed, note_upstream_stall, DropLease, Goto, Advance
    <3> QED
      BY <1>1, <2>1, <3>1, StayingSound DEF ScanIInv
  <2>3. ScanInv(q)'
    <3>1. CASE CheckCooldown(q) \/ ReadInFlight(q) \/ CheckWindow(q) \/ TryPermit(q)
      BY <1>1, <3>1, ScanStepSound DEF ScanIInv
    <3>2. CASE \E exclude \in Keys \cup {NoKey} : StartScan(q, exclude)
      <4>1. PICK exclude \in Keys \cup {NoKey} : StartScan(q, exclude)
        BY <3>2
      <4>2. pc'[q] = "cooldown"
        BY <1>2, <4>1 DEF StartScan, Goto
      <4>3. scan'[q] = [NoScan EXCEPT !.exclude = exclude, !.start = index, !.at = now]
        BY <1>2, <4>1 DEF StartScan
      <4>4. scan'[q].pos = 0 /\ scan'[q].pass = 0 /\ scan'[q].busy = FALSE
        BY <4>3 DEF NoScan
      <4>5. \A p \in Keys : ~(p < scan'[q].pos)
        BY <4>4
      <4> QED
        BY <4>2, <4>4, <4>5 DEF ScanInv, ScanSound, ScanPcs, Past
    <3>3. ASSUME \/ Refused(q) \/ record_success(q)
                 \/ \E asked \in RetryAfters : record_rate_limited(q, asked)
                 \/ BenchRateLimited(q) \/ CountAuthFailure(q) \/ BenchAuthFailed(q)
                 \/ note_upstream_stall(q) \/ DropLease(q)
          PROVE  ScanInv(q)'
      <4>1. \E to \in {"idle", "bench", "quarantine", "done"} : Goto(q, to)
        BY <3>3 DEF Refused, record_success, record_rate_limited, BenchRateLimited,
           CountAuthFailure, BenchAuthFailed, note_upstream_stall, DropLease
      <4>2. pc'[q] \in {"idle", "bench", "quarantine", "done"}
        BY <1>2, <4>1 DEF Goto
      <4> QED
        BY <4>2 DEF ScanInv, ScanPcs, Past
    <3> QED
      BY <1>6, <3>1, <3>2, <3>3 DEF Request
  <2> QED
    BY <1>1, <1>4, <2>1, <2>2, <2>3 DEF ScanIInv
<1> QED
  BY <1>3, <1>5, <1>6 DEF Next

\* A refusal is true of the keys: with AllBusy no key was free all scan long,
\* with AllCoolingDown none was off cooldown all scan long, whatever other
\* requests did between the locks.
THEOREM RefusalsAreTrue == Spec => []NoFalseRefusal
<1>1. ScanIInv => NoFalseRefusal
  BY DEF ScanIInv, ScanInv, NoFalseRefusal
<1> QED
  BY InitScanIInv, NextScanIInv, <1>1, PTL DEF Spec

\* The excluded key is leased only when no other key was free all scan long.
THEOREM ExclusionHolds == Spec => ExcludedKeyIsLastResort
<1>1. ScanIInv /\ [Next]_vars
        => [\A r \in Requests :
              pc[r] = "permit" /\ pc'[r] = "leased" /\ lease'[r] = scan[r].exclude
              => watch[r].free \subseteq {scan[r].exclude}]_vars
  <2> SUFFICES ASSUME ScanIInv, [Next]_vars, NEW r \in Requests,
                      pc[r] = "permit", pc'[r] = "leased", lease'[r] = scan[r].exclude
               PROVE  watch[r].free \subseteq {scan[r].exclude}
    OBVIOUS
  <2>1. KeyAt(scan[r]) = scan[r].exclude
    BY LeaseStep DEF ScanIInv
  <2>2. ~Skips(scan[r]) /\ ScanSound(scan[r], watch[r]) /\ scan[r] \in ScanState
    BY DEF ScanIInv, ScanInv, ScanPcs, Past, TypeOK, RequestTypeOK
  <2>3. scan[r].pass = 1
    BY <2>1, <2>2 DEF Skips, ScanState
  <2> QED
    BY <2>2, <2>3 DEF ScanSound
<1> QED
  BY InitScanIInv, NextScanIInv, <1>1, PTL DEF Spec, ExcludedKeyIsLastResort
=============================================================================
