-------------------------------- MODULE Aimd --------------------------------
(***************************************************************************)
(* The AIMD arithmetic of one key's in-flight window                       *)
(* (nimaproxy/src/key_pool/aimd.rs and the window half of state.rs).       *)
(*                                                                         *)
(* A window is a record of the four fields of KeyWindow.  Everything here  *)
(* is a function of one window: both record_rate_limited and               *)
(* record_success hold the window's mutex from the first read to the last  *)
(* write, so each is one step.                                             *)
(*                                                                         *)
(* The 429 ratio is an f64 in the code; here it is a fixed-point number in *)
(* units of 1/RatioOne, rounded down.                                      *)
(***************************************************************************)
EXTENDS Integers

CONSTANT MaxInFlightPerKey     \* the configured ceiling of a key's window

ASSUME MaxInFlightAssumption == MaxInFlightPerKey \in Nat \ {0}

Fixed            == "fixed"
PressureAdaptive == "pressure_adaptive"
AimdModes        == {Fixed, PressureAdaptive}

AIMD_SUCCESS_THRESHOLD == 8
AIMD_BAR_MAX           == 8
AIMD_BAR_MIN           == 1
AIMD_CREDIT_DECAY      == 2

RatioOne == 4096               \* the ratio 1.0: every outcome was a 429
LN2      == 693                \* ln 2, in thousandths

Ratio == 0 .. RatioOne

KeyWindow == [ current                : 1 .. MaxInFlightPerKey,
               successesSinceIncrease : Nat,
               pressureSuccesses      : Nat,
               pressureRatio          : Ratio ]

NewWindow == [ current                |-> MaxInFlightPerKey,
               successesSinceIncrease |-> 0,
               pressureSuccesses      |-> 0,
               pressureRatio          |-> 0 ]

-----------------------------------------------------------------------------
AtLeast(a, b)  == IF a >= b THEN a ELSE b
AtMost(a, b)   == IF a <= b THEN a ELSE b
CeilDiv(a, b)  == (a + b - 1) \div b

\* Successes that buy one slot under the static bar.
StaticSuccessCost(deficit) ==
  IF deficit <= 1 THEN 1 ELSE CeilDiv(AIMD_SUCCESS_THRESHOLD, deficit)

\* The bar ceil(2 (1 - p) / (p ln 2)) reaches b exactly when p is high enough.
BarReaches(ratio, b) == 2 * (RatioOne - ratio) * 1000 <= b * ratio * LN2

\* The derived bar: the least b in range that the formula does not exceed,
\* and AIMD_BAR_MAX when it exceeds them all (or no 429 was ever seen).
PressureBar(ratio) ==
  IF \E b \in AIMD_BAR_MIN .. AIMD_BAR_MAX : BarReaches(ratio, b)
  THEN CHOOSE b \in AIMD_BAR_MIN .. AIMD_BAR_MAX :
         /\ BarReaches(ratio, b)
         /\ \A c \in AIMD_BAR_MIN .. AIMD_BAR_MAX : BarReaches(ratio, c) => b <= c
  ELSE AIMD_BAR_MAX

\* Mutant: the whole bar is charged for every slot, however deep the deficit.
PressureSuccessCostUnspread(deficit, ratio, barMax) ==
  LET ceiling == AtLeast(AtMost(barMax, AIMD_BAR_MAX), AIMD_BAR_MIN)
  IN  IF deficit <= 1 THEN 1 ELSE AtMost(PressureBar(ratio), ceiling)

\* The operator's ceiling barMax is clamped before it caps the derived bar.
PressureSuccessCost(deficit, ratio, barMax) ==
  LET ceiling == AtLeast(AtMost(barMax, AIMD_BAR_MAX), AIMD_BAR_MIN)
      bar     == AtMost(PressureBar(ratio), ceiling)
  IN  IF deficit <= 1 THEN 1 ELSE AtLeast(CeilDiv(bar, deficit), 1)

-----------------------------------------------------------------------------
\* The ratio is an EWMA of weight 1/8 over the key's outcomes.
FoldOutcome(ratio, rateLimited) ==
  (7 * ratio + (IF rateLimited THEN RatioOne ELSE 0)) \div 8

\* Mutant: a window may be halved to nothing.
RecordRateLimitedNoFloor(mode, w) ==
  [ current                |-> w.current \div 2,
    successesSinceIncrease |-> 0,
    pressureSuccesses      |-> w.pressureSuccesses \div AIMD_CREDIT_DECAY,
    pressureRatio          |-> FoldOutcome(w.pressureRatio, TRUE) ]

RecordRateLimited(mode, w) ==
  [ current                |-> AtLeast(w.current \div 2, 1),
    successesSinceIncrease |-> IF mode = Fixed
                               THEN 0
                               ELSE w.successesSinceIncrease \div AIMD_CREDIT_DECAY,
    pressureSuccesses      |-> w.pressureSuccesses \div AIMD_CREDIT_DECAY,
    pressureRatio          |-> FoldOutcome(w.pressureRatio, TRUE) ]

\* Mutant: the success now being recorded is not counted yet.
BuysSlotLate(mode, barMax, w) ==
  LET deficit == MaxInFlightPerKey - w.current
  IN  IF mode = Fixed
      THEN w.successesSinceIncrease >= StaticSuccessCost(deficit)
      ELSE w.pressureSuccesses
             >= PressureSuccessCost(deficit, FoldOutcome(w.pressureRatio, FALSE), barMax)

\* Does the success now being recorded buy a slot?  The ratio the adaptive
\* bar reads has already been folded with this success.
BuysSlot(mode, barMax, w) ==
  LET deficit == MaxInFlightPerKey - w.current
  IN  IF mode = Fixed
      THEN w.successesSinceIncrease + 1 >= StaticSuccessCost(deficit)
      ELSE w.pressureSuccesses + 1
             >= PressureSuccessCost(deficit, FoldOutcome(w.pressureRatio, FALSE), barMax)

RecordSuccess(mode, barMax, w) ==
  LET below == w.current < MaxInFlightPerKey
      grown == below /\ BuysSlot(mode, barMax, w)
      reset == grown \/ ~below
  IN  [ current                |-> IF grown THEN w.current + 1 ELSE w.current,
        successesSinceIncrease |-> IF reset THEN 0 ELSE w.successesSinceIncrease + 1,
        pressureSuccesses      |-> IF reset THEN 0 ELSE w.pressureSuccesses + 1,
        pressureRatio          |-> FoldOutcome(w.pressureRatio, FALSE) ]
=============================================================================
