------------------------------ MODULE KeyWindow ------------------------------
(***************************************************************************)
(* The window of one key under the two recovery rules at once.             *)
(*                                                                         *)
(* `window` holds the KeyWindow of the same key in a pool that runs        *)
(* AimdMode::Fixed and in one that runs AimdMode::PressureAdaptive, both   *)
(* fed the same upstream outcomes: record_success for a delivered answer,  *)
(* record_rate_limited for a 429.  Running them in step is what makes the  *)
(* comparison of the two rules, the reason the adaptive one exists,        *)
(* checkable.                                                              *)
(***************************************************************************)
EXTENDS Aimd

CONSTANT AimdMaxSuccessBar     \* the operator's ceiling on the adaptive bar

ASSUME BarAssumption == AimdMaxSuccessBar \in Nat

VARIABLES
  window,     \* [AimdModes -> KeyWindow]
  streak      \* history: successes since the last 429, capped at StreakCap

windowVars == <<window, streak>>

\* Successes that lift a window from 1 to the ceiling: what every slot costs
\* under the static bar, summed over the deficits MaxInFlightPerKey-1 .. 1.
RecoveryCost[deficit \in 0 .. MaxInFlightPerKey - 1] ==
  IF deficit = 0 THEN 0
                 ELSE StaticSuccessCost(deficit) + RecoveryCost[deficit - 1]

StreakCap == RecoveryCost[MaxInFlightPerKey - 1]

WindowTypeOK == /\ window \in [AimdModes -> KeyWindow]
                /\ streak \in 0 .. StreakCap

WindowInit == /\ window = [m \in AimdModes |-> NewWindow]
              /\ streak = 0

SuccessInBoth ==
  /\ window' = [m \in AimdModes |-> RecordSuccess(m, AimdMaxSuccessBar, window[m])]
  /\ streak' = IF streak < StreakCap THEN streak + 1 ELSE streak

RateLimitedInBoth ==
  /\ window' = [m \in AimdModes |-> RecordRateLimited(m, window[m])]
  /\ streak' = 0

WindowNext == SuccessInBoth \/ RateLimitedInBoth

WindowSpec == WindowInit /\ [][WindowNext]_windowVars

-----------------------------------------------------------------------------
\* The adaptive rule never leaves a key with a smaller window than the fixed
\* rule would have, whatever the upstream answered and whatever the ceiling on
\* the bar: turning the knob on can only help a throttled key.
AdaptiveNeverBehindFixed ==
  window[PressureAdaptive].current >= window[Fixed].current

\* A key that has answered without a 429 for as many requests as the static
\* costs add up to is back at its ceiling under either rule, however deep it
\* had been pushed: a recovery cannot be ratcheted away by old credit.
RecoveredAfterStreak ==
  streak = StreakCap => \A m \in AimdModes : window[m].current = MaxInFlightPerKey
=============================================================================
