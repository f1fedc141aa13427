------------------------------ MODULE Timeouts ------------------------------
(***************************************************************************)
(* The rail of a first byte and the delay before a hedge, as functions of  *)
(* the latencies a model is known for (nimaproxy/src/proxy/timeouts.rs,    *)
(* model_stats.rs and hedge.rs).  A ring is the sequence of the latest     *)
(* latencies of successful calls; no other call enters it.                 *)
(*                                                                         *)
(* Latencies are whole units of time, and rails are rounded down to them.  *)
(***************************************************************************)
EXTENDS Integers, Sequences, FiniteSets

CONSTANTS
  FixedRail,       \* first_byte_timeout_ms, or Unset
  MaxTimeout,      \* racing_timeout_ms
  MinTimeout,      \* min_dynamic_timeout_ms
  SampleFloor,     \* dynamic_sample_floor
  BufferFloor,     \* the least buffer above the p95
  HedgeMargin,     \* HEDGE_MARGIN_MS
  HedgeFixedDelay, \* HEDGE_FIXED_DELAY_MS
  RailHeadroom     \* RAIL_HEADROOM_MS

Unset == -1

\* main refuses to start with the floor above the ceiling.
ValidTimeoutPair == MinTimeout <= MaxTimeout

\* AppState raises the sample floor to 2 and the least rail to 1 s.
ASSUME TimeoutsAssumption ==
  /\ SampleFloor \in Nat /\ SampleFloor >= 2
  /\ FixedRail \in (Nat \ {0}) \cup {Unset}
  /\ {MinTimeout, MaxTimeout} \subseteq Nat \ {0}
  /\ ValidTimeoutPair
  /\ {BufferFloor, HedgeMargin, HedgeFixedDelay, RailHeadroom} \subseteq Nat

Smaller(a, b) == IF a < b THEN a ELSE b
Larger(a, b)  == IF a > b THEN a ELSE b

\* How many samples are at most, and how many below, a latency.
UpTo(ring, ms)  == Cardinality({i \in DOMAIN ring : ring[i] <= ms})
Below(ring, ms) == Cardinality({i \in DOMAIN ring : ring[i] < ms})

\* The sample at position floor(0.95 n), from 0, of the sorted ring.
P95(ring) ==
  LET idx == (95 * Len(ring)) \div 100
  IN  CHOOSE ms \in {ring[i] : i \in DOMAIN ring} :
        Below(ring, ms) <= idx /\ idx < UpTo(ring, ms)

\* A ring below the floor is not learned from.
Learned(ring) == Len(ring) >= SampleFloor

DynamicTimeout(ring) ==
  IF Learned(ring)
  THEN LET p95 == P95(ring)
       IN  Larger(Smaller(p95 + Larger(BufferFloor, p95 \div 2), MaxTimeout), MinTimeout)
  ELSE MaxTimeout

FirstByteTimeout(ring) == IF FixedRail = Unset THEN DynamicTimeout(ring) ELSE FixedRail

\* The p95 and the length of the ring are read in one critical section.
Silence(ring) == IF Learned(ring) THEN P95(ring) + HedgeMargin ELSE HedgeFixedDelay

\* The headroom is a saturating subtraction: a rail below it gives no delay.
HedgeDelay(ring, rail) ==
  Smaller(Silence(ring), Larger(rail - RailHeadroom, 0))
=============================================================================
