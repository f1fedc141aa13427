----------------------------- MODULE ModelStats -----------------------------
(***************************************************************************)
(* Per-model statistics: the circuit breaker, the timeout quarantine with  *)
(* its half-open probe, and the choice of models for a direct request and  *)
(* for a race (nimaproxy/src/model_stats.rs), the router in front of it    *)
(* (model_router.rs) and the recheck task behind it (model_refresh.rs).    *)
(*                                                                         *)
(* The store holds two maps behind two locks, the entries and the per-key  *)
(* failure counts.  A call that uses a model is a leg: it starts when the  *)
(* model is picked and ends with a report, with several, or with none (an  *)
(* aborted racing leg, an auth failure, a body that broke).  A report with *)
(* a key takes the two locks one after the other, and hard errors take the *)
(* first one again, so a leg has a program counter.                        *)
(*                                                                         *)
(* Latencies are small numbers; a ring is the sequence of its samples.     *)
(***************************************************************************)
EXTENDS Integers, Sequences, FiniteSets, SequencesExt

CONSTANTS
  Models,             \* the models of the configuration, in order: a sequence
  Upstream,           \* those the startup fetch found; all, if it failed
  FastModels,         \* racing_fast_models, a set; the others are fallback
  KeyLabels,          \* labels of the keys that legs run with
  Legs,               \* calls in flight at once: 1 .. n, interchangeable
  Latencies,          \* latencies a success may have
  SpikeThreshold,     \* spike_threshold_ms
  RingSize,           \* RING_SIZE
  SampleFloor,        \* LATENCY_DEGRADATION_SAMPLE_FLOOR
  TriedAfter,         \* reports before a model stops being untried
  FailureLimit,       \* consecutive failures that degrade a model or a key
  HardErrorFailures,  \* what a hard error adds to them
  TimeoutLimit,       \* TIMEOUT_QUARANTINE_FAILURES
  Quarantine,         \* TIMEOUT_QUARANTINE_MS, in ticks
  TurnLimit,          \* max_consecutive_assistant_turns
  MaxTime,            \* bound: the clock stops here
  MaxReports,         \* bound: reports of all models
  MaxFailures         \* bound: no hard error once a model has more failures

ModelSet == {Models[i] : i \in DOMAIN Models}

\* A configuration that names a model twice would race it twice; it is not
\* modelled.
ASSUME ModelStatsAssumption ==
  /\ Models \in Seq(ModelSet) /\ Len(Models) > 0 /\ IsInjective(Models)
  /\ Legs \in SUBSET Nat /\ IsFiniteSet(Legs) /\ IsFiniteSet(KeyLabels)
  /\ Latencies \subseteq Nat
  /\ SpikeThreshold \in Nat /\ TurnLimit \in Nat
  /\ RingSize \in Nat \ {0} /\ SampleFloor \in Nat \ {0}
  /\ TriedAfter \in Nat /\ FailureLimit \in Nat \ {0}
  /\ HardErrorFailures \in Nat
  /\ TimeoutLimit \in Nat \ {0} /\ Quarantine \in Nat \ {0}
  /\ MaxTime \in Nat /\ MaxReports \in Nat /\ MaxFailures \in Nat

Never == -1          \* no quarantine deadline
NoModel == "none"

\* What of a list is in a set, in the order of the list.
Retained(s, T) ==
  LET at == CHOOSE q \in SetToSeqs({i \in DOMAIN s : s[i] \in T}) :
              \A i, j \in DOMAIN q : i < j => q[i] < q[j]
  IN  [i \in DOMAIN at |-> s[at[i]]]

\* The models that are routed to and raced: the startup refresh prunes the
\* ones missing upstream.
PruneMissing(ms, upstream) == Retained(ms, upstream)

Configured == PruneMissing(Models, Upstream)

ASSUME NoModelAssumption == NoModel \notin ModelSet

VARIABLES
  now,           \* the clock
  rr_index,      \* the router's round-robin counter, modulo its list
  entry,         \* inner: per model, its ModelEntry
  key_failures,  \* per model, the failures of each key label it has seen
  leg            \* per leg: the model it runs, how it was picked, and its step

vars == <<now, rr_index, entry, key_failures, leg>>

Entry ==
  [known : BOOLEAN, ring : Seq(Latencies), total : Nat, success : Nat,
   failures : Nat, looping : BOOLEAN, turns : Nat, server_degraded : BOOLEAN,
   timeouts : Nat, until : Nat \cup {Never}, probing : BOOLEAN]

NewEntry ==
  [known |-> FALSE, ring |-> <<>>, total |-> 0, success |-> 0,
   failures |-> 0, looping |-> FALSE, turns |-> 0, server_degraded |-> FALSE,
   timeouts |-> 0, until |-> Never, probing |-> FALSE]

Unseen == -1     \* a label the tracker of a model has no count for

\* A flying leg may still report.  A condemned one has reported a hard error
\* and reports its failure next.  A keyed one is between the two locks of its
\* report, and a hard one has a hard error still to report.
LegSteps == {"idle", "flying", "condemned", "keyed", "hard"}

Leg == [model : ModelSet \cup {NoModel}, via : {"none", "direct", "race", "probe"},
        step : LegSteps, ok : BOOLEAN, hard : BOOLEAN]

IdleLeg == [model |-> NoModel, via |-> "none", step |-> "idle",
            ok |-> FALSE, hard |-> FALSE]

-----------------------------------------------------------------------------
(* What a report does to an entry *)

ClearTimeouts(e) == [e EXCEPT !.timeouts = 0, !.until = Never, !.probing = FALSE]

Least(a, b) == IF a < b THEN a ELSE b

\* The ring keeps the last RingSize samples.
Push(ring, ms) ==
  IF Len(ring) < RingSize THEN Append(ring, ms) ELSE Append(Tail(ring), ms)

CountReport(e) == [e EXCEPT !.known = TRUE, !.total = @ + 1]

RecordSuccess(e, ms) ==
  ClearTimeouts([e EXCEPT !.success = @ + 1, !.failures = 0, !.ring = Push(@, ms)])

\* Mutant: the deadline of the quarantine survives a failure.
RecordFailureKeepsDeadline(e) == [e EXCEPT !.failures = @ + 1, !.timeouts = 0]

RecordFailure(e) == ClearTimeouts([e EXCEPT !.failures = @ + 1])

RecordTimeout(e) ==
  [e EXCEPT !.failures = @ + 1, !.timeouts = @ + 1, !.probing = FALSE,
            !.until = IF e.timeouts + 1 >= TimeoutLimit THEN now + Quarantine ELSE @]

\* The circuit-breaker fields are written by a success only.  Turns are only
\* ever compared with their limit, so they are counted up to it.
NoteAnswer(e, looping, had_tool_call) ==
  [e EXCEPT !.looping = looping,
            !.turns = IF had_tool_call THEN 0 ELSE Least(@ + 1, TurnLimit)]

MarkServerDegraded(e) ==
  [e EXCEPT !.known = TRUE, !.server_degraded = TRUE, !.failures = @ + HardErrorFailures]

-----------------------------------------------------------------------------
(* What an entry says *)

SumOf(ring) == FoldFunction(+, 0, ring)

\* avg_ms of e is below that of f; a model without samples comes last.
Faster(e, f) ==
  /\ e.ring # <<>>
  /\ f.ring = <<>> \/ SumOf(e.ring) * Len(f.ring) < SumOf(f.ring) * Len(e.ring)

Quarantined(e) == e.until > now

ProbeReady(e) ==
  /\ e.timeouts >= TimeoutLimit /\ ~e.probing
  /\ e.until # Never /\ e.until <= now

LatencyDegraded(e) ==
  /\ Len(e.ring) >= SampleFloor
  /\ SumOf(e.ring) > SpikeThreshold * Len(e.ring)

CircuitDegraded(e) == e.looping \/ (TurnLimit > 0 /\ e.turns >= TurnLimit)

AvailabilityDegraded(e) == e.failures >= FailureLimit \/ CircuitDegraded(e)

\* What /stats shows as degraded.
IsDegraded(e) ==
  e.server_degraded \/ Quarantined(e) \/ e.failures >= FailureLimit
    \/ LatencyDegraded(e) \/ CircuitDegraded(e)

Snapshot ==
  [m \in {n \in ModelSet : entry[n].known} |->
    [total |-> entry[m].total, success |-> entry[m].success,
     sample_count |-> Len(entry[m].ring), degraded |-> IsDegraded(entry[m])]]

\* Over the labels seen only; no tracker exists before the first report.
AllKeysFailed(m) ==
  LET seen == {k \in KeyLabels : key_failures[m][k] # Unseen}
  IN  seen # {} /\ \A k \in seen : key_failures[m][k] >= FailureLimit

\* The bucket a model falls into for a race.
Bucket(m) ==
  LET e == entry[m]
  IN  CASE AllKeysFailed(m)        -> "out"
        [] e.server_degraded       -> "out"
        [] Quarantined(e)          -> "out"
        [] ProbeReady(e)           -> "probe"
        [] AvailabilityDegraded(e) -> "failing"
        [] LatencyDegraded(e)      -> "slow"
        [] OTHER                   -> "healthy"

\* The bucket it falls into for a direct request.
DirectBucket(m) ==
  LET e == entry[m]
  IN  CASE ~e.known                -> "untried"
        [] e.server_degraded       -> "out"
        [] Quarantined(e)          -> "out"
        [] ProbeReady(e)           -> "failing"
        [] e.total < TriedAfter    -> "untried"
        [] AvailabilityDegraded(e) -> "failing"
        [] LatencyDegraded(e)      -> "slow"
        [] OTHER                   -> "healthy"

-----------------------------------------------------------------------------
(* Picking models *)

Position(m, cands) == CHOOSE i \in DOMAIN cands : cands[i] = m

\* The one of them that a list puts first: the faster one; equal ones keep the
\* order of the candidates.
Before(m, n, cands) ==
  \/ Faster(entry[m], entry[n])
  \/ ~Faster(entry[n], entry[m]) /\ Position(m, cands) < Position(n, cands)

\* The models of S in that order.
Ranked(S, cands) ==
  CHOOSE s \in SetToSeqs(S) : \A i, j \in DOMAIN s : i < j => Before(s[i], s[j], cands)

InBucket(b, cands) == {m \in ToSet(cands) : Bucket(m) = b}

\* Mutant: the probe may displace the only model of a race.
SelectWithProbeAlone(healthy, slow, failing, probes, max) ==
  IF max = 1 /\ probes # <<>> THEN <<probes[1]>>
  ELSE SubSeq(healthy \o slow \o failing, 1, Least(max, Len(healthy \o slow \o failing)))

\* A race takes the healthy models, then the slow ones, then at most one
\* probe, which may displace a healthy model but no slow one, then the rest.
SelectWithProbe(healthy, slow, failing, probes, max) ==
  LET Take(s)  == SubSeq(s, 1, IF Len(s) < max THEN Len(s) ELSE max)
      base     == Take(healthy \o slow)
      slowIn   == Len(base) > Len(Take(healthy))
      probed   == CASE probes = <<>> -> base
                    [] probes # <<>> /\ Len(base) < max -> Append(base, probes[1])
                    [] probes # <<>> /\ Len(base) >= max ->
                         IF max >= 2 /\ ~slowIn
                         THEN Append(Front(base), probes[1]) ELSE base
  IN  IF max = 0 THEN <<>> ELSE Take(probed \o failing)

\* One list: every candidate is in the same tier.
RacingCandidates(cands, max) ==
  LET R(b) == Ranked(InBucket(b, cands), cands)
  IN  SelectWithProbe(R("healthy"), R("slow"), R("failing"), R("probe"), max)

\* Two tiers: within a bucket, the fast models come before the fallback ones.
RacingCandidatesTiered(cands, max) ==
  LET R(b) == Ranked(InBucket(b, cands) \cap FastModels, cands)
                \o Ranked(InBucket(b, cands) \ FastModels, cands)
  IN  SelectWithProbe(R("healthy"), R("slow"), R("failing"), R("probe"), max)

\* The reports of all models: they drive the cycle of the untried ones.
Reports == FoldFunction(+, 0, [m \in ModelSet |-> entry[m].total])

BestModel(cands) ==
  LET In(b)   == {m \in ToSet(cands) : DirectBucket(m) = b}
      untried == Retained(cands, In("untried"))
      ranked  == Ranked(In("healthy"), cands) \o Ranked(In("slow"), cands)
                   \o Ranked(In("failing"), cands)
  IN  CASE untried # <<>> -> untried[(Reports % Len(untried)) + 1]
        [] untried = <<>> /\ ranked # <<>> -> ranked[1]
        [] OTHER -> NoModel

Rotated(s, c) == [i \in DOMAIN s |-> s[((c + i - 1) % Len(s)) + 1]]

-----------------------------------------------------------------------------
Init ==
  /\ now = 0
  /\ rr_index = 0
  /\ entry = [m \in ModelSet |-> NewEntry]
  /\ key_failures = [m \in ModelSet |-> [k \in KeyLabels |-> Unseen]]
  /\ leg = [i \in Legs |-> IdleLeg]

-----------------------------------------------------------------------------
(* Legs start *)

IdleLegs == {i \in Legs : leg[i].step = "idle"}

Started(m, via) ==
  [model |-> m, via |-> via, step |-> "flying", ok |-> FALSE, hard |-> FALSE]

\* Legs are interchangeable: a request takes the first idle one.
StartOne(m, via) ==
  \E i \in IdleLegs :
    /\ \A j \in IdleLegs : i <= j
    /\ leg' = [leg EXCEPT ![i] = Started(m, via)]

\* The client names the model: the statistics are not asked.
NamedRequest(m) ==
  /\ StartOne(m, "direct")
  /\ UNCHANGED <<now, rr_index, entry, key_failures>>

\* Mutant: the counter is not taken modulo the list.
RouteRoundRobinUnwrapped ==
  /\ rr_index' = rr_index + 1
  /\ StartOne(Configured[1], "direct")
  /\ UNCHANGED <<now, entry, key_failures>>

RouteRoundRobin ==
  /\ Configured # <<>>
  /\ rr_index' = (rr_index + 1) % Len(Configured)
  /\ StartOne(Configured[rr_index + 1], "direct")
  /\ UNCHANGED <<now, entry, key_failures>>

\* best_model does not mark a probe it picks.
RouteLatencyAware ==
  LET m == BestModel(Configured)
  IN  /\ m # NoModel
      /\ StartOne(m, "direct")
      /\ UNCHANGED <<now, rr_index, entry, key_failures>>

\* One locked step picks the models and marks the probe in flight; the legs
\* are spawned from the list.
MarkProbeLaunched(e) == IF ProbeReady(e) THEN [e EXCEPT !.probing = TRUE] ELSE e

\* The idle legs are taken in order.
PlaceOf(i) == Cardinality({j \in IdleLegs : j <= i})

Race(list) ==
  /\ list # <<>> /\ Len(list) <= Cardinality(IdleLegs)
  /\ entry' = [m \in ModelSet |->
       IF m \in ToSet(list) /\ Bucket(m) = "probe"
       THEN MarkProbeLaunched(entry[m]) ELSE entry[m]]
  /\ leg' = [i \in Legs |->
       IF i \in IdleLegs /\ PlaceOf(i) <= Len(list)
       THEN Started(list[PlaceOf(i)], IF Bucket(list[PlaceOf(i)]) = "probe" THEN "probe" ELSE "race")
       ELSE leg[i]]
  /\ UNCHANGED <<now, rr_index, key_failures>>

RaceFlat ==
  /\ IdleLegs # {}
  /\ \E list \in {RacingCandidates(Rotated(Configured, c), max) :
                  max \in 1 .. Len(Models), c \in 0 .. Len(Configured) - 1} : Race(list)

RaceTiered ==
  /\ IdleLegs # {}
  /\ \E list \in {RacingCandidatesTiered(Rotated(Configured, c), max) :
                  max \in 1 .. Len(Models), c \in 0 .. Len(Configured) - 1} : Race(list)

-----------------------------------------------------------------------------
(* Legs report *)

Reporting(l, step, ok, hard) ==
  [model |-> l.model, via |-> "none", step |-> step, ok |-> ok, hard |-> hard]

\* The first lock of a report: record, and record_with_key up to the second.
Report(i, e, ok, hard) ==
  /\ Reports < MaxReports
  /\ entry' = [entry EXCEPT ![leg[i].model] = e]
  /\ \/ leg' = [leg EXCEPT ![i] = Reporting(@, "keyed", ok, hard)]
     \/ leg' = [leg EXCEPT ![i] = IF hard THEN Reporting(@, "hard", ok, hard) ELSE IdleLeg]
  /\ UNCHANGED <<now, rr_index, key_failures>>

Answered(i) ==
  /\ leg[i].step = "flying"
  /\ \E ms \in Latencies :
       Report(i, RecordSuccess(CountReport(entry[leg[i].model]), ms), TRUE, FALSE)

\* record_with_circuit_breaker takes no key: there is no second lock.
AnsweredWithCircuitBreaker(i) ==
  /\ leg[i].step = "flying" /\ Reports < MaxReports
  /\ \E ms \in Latencies, looping, had_tool_call \in BOOLEAN :
       entry' = [entry EXCEPT ![leg[i].model] =
         NoteAnswer(RecordSuccess(CountReport(@), ms), looping, had_tool_call)]
  /\ leg' = [leg EXCEPT ![i] = IdleLeg]
  /\ UNCHANGED <<now, rr_index, key_failures>>

Failed(i) ==
  /\ leg[i].step \in {"flying", "condemned"}
  /\ \E hard \in BOOLEAN :
       /\ hard => leg[i].step = "flying"
       /\ Report(i, RecordFailure(CountReport(entry[leg[i].model])), FALSE, hard)

TimedOut(i) ==
  /\ leg[i].step = "flying"
  /\ Report(i, RecordTimeout(CountReport(entry[leg[i].model])), FALSE, FALSE)

\* Mutant: the outcome is not looked at.
NoteKeyAnyOutcome(i, k) ==
  /\ leg[i].step = "keyed"
  /\ key_failures' = [key_failures EXCEPT ![leg[i].model][k] = IF @ = Unseen THEN 1 ELSE @ + 1]
  /\ leg' = [leg EXCEPT ![i] = IdleLeg]
  /\ UNCHANGED <<now, rr_index, entry>>

\* The second lock of record_with_key and record_timeout_with_key.
NoteKey(i, k) ==
  LET m == leg[i].model
  IN  /\ leg[i].step = "keyed"
      /\ key_failures' = [key_failures EXCEPT ![m][k] =
           IF leg[i].ok THEN 0 ELSE IF @ = Unseen THEN 1 ELSE @ + 1]
      /\ leg' = [leg EXCEPT ![i] = IF leg[i].hard THEN [@ EXCEPT !.step = "hard"] ELSE IdleLeg]
      /\ UNCHANGED <<now, rr_index, entry>>

\* Before the failure is recorded (the fallback) or after it (the others).
HardError(i) ==
  /\ leg[i].step \in {"flying", "hard"}
  /\ entry[leg[i].model].failures <= MaxFailures
  /\ entry' = [entry EXCEPT ![leg[i].model] = MarkServerDegraded(@)]
  /\ leg' = [leg EXCEPT ![i] =
       IF leg[i].step = "hard" THEN IdleLeg ELSE Reporting(@, "condemned", FALSE, FALSE)]
  /\ UNCHANGED <<now, rr_index, key_failures>>

\* The leg ends and reports nothing: it is aborted, dropped at a deadline,
\* finds no permit, meets an auth failure, or its body breaks.
Dropped(i) ==
  /\ leg[i].step = "flying"
  /\ leg' = [leg EXCEPT ![i] = IdleLeg]
  /\ UNCHANGED <<now, rr_index, entry, key_failures>>

-----------------------------------------------------------------------------

\* A recheck degrades the configured models missing upstream, one lock each;
\* the models do not depend on each other, so a step takes one of them.
RecheckFindsMissing(m) ==
  /\ m \in ToSet(Configured)
  /\ entry[m].failures <= MaxFailures
  /\ entry' = [entry EXCEPT ![m] = MarkServerDegraded(@)]
  /\ UNCHANGED <<now, rr_index, key_failures, leg>>

Tick ==
  /\ now < MaxTime
  /\ now' = now + 1
  /\ UNCHANGED <<rr_index, entry, key_failures, leg>>

LegStep(i) ==
  \/ Answered(i) \/ AnsweredWithCircuitBreaker(i) \/ Failed(i) \/ TimedOut(i)
  \/ \E k \in KeyLabels : NoteKey(i, k)
  \/ HardError(i) \/ Dropped(i)

Next ==
  \/ Tick \/ RouteRoundRobin \/ RouteLatencyAware \/ RaceFlat \/ RaceTiered
  \/ \E m \in ModelSet : NamedRequest(m) \/ RecheckFindsMissing(m)
  \/ \E i \in Legs : LegStep(i)

Spec == Init /\ [][Next]_vars

-----------------------------------------------------------------------------
(* Properties *)

\* Every variable keeps its type, and the router's counter is an index of its
\* list (ModelRouter::pick takes it modulo the list).
TypeOK ==
  /\ now \in 0 .. MaxTime
  /\ rr_index \in Nat /\ (Configured # <<>> => rr_index < Len(Configured))
  /\ entry \in [ModelSet -> Entry]
  /\ key_failures \in [ModelSet -> [KeyLabels -> Nat \cup {Unseen}]]
  /\ leg \in [Legs -> Leg]

\* Whatever the order in which the legs of several requests report, the
\* timeout fields of an entry agree: it has a quarantine deadline exactly
\* when its timeouts reached the limit, a probe is marked in flight only once
\* that deadline has passed, and timeouts count as failures too.  Were it
\* not so, a model could stay out of races with no probe to bring it back.
TimeoutStateCoherent ==
  \A m \in ModelSet :
    LET e == entry[m]
    IN  /\ e.until # Never <=> e.timeouts >= TimeoutLimit
        /\ e.probing => e.until # Never /\ e.until <= now
        /\ e.timeouts <= e.failures

FailuresOfKeys(m) ==
  FoldFunction(+, 0, [k \in KeyLabels |->
    IF key_failures[m][k] = Unseen THEN 0 ELSE key_failures[m][k]])

\* Between the two locks of a report other legs of the model report and races
\* read both maps.  Still a model is never charged more key failures than the
\* failures it reported, those still between the locks included: its keys
\* cannot shut it out of races for failures that did not happen.
KeyFailuresAccounted ==
  \A m \in ModelSet :
    FailuresOfKeys(m)
      + Cardinality({i \in Legs : leg[i].model = m /\ leg[i].step = "keyed" /\ ~leg[i].ok})
    <= entry[m].total - entry[m].success

\* What a race may be given in any reachable state, for every fan-out and
\* either form of the list: distinct models none of which is shut out, at
\* most one probe, as many as there are up to the fan-out, a slow model only
\* if every healthy one is in, one that keeps failing only if every healthy
\* and slow one is in, and a probe only next to a healthy one if there is any:
\* no client waits for a probe alone.  None raced as healthy is shown as
\* degraded by /stats.
RaceListSound ==
  LET bucket  == [m \in ToSet(Configured) |-> Bucket(m)]
      All(b)  == {m \in ToSet(Configured) : bucket[m] = b}
      healthy == All("healthy")
      fit     == healthy \cup All("slow") \cup All("failing")
      probes  == Least(1, Cardinality(All("probe")))
  IN  \A max \in 0 .. Len(Models) :
        \A list \in {RacingCandidates(Configured, max), RacingCandidatesTiered(Configured, max)} :
          LET In(b) == {m \in ToSet(list) : bucket[m] = b}
          IN  /\ IsInjective(list) /\ ToSet(list) \subseteq ToSet(Configured)
              /\ In("out") = {} /\ Cardinality(In("probe")) <= 1
              /\ Len(list) = Least(max, Cardinality(fit) + probes)
              /\ In("failing") # {} => healthy \cup All("slow") \subseteq ToSet(list)
              /\ In("slow") # {} => healthy \subseteq ToSet(list)
              /\ \A m \in In("healthy") \cap DOMAIN Snapshot : ~Snapshot[m].degraded
              /\ In("probe") # {} /\ healthy # {} => In("healthy") # {}
=============================================================================
