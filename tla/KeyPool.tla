------------------------------ MODULE KeyPool ------------------------------
(***************************************************************************)
(* The pool of upstream API keys shared by every request of the proxy      *)
(* (nimaproxy/src/key_pool/).                                              *)
(*                                                                         *)
(* A key has three pieces of state behind three separate locks: a cooldown *)
(* slot, an AIMD window and a permit semaphore.  The requests are tokio    *)
(* tasks on several threads, so every lock acquisition is a step of its    *)
(* own here, and between two of them any other request may run.            *)
(*                                                                         *)
(* The per-(key, model) rank is left out: its only writer, record_answer,  *)
(* has no caller in the proxy, so every candidate ties and the order of a  *)
(* scan is the rotated one.  The pool runs AimdMode::Fixed, which never    *)
(* reads the pressure fields of a window.                                  *)
(***************************************************************************)
EXTENDS Aimd, FiniteSets

CONSTANTS
  NKeys,                    \* keys in the pool; a key is its index
  Requests,                 \* concurrent request tasks
  RetryAfters,              \* seconds an upstream 429 may ask for
  RateLimitBenchCap,        \* rate_limit_bench_cap_secs, or NoCap
  AuthFailureCooldown,      \* auth_failure_cooldown_secs; 0 disables quarantine
  MaxTime,                  \* bound: the clock stops here
  MaxNotes                  \* bound: none is noted once a key has this many

NoCap == -1
NoKey == -1
Keys  == 0 .. NKeys - 1

ASSUME KeyPoolAssumption ==
  /\ NKeys \in Nat \ {0}
  /\ IsFiniteSet(Requests)
  /\ RetryAfters \subseteq Nat
  /\ RateLimitBenchCap \in Nat \cup {NoCap}
  /\ AuthFailureCooldown \in Nat
  /\ MaxTime \in Nat
  /\ MaxNotes \in Nat

RateLimit   == "rate_limit"
AuthFailure == "auth_failure"
NoBench     == [until |-> 0, reason |-> "none"]

VARIABLES
  now,            \* the clock, in seconds
  index,          \* the round-robin counter, modulo NKeys
  cooldowns,      \* per key: the bench slot
  windows,        \* per key: the AIMD window
  auth_failures,  \* per key: 401/403 responses counted
  stalls,         \* per key: stalls counted
  pc,             \* per request: what it does next
  lease,          \* per request: the key whose permit it holds, or NoKey
  scan,           \* per request: the locals of next_key_with_permit_excluding
  secs,           \* per request: the bench it is about to write
  watch           \* history per request: what held of each key all scan long

poolVars == <<cooldowns, windows, auth_failures, stalls>>
vars     == <<now, index, cooldowns, windows, auth_failures, stalls,
              pc, lease, scan, secs, watch>>

-----------------------------------------------------------------------------
Cooling(k, at) == at < cooldowns[k].until
InFlight(k)    == Cardinality({r \in Requests : lease[r] = k})
HasPermit(k)   == InFlight(k) < MaxInFlightPerKey
HasRoom(k)     == InFlight(k) < windows[k].current

\* Bound: stalls and auth failures are noted only while every key has few.
Noting         == \A k \in Keys : auth_failures[k] + stalls[k] < MaxNotes

\* The fields of a window that AimdMode::Fixed reads.
FixedView(w) == [w EXCEPT !.pressureSuccesses = 0, !.pressureRatio = 0]

NoScan == [ exclude |-> NoKey, start |-> 0, at |-> 0, pass |-> 0, pos |-> 0,
            inFlight |-> 0, active |-> FALSE, busy |-> FALSE ]

\* The key a scan stands at: the order is rotated by the round-robin start.
KeyAt(s) == (s.start + s.pos) % NKeys

ScanPcs   == {"cooldown", "in_flight", "window", "permit"}
Refusals  == {"all_busy", "all_cooling"}
LeasedPcs == {"leased", "bench", "quarantine", "done"}
Pcs       == {"idle"} \cup ScanPcs \cup Refusals \cup LeasedPcs

Warm(s) == {k \in Keys : ~Cooling(k, s.at)}

-----------------------------------------------------------------------------
Init ==
  /\ now = 0
  /\ index = 0
  /\ cooldowns = [k \in Keys |-> NoBench]
  /\ windows = [k \in Keys |-> NewWindow]
  /\ auth_failures = [k \in Keys |-> 0]
  /\ stalls = [k \in Keys |-> 0]
  /\ pc = [r \in Requests |-> "idle"]
  /\ lease = [r \in Requests |-> NoKey]
  /\ scan = [r \in Requests |-> NoScan]
  /\ secs = [r \in Requests |-> 0]
  /\ watch = [r \in Requests |-> [warm |-> {}, cold |-> {}, free |-> {}]]

Goto(r, to) == pc' = [pc EXCEPT ![r] = to]

\* History: for a request mid-scan, the keys that were off cooldown (warm), on
\* cooldown (cold), and off cooldown with room and unpenalised (free) in every
\* state since its scan began.
Watch ==
  watch' = [r \in Requests |->
    IF pc'[r] \notin ScanPcs \cup Refusals
    THEN [warm |-> {}, cold |-> {}, free |-> {}]
    ELSE LET warmNow == Warm(scan[r])'
             freeNow == {k \in warmNow : /\ HasRoom(k)'
                                         /\ windows'[k].current >= windows[k].current}
         IN  IF pc[r] = "idle"
             THEN [warm |-> warmNow, cold |-> Keys \ warmNow, free |-> freeNow]
             ELSE [warm |-> watch[r].warm \cap warmNow,
                   cold |-> watch[r].cold \ warmNow,
                   free |-> watch[r].free \cap freeNow]]

-----------------------------------------------------------------------------
(* next_key_with_permit_excluding, one lock at a time.                     *)

\* The counter is bumped and the clock read once, before the first key.
StartScan(r, exclude) ==
  /\ pc[r] = "idle"
  /\ index' = (index + 1) % NKeys
  /\ scan' = [scan EXCEPT ![r] = [NoScan EXCEPT !.exclude = exclude,
                                                !.start = index,
                                                !.at = now]]
  /\ Goto(r, "cooldown")
  /\ UNCHANGED <<now, lease, secs, poolVars>>
  /\ Watch

\* Mutant: the second pass goes on from the last position instead of starting over.
AdvanceNoRestart(r, s) ==
  IF s.pos < NKeys - 1 \/ s.pass = 0
  THEN /\ scan' = [scan EXCEPT ![r] =
                     IF s.pos < NKeys - 1
                     THEN [s EXCEPT !.pos = @ + 1, !.inFlight = 0]
                     ELSE [s EXCEPT !.pass = 1, !.inFlight = 0]]
       /\ Goto(r, "cooldown")
  ELSE /\ scan' = [scan EXCEPT ![r] = s]
       /\ Goto(r, IF s.busy \/ s.active THEN "all_busy" ELSE "all_cooling")

\* Move to the next candidate: the next position, then the second pass, which
\* drops the exclusion, then the refusal.
Advance(r, s) ==
  IF s.pos < NKeys - 1 \/ s.pass = 0
  THEN /\ scan' = [scan EXCEPT ![r] =
                     IF s.pos < NKeys - 1
                     THEN [s EXCEPT !.pos = @ + 1, !.inFlight = 0]
                     ELSE [s EXCEPT !.pass = 1, !.pos = 0, !.inFlight = 0]]
       /\ Goto(r, "cooldown")
  ELSE /\ scan' = [scan EXCEPT ![r] = s]
       /\ Goto(r, IF s.busy \/ s.active THEN "all_busy" ELSE "all_cooling")

\* Mutant: the exclusion is compared with the position, not with the key there.
SkipsPosition(s) == s.pass = 0 /\ s.exclude = s.pos

Skips(s) == s.pass = 0 /\ s.exclude = KeyAt(s)

\* Mutant: the last-resort pass drops the cooldown check with the exclusion.
CheckCooldownOnce(r) ==
  LET s == scan[r]
  IN  /\ pc[r] = "cooldown"
      /\ IF Skips(s) \/ (s.pass = 0 /\ Cooling(KeyAt(s), s.at))
         THEN Advance(r, s)
         ELSE /\ scan' = [scan EXCEPT ![r].active = TRUE]
              /\ Goto(r, "in_flight")
      /\ UNCHANGED <<now, index, lease, secs, poolVars>>
      /\ Watch

\* The cooldown slot is locked, compared with the captured clock and unlocked.
CheckCooldown(r) ==
  LET s == scan[r]
  IN  /\ pc[r] = "cooldown"
      /\ IF Skips(s) \/ Cooling(KeyAt(s), s.at)
         THEN Advance(r, s)
         ELSE /\ scan' = [scan EXCEPT ![r].active = TRUE]
              /\ Goto(r, "in_flight")
      /\ UNCHANGED <<now, index, lease, secs, poolVars>>
      /\ Watch

\* The semaphore is read without a lock.
ReadInFlight(r) ==
  /\ pc[r] = "in_flight"
  /\ scan' = [scan EXCEPT ![r].inFlight = InFlight(KeyAt(scan[r]))]
  /\ Goto(r, "window")
  /\ UNCHANGED <<now, index, lease, secs, poolVars>>
  /\ Watch

\* The window is locked, read and unlocked, and compared with that reading.
CheckWindow(r) ==
  LET s == scan[r]
  IN  /\ pc[r] = "window"
      /\ IF s.inFlight >= windows[KeyAt(s)].current
         THEN Advance(r, [s EXCEPT !.busy = TRUE])
         ELSE Goto(r, "permit") /\ UNCHANGED scan
      /\ UNCHANGED <<now, index, lease, secs, poolVars>>
      /\ Watch

\* try_acquire_owned checks the semaphore only.
TryPermit(r) ==
  LET s == scan[r]
  IN  /\ pc[r] = "permit"
      /\ IF HasPermit(KeyAt(s))
         THEN /\ lease' = [lease EXCEPT ![r] = KeyAt(s)]
              /\ scan' = [scan EXCEPT ![r] = NoScan]
              /\ Goto(r, "leased")
         ELSE /\ Advance(r, [s EXCEPT !.busy = TRUE])
              /\ UNCHANGED lease
      /\ UNCHANGED <<now, index, secs, poolVars>>
      /\ Watch

\* The caller sees KeyAcquireError; it may ask again.
Refused(r) ==
  /\ pc[r] \in Refusals
  /\ scan' = [scan EXCEPT ![r] = NoScan]
  /\ Goto(r, "idle")
  /\ UNCHANGED <<now, index, lease, secs, poolVars>>
  /\ Watch

\* next_key serves GET /v1/models: it takes no permit and only bumps the counter.
next_key ==
  /\ index' = (index + 1) % NKeys
  /\ UNCHANGED <<now, pc, lease, scan, secs, poolVars>>
  /\ Watch

-----------------------------------------------------------------------------
(* What a request reports about the key it holds.                          *)

record_success(r) ==
  LET k == lease[r]
  IN  /\ pc[r] = "leased"
      /\ windows' = [windows EXCEPT ![k] =
                       FixedView(RecordSuccess(Fixed, AIMD_BAR_MAX, @))]
      /\ Goto(r, "done")
      /\ UNCHANGED <<now, index, lease, scan, secs, cooldowns, auth_failures, stalls>>
      /\ Watch

\* mark_rate_limited first shrinks the window and unlocks it ...
record_rate_limited(r, asked) ==
  LET k == lease[r]
  IN  /\ pc[r] = "leased"
      /\ windows' = [windows EXCEPT ![k] = FixedView(RecordRateLimited(Fixed, @))]
      /\ secs' = [secs EXCEPT ![r] = IF RateLimitBenchCap = NoCap
                                     THEN asked
                                     ELSE AtMost(asked, RateLimitBenchCap)]
      /\ Goto(r, "bench")
      /\ UNCHANGED <<now, index, lease, scan, cooldowns, auth_failures, stalls>>
      /\ Watch

\* ... then overwrites the cooldown slot, whatever it held.
BenchRateLimited(r) ==
  /\ pc[r] = "bench"
  /\ cooldowns' = [cooldowns EXCEPT ![lease[r]] =
                     [until |-> now + secs[r], reason |-> RateLimit]]
  /\ secs' = [secs EXCEPT ![r] = 0]
  /\ Goto(r, "done")
  /\ UNCHANGED <<now, index, lease, scan, windows, auth_failures, stalls>>
  /\ Watch

\* mark_auth_failed counts the failure ...
CountAuthFailure(r) ==
  LET k == lease[r]
  IN  /\ pc[r] = "leased"
      /\ Noting
      /\ auth_failures' = [auth_failures EXCEPT ![k] = @ + 1]
      /\ Goto(r, IF AuthFailureCooldown = 0 THEN "done" ELSE "quarantine")
      /\ UNCHANGED <<now, index, lease, scan, secs, cooldowns, windows, stalls>>
      /\ Watch

\* ... then overwrites the cooldown slot, whatever it held.
BenchAuthFailed(r) ==
  /\ pc[r] = "quarantine"
  /\ cooldowns' = [cooldowns EXCEPT ![lease[r]] =
                     [until |-> now + AuthFailureCooldown, reason |-> AuthFailure]]
  /\ Goto(r, "done")
  /\ UNCHANGED <<now, index, lease, scan, secs, windows, auth_failures, stalls>>
  /\ Watch

note_upstream_stall(r) ==
  LET k == lease[r]
  IN  /\ pc[r] = "leased"
      /\ Noting
      /\ stalls' = [stalls EXCEPT ![k] = @ + 1]
      /\ Goto(r, "done")
      /\ UNCHANGED <<now, index, lease, scan, secs, cooldowns, windows, auth_failures>>
      /\ Watch

\* The lease is dropped after its outcome was reported, or with none to report
\* (a send error, a forwarded 4xx, a client that went away).
DropLease(r) ==
  /\ pc[r] \in {"leased", "done"}
  /\ lease' = [lease EXCEPT ![r] = NoKey]
  /\ Goto(r, "idle")
  /\ UNCHANGED <<now, index, scan, secs, poolVars>>
  /\ Watch

Tick ==
  /\ now < MaxTime
  /\ now' = now + 1
  /\ UNCHANGED <<index, pc, lease, scan, secs, poolVars>>
  /\ Watch

-----------------------------------------------------------------------------
Request(r) ==
  \/ \E exclude \in Keys \cup {NoKey} : StartScan(r, exclude)
  \/ CheckCooldown(r)
  \/ ReadInFlight(r)
  \/ CheckWindow(r)
  \/ TryPermit(r)
  \/ Refused(r)
  \/ record_success(r)
  \/ \E asked \in RetryAfters : record_rate_limited(r, asked)
  \/ BenchRateLimited(r)
  \/ CountAuthFailure(r)
  \/ BenchAuthFailed(r)
  \/ note_upstream_stall(r)
  \/ DropLease(r)

Next == (\E r \in Requests : Request(r)) \/ next_key \/ Tick

Spec == Init /\ [][Next]_vars
-----------------------------------------------------------------------------
ScanState == [ exclude : Keys \cup {NoKey}, start : Keys, at : 0 .. MaxTime,
               pass : {0, 1}, pos : Keys, inFlight : Nat,
               active : BOOLEAN, busy : BOOLEAN ]
Bench     == [ until : Nat, reason : {"none", RateLimit, AuthFailure} ]
Watched   == [ warm : SUBSET Keys, cold : SUBSET Keys, free : SUBSET Keys ]

PoolTypeOK ==
  /\ now \in 0 .. MaxTime
  /\ index \in Keys
  /\ cooldowns \in [Keys -> Bench]
  /\ windows \in [Keys -> KeyWindow]
  /\ auth_failures \in [Keys -> 0 .. MaxNotes]
  /\ stalls \in [Keys -> 0 .. MaxNotes]

RequestTypeOK ==
  /\ pc \in [Requests -> Pcs]
  /\ lease \in [Requests -> Keys \cup {NoKey}]
  /\ \A r \in Requests : (lease[r] \in Keys) <=> (pc[r] \in LeasedPcs)
  /\ scan \in [Requests -> ScanState]
  /\ secs \in [Requests -> Nat]
  /\ watch \in [Requests -> Watched]

\* A request holds a permit exactly while it is between its lease and its drop,
\* and every window stays between one slot and the ceiling.
TypeOK == PoolTypeOK /\ RequestTypeOK

\* A scan refuses with AllBusy only if no key was free all scan long, and with
\* AllCoolingDown, which the client sees as "all API keys rate-limited", only
\* if none was even off cooldown: steps of other requests between the locks can
\* cost a lease, but never invent a refusal.
NoFalseRefusal ==
  \A r \in Requests :
    /\ pc[r] = "all_busy" => watch[r].free = {}
    /\ pc[r] = "all_cooling" => watch[r].warm = {}

\* A key that was on cooldown from a scan's first step to its last is not the
\* one it leases, on neither pass and whatever other requests do meanwhile.
BenchedKeyNeverLeased ==
  [][\A r \in Requests :
       pc[r] = "permit" /\ pc'[r] = "leased" => lease'[r] \notin watch[r].cold]_vars

\* A retry gets the key it asked to avoid only when no other key was free all
\* scan long: the second pass is a last resort, not a second chance.
ExcludedKeyIsLastResort ==
  [][\A r \in Requests :
       pc[r] = "permit" /\ pc'[r] = "leased" /\ lease'[r] = scan[r].exclude
       => watch[r].free \subseteq {scan[r].exclude}]_vars
=============================================================================
