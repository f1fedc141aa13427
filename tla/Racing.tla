------------------------------- MODULE Racing -------------------------------
(***************************************************************************)
(* A raced request: one leg per model, each with a key and an upstream     *)
(* permit of its own, the first usable answer wins                         *)
(* (nimaproxy/src/proxy/racing.rs), and the sequential solo fallback it    *)
(* ends in when racing is not possible or every leg failed (fallback.rs).  *)
(*                                                                         *)
(* The legs are spawned tasks that run beside the handler: a leg is spawned*)
(* and joined by the handler, and between the two it moves on its own.     *)
(* Timers are prompt: the clock does not pass an expiry nobody has handled *)
(* and does not run while a task has something to do other than wait for   *)
(* the upstream or a permit.  Which models a race or a fallback is offered *)
(* is the business of ModelStats; here it may be any of them, in any       *)
(* order.  Other requests appear as the slots they hold.                   *)
(***************************************************************************)
EXTENDS Integers, FiniteSets, FiniteSetsExt

CONSTANTS
  Models,            \* the models that may be raced
  Keys,              \* keys of the pool
  NoKey,             \* stands for the key of a leg without one
  KeySlots,          \* what the AIMD window of a key allows at once
  MaxUpstream,       \* max_upstream_in_flight
  Adaptive,          \* racing_adaptive
  MaxParallel,       \* racing_max_parallel
  MinParallel,       \* racing_min_parallel
  PressureParallel,  \* racing_pressure_parallel
  DegradedParallel,  \* racing_degraded_parallel
  PromptParallel,    \* racing_large_prompt_parallel
  MaxRetries,        \* MAX_RETRIES
  LegTimeout,        \* timeout_for_model
  TotalTimeout,      \* racing_max_total_request_ms
  AdmissionWait      \* admission_wait_ms

ASSUME RacingAssumption ==
  /\ IsFiniteSet(Models) /\ IsFiniteSet(Keys) /\ Keys # {} /\ NoKey \notin Keys
  /\ {KeySlots, MaxUpstream, MaxParallel, MinParallel, PressureParallel,
      DegradedParallel, PromptParallel, MaxRetries, LegTimeout, TotalTimeout} \subseteq Nat \ {0}
  /\ AdmissionWait \in Nat /\ Adaptive \in BOOLEAN

VARIABLES
  now,       \* the clock
  benched,   \* keys on cooldown
  key_used,  \* per key: slots taken
  up_used,   \* upstream permits taken
  others,    \* keys of which another request holds a slot, with a permit
  pc,        \* what the handler does next
  left,      \* models not yet spawned, or not yet tried by the fallback
  raced,     \* the models the race was started with
  seen,      \* what the handler remembers: a set of facts
  pending,   \* keys whose 429 was joined and whose bench waits for the end
  solo,      \* the fallback's attempt: model, key, tries left, expiry, status
  leg,       \* per model: its racing leg
  answer     \* what the client was answered, or "none"

poolVars == <<benched, key_used, up_used, others>>
handlerVars == <<pc, left, raced, seen, pending, solo, answer>>
vars == <<now, benched, key_used, up_used, others, pc, left, raced, seen,
          pending, solo, leg, answer>>

Facts == {"no_key", "failure", "transient"}

\* The classes of a response's status.  An odd one is below 400 and no 2xx.
Statuses == {"ok", "odd", "limited", "auth", "client", "hard", "server"}

Pcs == {"start", "spawn", "join", "solo_next", "admit", "nap", "solo_send", "solo_body", "done"}

LegStates == {"none", "send", "error_body", "body", "ended", "joined", "aborted"}

\* How a leg ends: with an answer that wins, a 429, or an error, which the
\* handler only sorts into transient ones and others.
Results == {"none", "win", "limited", "transient", "fatal"}

NoLeg  == [state |-> "none", key |-> NoKey, expiry |-> 0, cut |-> FALSE,
           status |-> "ok", result |-> "none"]
JoinedLeg == [NoLeg EXCEPT !.state = "joined"]
NoSolo == [key |-> NoKey, tries |-> 0, expiry |-> 0, status |-> "ok"]

Deadline == TotalTimeout     \* requests start at time 0

\* Mutant: nothing left of the deadline is a timeout of zero, not the end.
LateNever == FALSE

Late == now >= Deadline

LowerOf(a, b)  == IF a < b THEN a ELSE b
HigherOf(a, b) == IF a > b THEN a ELSE b

\* timeout_before_deadline: the expiry of a wait begun now, and whether the
\* deadline cut it short.
Expiry == LowerOf(now + LegTimeout, Deadline)
Cut    == Deadline < now + LegTimeout

Init ==
  /\ now = 0 /\ benched \in SUBSET Keys
  /\ others \in SUBSET Keys /\ Cardinality(others) <= MaxUpstream
  /\ key_used = [k \in Keys |-> IF k \in others THEN 1 ELSE 0]
  /\ up_used = Cardinality(others)
  /\ pc = "start" /\ left = {} /\ raced = {} /\ seen = {} /\ pending = {}
  /\ solo = NoSolo /\ leg = [m \in Models |-> NoLeg] /\ answer = "none"

-----------------------------------------------------------------------------
(* The pool *)

FreeSlots(k) == IF key_used[k] < KeySlots THEN KeySlots - key_used[k] ELSE 0

AvailablePermits == MapThenSumSet(FreeSlots, Keys \ benched)
WindowCapacity   == HigherOf(KeySlots * Cardinality(Keys \ benched), 1)

Take(k) ==
  /\ key_used' = [key_used EXCEPT ![k] = @ + 1]
  /\ up_used' = up_used + 1

Release(k) ==
  /\ key_used' = [key_used EXCEPT ![k] = @ - 1]
  /\ up_used' = up_used - 1

Leasable(k) == k \notin benched /\ FreeSlots(k) > 0

\* How many legs to race, of n candidates: fewer when the keys are under
\* pressure, never more than there are free slots.
AdaptiveParallel(n) ==
  LET configured == LowerOf(MaxParallel, n)
      slots      == AvailablePermits
      inFlight   == HigherOf(WindowCapacity - slots, 0)
      pressure   == HigherOf(WindowCapacity \div 3, 1)
      degraded   == HigherOf((WindowCapacity * 2) \div 3, 1)
      desired    == IF benched # {} \/ inFlight >= degraded THEN DegradedParallel
                    ELSE IF inFlight >= pressure THEN PressureParallel
                    ELSE configured
      least      == LowerOf(LowerOf(MinParallel, n), slots)
  IN  IF configured < 2 THEN configured
      ELSE IF slots < 2 \/ ~Adaptive THEN LowerOf(configured, slots)
      ELSE HigherOf(LowerOf(LowerOf(desired, configured), slots), least)

-----------------------------------------------------------------------------
(* The handler: the race *)

Answer(a) == pc' = "done" /\ answer' = a

InFlight == {"send", "error_body", "body"}

\* Mutant: the losers are forgotten with what they hold.
AbortLegsLeaks ==
  leg' = [m \in Models |-> IF leg[m].state = "none" THEN leg[m] ELSE JoinedLeg]

\* Dropping the join set aborts the legs still running, and forgets the others.
AbortLegs ==
  leg' = [m \in Models |->
    CASE leg[m].state \in InFlight -> [NoLeg EXCEPT !.state = "aborted", !.key = leg[m].key]
      [] leg[m].state = "ended"    -> JoinedLeg
      [] OTHER                     -> leg[m]]

\* The fallback is given the models ms, in some order.
BeginSolo(ms) == pc' = "solo_next" /\ left' = ms /\ UNCHANGED answer

\* With fewer than two legs to race, the fallback takes what models it is
\* offered (none when it is switched off), else the request is refused.
Start ==
  /\ pc = "start"
  /\ \E large \in BOOLEAN, race, offered \in SUBSET Models :
       LET adaptive == AdaptiveParallel(Cardinality(Models))
           parallel == IF large THEN LowerOf(adaptive, PromptParallel) ELSE adaptive
           racing   == parallel >= 2 /\ Cardinality(race) \in 2 .. parallel
       IN  \/ /\ racing
              /\ pc' = "spawn" /\ left' = race /\ raced' = race
              /\ UNCHANGED answer
           \/ /\ parallel < 2 \/ Cardinality(race) < 2
              /\ offered # {} /\ BeginSolo(offered) /\ UNCHANGED raced
           \/ /\ parallel < 2 /\ offered = {}
              /\ Answer(IF benched = Keys THEN "no_key" ELSE "overloaded")
              /\ UNCHANGED <<left, raced>>
           \/ /\ parallel >= 2 /\ Cardinality(race) < 2 /\ offered = {}
              /\ Answer("bad_gateway") /\ UNCHANGED <<left, raced>>
  /\ UNCHANGED <<now, benched, key_used, up_used, others, seen, pending, solo, leg>>

\* One round of the spawn loop.  The upstream permit is taken before the key,
\* and dropped again when there is none.
Spawn(m) ==
  /\ pc = "spawn" /\ m \in left
  /\ IF Late
     THEN Answer("deadline") /\ AbortLegs /\ UNCHANGED <<key_used, up_used, left, seen>>
     ELSE /\ left' = left \ {m}
          /\ \/ /\ up_used >= MaxUpstream
                /\ UNCHANGED <<key_used, up_used, seen, leg>>
             \/ /\ up_used < MaxUpstream
                /\ \E k \in Keys :
                     /\ Leasable(k) /\ Take(k)
                     /\ leg' = [leg EXCEPT ![m] =
                          [NoLeg EXCEPT !.state = "send", !.key = k, !.expiry = Expiry, !.cut = Cut]]
                /\ UNCHANGED seen
             \/ /\ up_used < MaxUpstream /\ \A k \in Keys : ~Leasable(k)
                /\ seen' = IF benched = Keys THEN seen \cup {"no_key"} ELSE seen
                /\ UNCHANGED <<key_used, up_used, leg>>
          /\ UNCHANGED <<pc, answer>>
  /\ UNCHANGED <<now, benched, others, raced, pending, solo>>

NoLegs == \A m \in Models : leg[m].state = "none"

\* Mutant: the handler waits for results although no leg was spawned.
SpawnedNeverEmpty ==
  /\ pc = "spawn" /\ left = {} /\ ~NoLegs
  /\ pc' = "join"
  /\ UNCHANGED <<now, benched, key_used, up_used, others, left, raced, seen, pending, solo,
                 leg, answer>>

Spawned ==
  /\ pc = "spawn" /\ left = {}
  /\ IF NoLegs
     THEN \/ \E offered \in SUBSET Models \ {{}} : BeginSolo(offered)
          \/ /\ Answer(IF "no_key" \in seen THEN "no_key" ELSE "overloaded")
             /\ UNCHANGED left
     ELSE pc' = "join" /\ UNCHANGED <<left, answer>>
  /\ UNCHANGED <<now, benched, key_used, up_used, others, raced, seen, pending, solo, leg>>

\* The handler takes the result of a leg that ended.  A 429 is only noted:
\* its bench waits until every leg is in, and is forgotten if another wins.
Join(m) ==
  /\ pc = "join" /\ leg[m].state = "ended"
  /\ \/ /\ leg[m].result = "win"
        /\ Answer(leg[m].status) /\ AbortLegs /\ UNCHANGED <<seen, pending>>
     \/ /\ leg[m].result = "limited"
        /\ pending' = pending \cup {leg[m].key}
        /\ leg' = [leg EXCEPT ![m] = JoinedLeg] /\ UNCHANGED <<pc, answer, seen>>
     \/ /\ leg[m].result \in {"transient", "fatal"}
        /\ seen' = seen \cup {"failure"}
                        \cup (IF leg[m].result = "transient" THEN {"transient"} ELSE {})
        /\ leg' = [leg EXCEPT ![m] = JoinedLeg]
        /\ UNCHANGED <<pc, answer, pending>>
  /\ UNCHANGED <<now, benched, key_used, up_used, others, left, raced, solo>>

AllJoined == \A m \in Models : leg[m].state \in {"none", "joined"}

\* Every leg is in and none won: the benches are applied, then the fallback
\* runs if a failure was transient, with the models not raced if there are.
RaceLost ==
  /\ pc = "join" /\ AllJoined
  /\ benched' = benched \cup pending /\ pending' = {}
  /\ \E offered \in SUBSET Models :
       LET fresh  == offered \ raced
           models == IF fresh # {} THEN fresh ELSE offered
       IN  IF "transient" \in seen /\ models # {}
           THEN BeginSolo(models)
           ELSE /\ Answer(IF "failure" \in seen THEN "bad_gateway" ELSE "limited")
                /\ UNCHANGED left
  /\ UNCHANGED <<now, key_used, up_used, others, raced, seen, solo, leg>>

-----------------------------------------------------------------------------
(* The tasks of the legs *)

Running(m, state) == leg[m].state = state

\* The task ends: its key and its permit are dropped with it.
End(m, result) ==
  /\ leg' = [leg EXCEPT ![m] = [NoLeg EXCEPT
       !.state = "ended", !.key = leg[m].key, !.status = leg[m].status, !.result = result]]
  /\ Release(leg[m].key)

\* A timeout is the model's and lets the fallback try, unless it was the
\* deadline that cut the wait short.
TimeoutResult(m) == IF leg[m].cut THEN "fatal" ELSE "transient"

legFrame == <<now, others, pc, left, raced, seen, pending, solo, answer>>

\* The send fails, or nothing comes until the expiry.
LegSendFails(m) ==
  /\ Running(m, "send")
  /\ \/ End(m, "transient")
     \/ now >= leg[m].expiry /\ End(m, TimeoutResult(m))
  /\ UNCHANGED <<legFrame, benched>>

\* The head arrives.  An error status but 429 has its body read for the log;
\* the body of any other is the answer, read until the deadline at most.
LegHead(m, status) ==
  /\ Running(m, "send")
  /\ IF status \in {"auth", "client", "hard", "server"}
     THEN /\ leg' = [leg EXCEPT ![m].state = "error_body", ![m].status = status,
                                ![m].expiry = Expiry, ![m].cut = Cut]
          /\ UNCHANGED <<key_used, up_used>>
     ELSE IF Late THEN End(m, "fatal")
     ELSE /\ leg' = [leg EXCEPT ![m].state = "body", ![m].status = status,
                                ![m].expiry = Expiry, ![m].cut = Cut]
          /\ UNCHANGED <<key_used, up_used>>
  /\ UNCHANGED <<legFrame, benched>>

\* The error body was read, broke, or did not come in time: the same for the
\* leg.  An auth failure benches the key at once.  What else the error is taken
\* for is read off its text, the upstream's own words included; and a text cut
\* inside a character makes the task panic, which counts as transient.
LegErrorRead(m) ==
  /\ Running(m, "error_body")
  /\ \E result \in {"transient", "fatal"} :
       /\ leg[m].status = "auth" => result = "transient"
       /\ End(m, result)
  /\ benched' = IF leg[m].status = "auth" THEN benched \cup {leg[m].key} ELSE benched
  /\ UNCHANGED legFrame

\* The body is complete.  A 2xx may still carry an error of the upstream,
\* which is transient when its code is a 5xx one.
LegBodyRead(m) ==
  /\ Running(m, "body")
  /\ \/ End(m, IF leg[m].status = "limited" THEN "limited" ELSE "win")
     \/ leg[m].status = "ok" /\ \E r \in {"transient", "fatal"} : End(m, r)
  /\ UNCHANGED <<legFrame, benched>>

LegBodyFails(m) ==
  /\ Running(m, "body")
  /\ \/ End(m, "transient")
     \/ now >= leg[m].expiry /\ End(m, TimeoutResult(m))
  /\ UNCHANGED <<legFrame, benched>>

\* The runtime drops an aborted task, and with it what the task holds.
Reap(m) ==
  /\ Running(m, "aborted")
  /\ leg' = [leg EXCEPT ![m] = JoinedLeg]
  /\ Release(leg[m].key)
  /\ UNCHANGED <<legFrame, benched>>

-----------------------------------------------------------------------------
(* The handler: the solo fallback *)

soloFrame == <<now, others, raced, seen, pending, leg>>

Drop == Release(solo.key)

\* The next model is tried; a body that cannot be made for it is refused.
SoloNext ==
  /\ pc = "solo_next"
  /\ \/ /\ left = {}
        /\ Answer("last_error") /\ UNCHANGED <<left, solo>>
     \/ /\ left # {} /\ Late
        /\ Answer("deadline") /\ UNCHANGED <<left, solo>>
     \/ /\ left # {} /\ ~Late
        /\ Answer("rejected") /\ UNCHANGED <<left, solo>>
     \/ \E m \in left :
        /\ ~Late
        /\ left' = left \ {m} /\ pc' = "admit" /\ UNCHANGED answer
        /\ solo' = [NoSolo EXCEPT !.tries = LowerOf(Cardinality(Keys), MaxRetries),
                                  !.expiry = now + AdmissionWait]
  /\ UNCHANGED <<soloFrame, benched, key_used, up_used>>

\* The wait for a key and a permit looks at no deadline; it is only checked
\* once they are held.
Admit ==
  /\ pc = "admit"
  /\ \E k \in Keys :
       /\ Leasable(k) /\ up_used < MaxUpstream
       /\ IF Late
          THEN Answer("deadline") /\ UNCHANGED <<key_used, up_used, solo>>
          ELSE /\ pc' = "solo_send" /\ UNCHANGED answer
               /\ solo' = [solo EXCEPT !.key = k, !.expiry = Expiry]
               /\ Take(k)
  /\ UNCHANGED <<soloFrame, benched, left>>

Admissible == up_used < MaxUpstream /\ \E k \in Keys : Leasable(k)

\* Refused when the wait is over, else polled again after a nap.
AdmitLater ==
  /\ pc = "admit" /\ ~Admissible
  /\ IF now >= solo.expiry
     THEN Answer(IF benched = Keys THEN "no_key" ELSE "overloaded")
     ELSE pc' = "nap" /\ UNCHANGED answer
  /\ UNCHANGED <<soloFrame, benched, key_used, up_used, left, solo>>

\* Another try with the same model, or the next model when there is none.
Retry ==
  /\ UNCHANGED answer
  /\ IF solo.tries > 1
     THEN /\ pc' = "admit"
          /\ solo' = [NoSolo EXCEPT !.tries = solo.tries - 1, !.expiry = now + AdmissionWait]
     ELSE pc' = "solo_next" /\ solo' = NoSolo

NextModel == pc' = "solo_next" /\ solo' = NoSolo /\ UNCHANGED answer

\* A send or a body that fails or times out ends the tries of the model.
SoloFails ==
  /\ pc \in {"solo_send", "solo_body"}
  /\ NextModel /\ Drop
  /\ UNCHANGED <<soloFrame, benched, left>>

SoloLimited ==
  /\ pc = "solo_send"
  /\ benched' = benched \cup {solo.key}
  /\ Retry /\ Drop
  /\ UNCHANGED <<soloFrame, left>>

SoloHead(status) ==
  /\ pc = "solo_send" /\ status # "limited"
  /\ IF Late
     THEN Answer("deadline") /\ Drop /\ UNCHANGED solo
     ELSE /\ pc' = "solo_body" /\ UNCHANGED <<answer, key_used, up_used>>
          /\ solo' = [solo EXCEPT !.status = status, !.expiry = Expiry]
  /\ UNCHANGED <<soloFrame, benched, left>>

\* The body of the fallback's attempt is complete.
SoloBodyRead ==
  /\ pc = "solo_body" /\ Drop
  /\ CASE solo.status = "auth" ->
            benched' = benched \cup {solo.key} /\ Retry
       [] solo.status \in {"server", "hard"} ->
            NextModel /\ UNCHANGED benched
       [] solo.status = "ok" ->
            \* complete, or with an upstream error inside
            /\ \/ Answer("ok") /\ UNCHANGED solo
               \/ NextModel
            /\ UNCHANGED benched
       [] OTHER ->
            Answer(solo.status) /\ UNCHANGED <<solo, benched>>
  /\ UNCHANGED <<soloFrame, left>>

-----------------------------------------------------------------------------
(* The client, time and the other requests *)

\* The client hangs up while its handler awaits: the handler is dropped, and
\* what it owns with it.
ClientGone ==
  /\ pc \in {"join", "nap", "solo_send", "solo_body"}
  /\ Answer("gone") /\ AbortLegs
  /\ IF pc \in {"solo_send", "solo_body"} THEN Drop ELSE UNCHANGED <<key_used, up_used>>
  /\ UNCHANGED <<now, benched, others, left, raced, seen, pending, solo>>

OthersTake(k) ==
  /\ Leasable(k) /\ k \notin others /\ up_used < MaxUpstream
  /\ others' = others \cup {k} /\ Take(k)
  /\ UNCHANGED <<now, benched, handlerVars, leg>>

OthersRelease(k) ==
  /\ k \in others
  /\ others' = others \ {k} /\ Release(k)
  /\ UNCHANGED <<now, benched, handlerVars, leg>>

CooldownEnds(k) ==
  /\ k \in benched
  /\ benched' = benched \ {k}
  /\ UNCHANGED <<now, key_used, up_used, others, handlerVars, leg>>

\* What the handler or a leg is waiting in, until when.  An aborted leg only
\* waits for the runtime.
LegWaits(m) == leg[m].state \in InFlight => now < leg[m].expiry
HandlerWaits ==
  \/ pc = "join" /\ (\A m \in Models : leg[m].state # "ended") /\ ~AllJoined
  \/ pc = "nap"
  \/ pc \in {"solo_send", "solo_body"} /\ now < solo.expiry

\* A request that is answered is not followed further.
Tick ==
  /\ HandlerWaits /\ \A m \in Models : LegWaits(m)
  /\ now' = now + 1
  /\ pc' = IF pc = "nap" THEN "admit" ELSE pc
  /\ UNCHANGED <<benched, key_used, up_used, others, left, raced, seen, pending,
                 solo, answer, leg>>

HandlerStep ==
  \/ Start \/ Spawned \/ RaceLost
  \/ \E m \in Models : Spawn(m) \/ Join(m)
  \/ SoloNext \/ Admit \/ AdmitLater \/ SoloFails \/ SoloLimited
  \/ \E s \in Statuses : SoloHead(s)
  \/ SoloBodyRead

LegStep(m) ==
  \/ LegSendFails(m) \/ \E s \in Statuses : LegHead(m, s)
  \/ LegErrorRead(m) \/ LegBodyRead(m) \/ LegBodyFails(m) \/ Reap(m)

OtherStep == \E k \in Keys : OthersTake(k) \/ OthersRelease(k) \/ CooldownEnds(k)

Next == HandlerStep \/ ClientGone \/ Tick \/ OtherStep \/ \E m \in Models : LegStep(m)

\* What does not wait for the upstream is polled by the runtime; time passes.
\* That the upstream ever answers is not assumed.
Fairness ==
  /\ WF_vars(~HandlerWaits /\ HandlerStep) /\ WF_vars(Tick)
  /\ \A m \in Models : WF_vars(~LegWaits(m) /\ LegStep(m)) /\ WF_vars(Reap(m))

Spec == Init /\ [][Next]_vars /\ Fairness

-----------------------------------------------------------------------------
(* Properties *)

TypeOK ==
  /\ now \in Nat
  /\ benched \subseteq Keys /\ others \subseteq Keys /\ pending \subseteq Keys
  /\ key_used \in [Keys -> 0 .. KeySlots] /\ up_used \in 0 .. MaxUpstream
  /\ pc \in Pcs /\ left \subseteq Models /\ raced \subseteq Models /\ seen \subseteq Facts
  /\ solo \in [key : Keys \cup {NoKey}, tries : 0 .. MaxRetries, expiry : Nat, status : Statuses]
  /\ leg \in [Models -> [state : LegStates, key : Keys \cup {NoKey}, expiry : Nat,
                         cut : BOOLEAN, status : Statuses, result : Results]]

\* The legs that hold a key and a permit, and the key of the fallback's attempt.
Held        == {m \in Models : leg[m].state \in InFlight \cup {"aborted"}}
HeldWith(k) == {m \in Held : leg[m].key = k}
SoloKey     == IF pc \in {"solo_send", "solo_body"} THEN solo.key ELSE NoKey

One(b) == IF b THEN 1 ELSE 0

\* Through wins, aborts of the losers, deadlines in the middle of the spawn
\* loop and every error path of the fallback, each slot taken is held by
\* exactly one running call: none leaks and none is given back twice.
SlotsAccounted ==
  /\ \A k \in Keys :
       key_used[k] = Cardinality(HeldWith(k)) + One(SoloKey = k) + One(k \in others)
  /\ up_used = Cardinality(Held) + One(SoloKey # NoKey) + Cardinality(others)

\* The deadline and the admission wait together bound the answer, whatever the
\* legs, the fallback's models and their tries do in between.  (The deadline
\* alone does not: nimaproxy/README.md:301 says it caps the full racing plus
\* sequential fallback path, but acquire_gateway_permits does not know it.)
AnsweredByDeadlineAndWait ==
  pc # "done" => now <= Deadline + AdmissionWait

\* The client of a race is answered, and then every slot its legs took comes
\* back, although nobody waits for the aborted ones.
AnsweredAndReleased ==
  <>(pc = "done" /\ \A m \in Models : leg[m].state \in {"none", "joined"})
=============================================================================
