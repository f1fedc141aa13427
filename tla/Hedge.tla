-------------------------------- MODULE Hedge --------------------------------
(***************************************************************************)
(* The wait for a request's first byte: its attempts, the late hedge of    *)
(* each attempt, and the retry after a silent one                          *)
(* (nimaproxy/src/proxy/hedge.rs, and the attempt loop of                  *)
(* chat_completions in proxy/chat.rs around it).                           *)
(*                                                                         *)
(* An attempt is a first call (leg 1) and, once the delay has passed in    *)
(* silence and a second slot is free, a second call (leg 2).  Leg 1, the   *)
(* hedge timer with leg 2, and the handler are three tasks: they meet in   *)
(* the winner slot, in a oneshot channel and in leg 1's join handle.       *)
(* Only the wait is modelled: a first byte of any status ends it.          *)
(*                                                                         *)
(* The budget and the hedge delay are computed once, when the request      *)
(* starts, from the latencies the model is known for then, in three reads; *)
(* each attempt reads its rail anew.  Other requests succeed in between,   *)
(* and what they leave is any ring.                                        *)
(*                                                                         *)
(* Time is a clock in abstract units.  The proxy's own steps take no time: *)
(* the clock may not pass a deadline that has not been acted on.           *)
(***************************************************************************)
EXTENDS Timeouts

CONSTANTS
  Attempts,         \* max(n, 2): passes of the attempt loop
  Rings,            \* the rings of latencies a model may be known for
  AdmissionWait,    \* admission_wait_ms
  Slack             \* BUDGET_SLACK_MS

ASSUME HedgeAssumption ==
  /\ Attempts \in Nat \ {0}
  /\ Rings \subseteq Seq(Nat)
  /\ AdmissionWait \in Nat
  /\ Slack \in Nat

First   == 1
Second  == 2
Legs    == {First, Second}
Calls   == (1 .. Attempts) \X Legs
NoLeg   == 0

\* RetryPolicy::new_split: the fast budget.
Budget(window) == 2 * window + AdmissionWait + Slack

Waiting == {"headers", "chunk"}
Ended   == {"won", "lost", "expired", "failed"}

VARIABLES
  budget,        \* the retry budget, computed at the start
  hedge_delay,   \* the delay of silence, computed at the start
  hedge_enabled, \* more than one key, and 0 < hedge_delay < the rail of then
  rail,          \* per attempt: request_timeout_ms
  now,           \* the clock; the request starts at 0
  handler,    \* what the handler awaits
  attempt,    \* the attempt it is in
  since,      \* when the admission wait of this attempt began
  leg,        \* per call: its phase, and when it began to wait in it
  timer,      \* per attempt: the hedge timer task, and when its sleep ends
  slot,       \* per attempt: the leg that claimed the WinnerSlot, and when
  mail,       \* per attempt: leg 2's result is in the oneshot channel
  verdict     \* what the client got, and when

start     == <<budget, hedge_delay, hedge_enabled>>
hedgeVars == <<start, rail, now, handler, attempt, since, leg, timer, slot, mail, verdict>>

Unsent    == [phase |-> "none", began |-> 0]
Timer(to) == [task |-> to, due |-> 0]
Unwon     == [leg |-> NoLeg, at |-> 0]
NoAnswer  == [kind |-> "none", leg |-> NoLeg]

InFlight(c)  == leg[c].phase \in Waiting
HasEnded(c)  == leg[c].phase \in Ended
Answered     == handler = "answered"

HedgeInit ==
  /\ \E ring \in Rings : budget = Budget(FirstByteTimeout(ring))
  /\ \E before, after \in Rings :
       LET window == FirstByteTimeout(before)
       IN  /\ hedge_delay = HedgeDelay(after, window)
           /\ \E other_keys \in BOOLEAN :
                hedge_enabled = (other_keys /\ 0 < hedge_delay /\ hedge_delay < window)
  /\ rail = [a \in 1 .. Attempts |-> 0]
  /\ now = 0
  /\ handler = "admission"
  /\ attempt = 1
  /\ since = 0
  /\ leg = [c \in Calls |-> Unsent]
  /\ timer = [a \in 1 .. Attempts |-> Timer("off")]
  /\ slot = [a \in 1 .. Attempts |-> Unwon]
  /\ mail = [a \in 1 .. Attempts |-> FALSE]
  /\ verdict = NoAnswer

-----------------------------------------------------------------------------
(* Admission: the permits come at some moment of the wait, or never.       *)

Send(c) == leg' = [leg EXCEPT ![c] = [phase |-> "headers", began |-> now]]

Admit ==
  /\ handler = "admission"
  /\ Send(<<attempt, First>>)
  /\ timer' = [timer EXCEPT ![attempt] =
       IF hedge_enabled THEN [task |-> "asleep", due |-> now + hedge_delay] ELSE Timer("done")]
  /\ \E ring \in Rings : rail' = [rail EXCEPT ![attempt] = FirstByteTimeout(ring)]
  /\ handler' = "racing"
  /\ UNCHANGED <<start, now, attempt, since, slot, mail, verdict>>

Answer(kind, l) ==
  /\ handler' = "answered"
  /\ verdict' = [kind |-> kind, leg |-> l]

\* 503 or 429, once the admission wait is over.
Reject ==
  /\ handler = "admission"
  /\ now >= since + AdmissionWait
  /\ Answer("rejected", NoLeg)
  /\ UNCHANGED <<start, rail, now, attempt, since, leg, timer, slot, mail>>

-----------------------------------------------------------------------------
(* leg_first_byte: the upstream answers, or the rail fires.                *)

Moves(c, phase) == leg' = [leg EXCEPT ![c].phase = phase,
                                     ![c].began = IF phase \in Waiting THEN now ELSE 0]

Headers(c) ==
  /\ leg[c].phase = "headers"
  /\ Moves(c, "chunk")
  /\ UNCHANGED <<start, rail, now, handler, attempt, since, timer, slot, mail, verdict>>

\* The first chunk: WinnerSlot::claim is a compare-exchange.
FirstByte(c) ==
  LET a == c[1]
  IN  /\ leg[c].phase = "chunk"
      /\ IF slot[a].leg = NoLeg
         THEN slot' = [slot EXCEPT ![a] = [leg |-> c[2], at |-> now]] /\ Moves(c, "won")
         ELSE Moves(c, "lost") /\ UNCHANGED slot
      /\ UNCHANGED <<start, rail, now, handler, attempt, since, timer, mail, verdict>>

\* A body that ends without a byte counts as an expired rail.
EmptyBody(c) ==
  /\ leg[c].phase = "chunk"
  /\ Moves(c, "expired")
  /\ UNCHANGED <<start, rail, now, handler, attempt, since, timer, slot, mail, verdict>>

\* The rail is started afresh for the headers and for the first chunk.
RailDue(c) == InFlight(c) /\ now >= leg[c].began + rail[c[1]]

\* Mutant: only the first call has a rail.
RailExpiresFirst(c) ==
  /\ RailDue(c) /\ c[2] = First
  /\ Moves(c, "expired")
  /\ UNCHANGED <<start, rail, now, handler, attempt, since, timer, slot, mail, verdict>>

RailExpires(c) ==
  /\ RailDue(c)
  /\ Moves(c, "expired")
  /\ UNCHANGED <<start, rail, now, handler, attempt, since, timer, slot, mail, verdict>>

SendFails(c) ==
  /\ InFlight(c)
  /\ Moves(c, "failed")
  /\ UNCHANGED <<start, rail, now, handler, attempt, since, timer, slot, mail, verdict>>

-----------------------------------------------------------------------------
(* The detached timer task of an attempt.                                  *)

TimerDue(a) == timer[a].task = "asleep" /\ now >= timer[a].due

\* Mutant: the timer does not look at the winner slot.
TimerFiresAnyway(a) ==
  /\ TimerDue(a)
  /\ timer' = [timer EXCEPT ![a] = Timer("awake")]
  /\ UNCHANGED <<start, rail, now, handler, attempt, since, leg, slot, mail, verdict>>

TimerFires(a) ==
  /\ TimerDue(a)
  /\ timer' = [timer EXCEPT ![a] = Timer(IF slot[a].leg # NoLeg THEN "done" ELSE "awake")]
  /\ UNCHANGED <<start, rail, now, handler, attempt, since, leg, slot, mail, verdict>>

\* hedge_slot_available and one try for a key other than leg 1's.
TakeSlot(a) ==
  /\ timer[a].task = "awake"
  /\ timer' = [timer EXCEPT ![a] = Timer("done")]
  /\ \E free \in BOOLEAN : IF free THEN Send(<<a, Second>>) ELSE UNCHANGED leg
  /\ UNCHANGED <<start, rail, now, handler, attempt, since, slot, mail, verdict>>

\* Leg 2's permits are guards of the timer task: they go when it ends, and it
\* ends by sending its result into the channel.
Deliver(a) ==
  /\ HasEnded(<<a, Second>>)
  /\ ~mail[a]
  /\ mail' = [mail EXCEPT ![a] = TRUE]
  /\ UNCHANGED <<start, rail, now, handler, attempt, since, leg, timer, slot, verdict>>

-----------------------------------------------------------------------------
(* The handler: it awaits leg 1 and then looks into the channel once.      *)

\* The leg whose bytes are forwarded: leg 2's when its win was delivered,
\* otherwise whatever leg 1 holds, be it the winner or not.
Forwarded(a) ==
  CASE mail[a] /\ leg[<<a, Second>>].phase = "won"  -> Second
    [] leg[<<a, First>>].phase \in {"won", "lost"}  -> First
    [] OTHER                                        -> NoLeg

\* Mutant: a retry whatever the clock says.
MayRetryAnyTime == attempt < Attempts

MayRetry == attempt < Attempts /\ now + rail[attempt] <= budget

Retry ==
  /\ attempt' = attempt + 1
  /\ since' = now
  /\ handler' = "admission"
  /\ UNCHANGED verdict

\* Without a hedge a send error is a 502; in a race it is treated as a stall.
NoBytes(a) ==
  IF ~hedge_enabled /\ leg[<<a, First>>].phase = "failed"
  THEN Answer("bad_gateway", NoLeg) /\ UNCHANGED <<attempt, since>>
  ELSE IF MayRetry
       THEN Retry
       ELSE Answer("gateway_timeout", NoLeg) /\ UNCHANGED <<attempt, since>>

Resolvable == handler = "racing" /\ HasEnded(<<attempt, First>>)

Resolve ==
  /\ Resolvable
  /\ IF Forwarded(attempt) # NoLeg
     THEN Answer("body", Forwarded(attempt)) /\ UNCHANGED <<attempt, since>>
     ELSE NoBytes(attempt)
  /\ UNCHANGED <<start, rail, now, leg, timer, slot, mail>>

-----------------------------------------------------------------------------
\* A step of the proxy that is due now.
Due ==
  \/ Resolvable
  \/ handler = "admission" /\ now >= since + AdmissionWait
  \/ \E c \in Calls : RailDue(c)
  \/ \E a \in 1 .. Attempts : \/ TimerDue(a)
                              \/ timer[a].task = "awake"
                              \/ HasEnded(<<a, Second>>) /\ ~mail[a]

AllQuiet ==
  /\ Answered
  /\ \A c \in Calls : ~InFlight(c)
  /\ \A a \in 1 .. Attempts : timer[a].task \in {"off", "done"}

Tick ==
  /\ ~Due
  /\ ~AllQuiet
  /\ now' = now + 1
  /\ UNCHANGED <<start, rail, handler, attempt, since, leg, timer, slot, mail, verdict>>

\* The request is over and so is everything it started.
Finished == AllQuiet /\ ~Due /\ UNCHANGED hedgeVars

ProxyStep ==
  \/ Admit
  \/ Reject
  \/ \E c \in Calls : RailExpires(c)
  \/ \E a \in 1 .. Attempts : TimerFires(a) \/ TakeSlot(a) \/ Deliver(a)
  \/ Resolve
  \/ Tick

UpstreamStep ==
  \E c \in Calls : Headers(c) \/ FirstByte(c) \/ EmptyBody(c) \/ SendFails(c)

HedgeNext == ProxyStep \/ UpstreamStep \/ Finished

HedgeSpec == HedgeInit /\ [][HedgeNext]_hedgeVars

\* The runtime runs every ready task and time passes; nothing is assumed of
\* the upstream, which may stay silent for ever.
HedgeFairSpec == HedgeSpec /\ WF_hedgeVars(ProxyStep)

-----------------------------------------------------------------------------
\* The hedge starts only into silence: no second call is sent once a first byte
\* has won its attempt, the moment of the win itself excepted.
HedgeStartsInSilence ==
  [][\A a \in 1 .. Attempts :
       leg[<<a, Second>>] = Unsent /\ leg'[<<a, Second>>] # Unsent
       => slot[a].leg = NoLeg \/ slot[a].at = now]_hedgeVars

ShortestRail == IF FixedRail = Unset THEN MinTimeout ELSE FixedRail
LongestRail  == IF FixedRail = Unset THEN MaxTimeout ELSE FixedRail

\* The client's wait is bounded, although the rail an attempt is given may have
\* grown since the budget was computed: the last retry starts with the rail of
\* its predecessor to go, may wait for admission once more, and may take the
\* longest rail for its headers and again for its first chunk.
AnsweredInTime ==
  ~Answered => now <= budget - ShortestRail + AdmissionWait + 2 * LongestRail

\* The client is answered, and every call the request started ends and gives
\* its permits back, even those it no longer waits for (L1).
EveryCallEnds == <>[](Answered /\ \A c \in Calls : ~InFlight(c))
=============================================================================
