----------------------------- MODULE ChatRequest -----------------------------
(***************************************************************************)
(* One request through chat_completions (nimaproxy/src/proxy/chat.rs):     *)
(* its attempts, what it does with each upstream answer, what it reports   *)
(* to the key pool, and what the client gets.                              *)
(*                                                                         *)
(* Each await of the handler is one step here, which picks how long it     *)
(* took; module Hedge looks inside the wait for the first byte.  Other     *)
(* requests show at admission, where any set of keys may be taken.         *)
(* Turn records and model statistics are left out.                         *)
(***************************************************************************)
EXTENDS RequestState, FiniteSets

CONSTANTS
  NKeys,              \* pool.len(), at most MAX_RETRIES
  FirstByteWindow,    \* first_byte_timeout_for_model
  IdleWindow,         \* idle_timeout_for_model
  AdmissionWait,      \* admission_wait_ms
  Slack,              \* BUDGET_SLACK_MS
  RetryAfters,        \* seconds a 429 may ask for
  AuthCooldown,       \* auth_failure_cooldown_secs; 0 disables quarantine
  MaxBody             \* bound: the time a healthy body takes

ASSUME ChatRequestAssumption ==
  /\ NKeys \in Nat \ {0}
  /\ FirstByteWindow \in Nat \ {0}
  /\ {IdleWindow, AdmissionWait, Slack, AuthCooldown, MaxBody} \subseteq Nat
  /\ RetryAfters \subseteq Nat

Keys     == 1 .. NKeys
NoKey    == 0
Attempts == IF NKeys > 2 THEN NKeys ELSE 2

\* RetryPolicy::new_split.
FastBudget      == 2 * FirstByteWindow + AdmissionWait + Slack
BodyStallBudget == FastBudget + IdleWindow

VARIABLES
  hedged,             \* hedge_enabled
  now,                \* time since the request started
  pc,                 \* what the handler awaits
  attempt,            \* index of the attempt
  request_state,      \* the RequestState of the attempt
  key,                \* the key leased for the attempt
  failed_key,         \* the key to avoid at admission
  auth,               \* last_auth_failure_response is set
  cooling,            \* per key: until when this request's reports bench it
  verdict,            \* what the client got
  bodies,             \* response bodies handed to the client
  rails,              \* history: retried stalls that had used a whole window
  blamed              \* history: keys benched for another key's answer

vars == <<hedged, now, pc, attempt, request_state, key, failed_key, auth, cooling,
          verdict, bodies, rails, blamed>>

Init ==
  /\ hedged \in {h \in BOOLEAN : h => NKeys > 1}
  /\ now = 0
  /\ pc = "admission"
  /\ attempt = 0
  /\ request_state = "Queued"
  /\ key = NoKey
  /\ failed_key = NoKey
  /\ auth = FALSE
  /\ cooling = [k \in Keys |-> 0]
  /\ verdict = "none"
  /\ bodies = 0
  /\ rails = 0
  /\ blamed = {}

-----------------------------------------------------------------------------
(* How a step ends: with an answer, with the next attempt, or with more of *)
(* this one.                                                               *)

Takes(d) == now' = now + d

Answer(kind) ==
  /\ pc' = "done"
  /\ verdict' = kind
  /\ bodies' = bodies + 1
  /\ UNCHANGED <<attempt, request_state>>

TryAgain ==
  /\ pc' = "admission"
  /\ attempt' = attempt + 1
  /\ request_state' = "Queued"
  /\ UNCHANGED <<verdict, bodies>>

Await(next, state) ==
  /\ pc' = next
  /\ request_state' = state
  /\ UNCHANGED <<attempt, verdict, bodies>>

\* Mutant: one attempt more than there are keys.
KeysTriedLate == attempt >= NKeys

KeysTried == attempt + 1 >= NKeys

\* After a 429, an auth failure or a rejected body: another key, or the tail.
NextKey(authFailed) ==
  IF KeysTried
  THEN Answer(IF authFailed THEN "auth_forwarded" ELSE "exhausted")
  ELSE TryAgain

\* After a stall: a retry while attempts and budget last, else a 504.
MayRetryStall(window, budget) ==
  can_retry(on_failure(request_state, FALSE), attempt, Attempts, now', window, budget)

Stall(window, budget, wholeRail) ==
  IF MayRetryStall(window, budget)
  THEN TryAgain /\ rails' = rails + (IF wholeRail THEN 1 ELSE 0)
  ELSE Answer("gateway_timeout") /\ UNCHANGED rails

-----------------------------------------------------------------------------
(* Admission: acquire_gateway_permits_excluding.                           *)

\* The failed key is leased only if no other key can be.
Leasable(free) ==
  LET warm == {k \in free : now' >= cooling[k]}
  IN  IF warm \ {failed_key} # {} THEN warm \ {failed_key} ELSE warm

Admit ==
  /\ pc = "admission"
  /\ \E d \in 0 .. AdmissionWait : Takes(d)
  /\ \E free \in SUBSET Keys : key' \in Leasable(free)
  /\ Await("first_byte", "Admitted")
  /\ UNCHANGED <<hedged, failed_key, auth, cooling, rails, blamed>>

\* 503 or 429 once the wait is over.
Reject ==
  /\ pc = "admission"
  /\ Takes(AdmissionWait)
  /\ Answer("refused")
  /\ UNCHANGED <<hedged, key, failed_key, auth, cooling, rails, blamed>>

-----------------------------------------------------------------------------
(* The wait for an answer: alone under one rail, or raced, in which case   *)
(* the first byte is in hand and may be another key's.                     *)

Rail      == IF hedged THEN 2 * FirstByteWindow ELSE FirstByteWindow
Answerers == IF hedged THEN Keys ELSE {key}

Blame(k) == blamed' = IF k = key THEN blamed ELSE blamed \cup {key}

\* Mutant: the first call is not wrapped in a timeout.
SilentIfHedged ==
  /\ pc = "first_byte" /\ hedged
  /\ \E d \in 0 .. Rail : Takes(d) /\ Stall(FirstByteWindow, FastBudget, d >= FirstByteWindow)
  /\ failed_key' = IF pc' = "admission" THEN key ELSE failed_key
  /\ UNCHANGED <<hedged, key, auth, cooling, blamed>>

\* No first byte.  A race also counts a failed send as silence.
Silent ==
  /\ pc = "first_byte"
  /\ \E d \in IF hedged THEN 0 .. Rail ELSE {Rail} :
       Takes(d) /\ Stall(FirstByteWindow, FastBudget, d >= FirstByteWindow)
  /\ failed_key' = IF pc' = "admission" THEN key ELSE failed_key
  /\ UNCHANGED <<hedged, key, auth, cooling, blamed>>

SendError ==
  /\ pc = "first_byte"
  /\ ~hedged
  /\ \E d \in 0 .. Rail : Takes(d)
  /\ Answer("bad_gateway")
  /\ UNCHANGED <<hedged, key, failed_key, auth, cooling, rails, blamed>>

\* 429: mark_rate_limited is told of the attempt's own key.
RateLimited ==
  /\ pc = "first_byte"
  /\ \E d \in 0 .. Rail : Takes(d)
  /\ \E k \in Answerers : Blame(k)
  /\ \E secs \in RetryAfters : cooling' = [cooling EXCEPT ![key] = now' + secs]
  /\ NextKey(auth)
  /\ UNCHANGED <<hedged, key, failed_key, auth, rails>>

\* 401 or 403: mark_auth_failed, likewise, before the body is read.
AuthFailed ==
  /\ pc = "first_byte"
  /\ \E d \in 0 .. Rail : Takes(d)
  /\ IF AuthCooldown = 0
     THEN UNCHANGED <<cooling, blamed>>
     ELSE /\ \E k \in Answerers : Blame(k)
          /\ cooling' = [cooling EXCEPT ![key] = now' + AuthCooldown]
  /\ Await("auth_body", request_state)
  /\ UNCHANGED <<hedged, key, failed_key, auth, rails>>

\* resp.bytes().await: this wait has no timeout.
AuthBody ==
  /\ pc = "auth_body"
  /\ \E d \in 0 .. MaxBody : Takes(d)
  /\ auth' = TRUE
  /\ NextKey(TRUE)
  /\ UNCHANGED <<hedged, key, failed_key, cooling, rails, blamed>>

\* 400 whose body, read under a timeout, asks for another key (a degraded
\* model, a rejected message order) or is forwarded.
BadRequest ==
  /\ pc = "first_byte"
  /\ \E d \in 0 .. Rail + FirstByteWindow : Takes(d)
  /\ NextKey(auth) \/ Answer("bad_request")
  /\ UNCHANGED <<hedged, key, failed_key, auth, cooling, rails, blamed>>

\* Any other status is forwarded, success or not.
Accepted ==
  /\ pc = "first_byte"
  /\ \E d \in 0 .. Rail : Takes(d)
  /\ Await("first_chunk", "InFlight")
  /\ UNCHANGED <<hedged, key, failed_key, auth, cooling, rails, blamed>>

-----------------------------------------------------------------------------
(* The first chunk.  A raced response has it already.                      *)

NoBytes ==
  /\ pc = "first_chunk"
  /\ ~hedged
  /\ \E d \in 0 .. FirstByteWindow :
       Takes(d) /\ Stall(FirstByteWindow, FastBudget, d = FirstByteWindow)
  /\ failed_key' = key
  /\ UNCHANGED <<hedged, key, auth, cooling, blamed>>

ChunkError ==
  /\ pc = "first_chunk"
  /\ ~hedged
  /\ \E d \in 0 .. FirstByteWindow : Takes(d)
  /\ Answer("bad_gateway")
  /\ UNCHANGED <<hedged, key, failed_key, auth, cooling, rails, blamed>>

FirstChunk ==
  /\ pc = "first_chunk"
  /\ \E d \in IF hedged THEN {0} ELSE 0 .. FirstByteWindow : Takes(d)
  /\ \E mode \in ResponseModes :
       /\ request_state' = on_first_byte(mode)
       /\ IF mode = Streaming
          THEN pc' = "streaming" /\ bodies' = bodies + 1
          ELSE pc' = "assembling" /\ UNCHANGED bodies
  /\ UNCHANGED <<hedged, attempt, key, failed_key, auth, cooling, verdict, rails, blamed>>

-----------------------------------------------------------------------------
(* The rest of the body.                                                   *)

Assembled ==
  /\ pc = "assembling"
  /\ \E d \in 0 .. MaxBody : Takes(d)
  /\ Answer("assembled")
  /\ UNCHANGED <<hedged, key, failed_key, auth, cooling, rails, blamed>>

AssemblyError ==
  /\ pc = "assembling"
  /\ \E d \in 0 .. MaxBody : Takes(d)
  /\ Answer("bad_gateway")
  /\ UNCHANGED <<hedged, key, failed_key, auth, cooling, rails, blamed>>

\* A gap of a whole idle window: the retry is charged another idle window.
BodyStall ==
  /\ pc = "assembling"
  /\ \E d \in 0 .. MaxBody : Takes(d + IdleWindow)
  /\ Stall(IdleWindow, BodyStallBudget, FALSE)
  /\ failed_key' = key
  /\ UNCHANGED <<hedged, key, auth, cooling, blamed>>

\* The stream ends, is cut, or is aborted by the idle guard.
StreamEnds ==
  /\ pc = "streaming"
  /\ \E d \in 0 .. MaxBody + IdleWindow : Takes(d)
  /\ pc' = "done"
  /\ verdict' \in {"streamed", "truncated"}
  /\ UNCHANGED <<hedged, attempt, request_state, key, failed_key, auth, cooling,
                 bodies, rails, blamed>>

-----------------------------------------------------------------------------
\* The waits that end by themselves: each has a timeout, or what it waits for.
\* The idle window bounds each gap of a buffered body and not the whole, so such
\* a body is taken to end or to fall silent.
ProxyStep ==
  \/ Admit \/ Reject \/ Silent \/ NoBytes \/ BodyStall
  \/ (hedged /\ FirstChunk)

UpstreamStep ==
  \/ SendError \/ RateLimited \/ AuthFailed \/ AuthBody \/ BadRequest \/ Accepted
  \/ ChunkError \/ (~hedged /\ FirstChunk) \/ Assembled \/ AssemblyError \/ StreamEnds

Finished == pc = "done" /\ UNCHANGED vars

Next == ProxyStep \/ UpstreamStep \/ Finished

Spec == Init /\ [][Next]_vars

\* Timers fire; nothing is assumed of the upstream.
FairSpec == Spec /\ WF_vars(ProxyStep)

-----------------------------------------------------------------------------
Verdicts == { "none", "refused", "bad_gateway", "gateway_timeout", "exhausted", "auth_forwarded",
              "bad_request", "assembled", "streamed", "truncated" }

TypeOK ==
  /\ hedged \in BOOLEAN
  /\ now \in Nat
  /\ pc \in {"admission", "first_byte", "auth_body", "first_chunk", "assembling", "streaming", "done"}
  /\ attempt \in 0 .. Attempts - 1
  /\ request_state \in {"Queued", "Admitted", "InFlight", "Assembling", "Committed"}
  /\ key \in Keys \cup {NoKey}
  /\ failed_key \in Keys \cup {NoKey}
  /\ auth \in BOOLEAN
  /\ cooling \in [Keys -> Nat]
  /\ verdict \in Verdicts
  /\ bodies \in Nat
  /\ rails \in Nat
  /\ blamed \subseteq Keys

\* Where the request is in its lifecycle: the handler's local is only part of it.
LifecycleState ==
  CASE pc = "admission" /\ attempt = 0                        -> "Queued"
    [] pc = "admission" /\ attempt > 0                        -> "Retryable"
    [] pc = "done" /\ verdict \in {"assembled", "streamed"}   -> "Responded"
    [] pc = "done" /\ verdict = "refused" /\ attempt = 0      -> "Rejected"
    [] pc = "done" /\ ~( \/ verdict \in {"assembled", "streamed"}
                         \/ verdict = "refused" /\ attempt = 0 ) -> "Failed"
    [] OTHER                                                  -> request_state

Lifecycle == INSTANCE RequestLifecycle WITH state <- LifecycleState

\* The handler implements the lifecycle: whatever the upstream answers, it makes
\* only the drawn transitions and hands over one body, at the drawn moment (S3).
ImplementsLifecycle == Lifecycle!Spec

\* S3: at most one response body per request, and exactly one once the request
\* is over or its body is on the wire: no retry double-sends, no path is mute.
OneBodyPerRequest == Lifecycle!OneBody

\* "exactly one retry ... never a chain": when the window is longer than the
\* allowances, at most one stall that used up a whole window is retried, however
\* 429s, quarantines and body stalls are mixed in.
OneWholeRailRetried == FirstByteWindow > AdmissionWait + Slack => rails <= 1

\* The handler returns a streaming response at its first chunk.
Returned == pc \in {"streaming", "done"}

\* Every request returns (L1), unless the upstream never ends the body of a 401
\* or 403: no other wait of the handler is without a rail.
ReturnsUnlessAuthBodyHangs == <>Returned \/ <>[](pc = "auth_body")

-----------------------------------------------------------------------------
(* A statement of the repository's own documentation that the code refutes. *)

\* mark_auth_failed: "it means the key itself is bad".  A key is benched only
\* for its own answer.
BenchedForOwnAnswer == blamed = {}
=============================================================================
