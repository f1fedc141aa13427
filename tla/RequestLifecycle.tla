--------------------------- MODULE RequestLifecycle ---------------------------
(***************************************************************************)
(* What a request of the proxy promises, as the state machine drawn at the *)
(* top of nimaproxy/src/proxy/request_state.rs: which states follow which, *)
(* and when the client is handed a response body.                          *)
(*                                                                         *)
(* A failure that is not retried takes the machine through Retryable to    *)
(* Failed in one step, as the code does.                                   *)
(***************************************************************************)
EXTENDS RequestState

VARIABLES
  state,      \* a RequestState
  bodies      \* response bodies handed to the client so far

vars == <<state, bodies>>

TypeOK == state \in RequestStates /\ bodies \in Nat

Init == state = "Queued" /\ bodies = 0

Unsent    == bodies' = bodies
HandsOver == bodies' = bodies + 1

Permit    == state \in {"Queued", "Retryable"} /\ state' = "Admitted" /\ Unsent
Refuse    == state = "Queued" /\ state' = "Rejected" /\ HandsOver
Send      == state = "Admitted" /\ state' = "InFlight" /\ Unsent

FirstByte(mode) ==
  /\ state = "InFlight"
  /\ may_commit(state)
  /\ state' = on_first_byte(mode)
  /\ IF mode = Streaming THEN HandsOver ELSE Unsent

Fail ==
  /\ state \in {"Admitted", "InFlight", "Assembling"}
  /\ state' = on_failure(state, FALSE)
  /\ Unsent

\* The error response is the body the client gets.
GiveUp ==
  /\ state \in {"Admitted", "InFlight", "Assembling", "Retryable"}
  /\ state' = "Failed"
  /\ HandsOver

Complete == state = "Assembling" /\ state' = "Responded" /\ HandsOver

StreamEnds ==
  /\ state = "Committed"
  /\ state' \in {"Responded", on_failure(state, TRUE)}
  /\ Unsent

Next ==
  \/ Permit \/ Refuse \/ Send
  \/ \E mode \in ResponseModes : FirstByte(mode)
  \/ Fail \/ GiveUp \/ Complete \/ StreamEnds

Spec == Init /\ [][Next]_vars

-----------------------------------------------------------------------------
\* S3: a client receives at most one response body for one request, and every
\* request that is over, or has bytes on the wire, has handed one over.
OneBody == bodies = IF is_terminal(state) \/ state = "Committed" THEN 1 ELSE 0
=============================================================================
