----------------------------- MODULE RequestState -----------------------------
(***************************************************************************)
(* The states of a request and the functions on them                       *)
(* (nimaproxy/src/proxy/request_state.rs).                                 *)
(***************************************************************************)
EXTENDS Naturals

\* Can the client see the first byte as it arrives?
Streaming     == "streaming"
Buffered      == "buffered"
ResponseModes == {Streaming, Buffered}

RequestStates == { "Queued", "Admitted", "InFlight", "Assembling", "Committed",
                   "Rejected", "Retryable", "Failed", "Responded" }

may_commit(s)  == s \in {"Admitted", "InFlight", "Assembling"}
is_terminal(s) == s \in {"Rejected", "Failed", "Responded"}

on_failure(s, bytesSent) == IF bytesSent \/ s = "Committed" THEN "Failed" ELSE "Retryable"

\* Mutant: the byte commits the request whoever has seen it.
on_first_byte_conflated(mode) == "Committed"

on_first_byte(mode) == IF mode = Streaming THEN "Committed" ELSE "Assembling"

\* Mutant: the window a retry would need is not added.
can_retry_now(s, attempt, n, elapsed, window, budget) ==
  s = "Retryable" /\ attempt + 1 < n /\ elapsed <= budget

can_retry(s, attempt, n, elapsed, window, budget) ==
  /\ s = "Retryable"
  /\ attempt + 1 < n
  /\ elapsed + window <= budget
=============================================================================
