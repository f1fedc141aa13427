-------------------------- MODULE ChatRequestProofs --------------------------
(***************************************************************************)
(* Proofs about ChatRequest, for every pool size, every window and every   *)
(* allowance: its types, that it implements RequestLifecycle, and that at  *)
(* most one stall that used up a whole window is retried.                  *)
(***************************************************************************)
EXTENDS ChatRequest, TLAPS

USE DEF Keys, NoKey

\* The state the handler keeps is the one its program point implies, and it
\* waits for the upstream with a key.
Phase ==
  /\ pc \notin {"admission", "done"} => key \in Keys
  /\ pc \in {"first_byte", "auth_body"} => request_state = "Admitted"
  /\ pc = "first_chunk" => request_state = "InFlight"
  /\ pc = "assembling" => request_state = "Assembling"
  /\ pc = "streaming" => request_state = "Committed"

\* A retried whole window has been waited for.
RailPaid ==
  FirstByteWindow > AdmissionWait + Slack
  => /\ rails <= 1
     /\ rails = 1 => now >= FirstByteWindow

Inv == TypeOK /\ Phase /\ RailPaid

LEMMA AttemptBound ==
  ASSUME TypeOK
  PROVE  /\ Attempts \in Nat
         /\ ~KeysTried => attempt + 1 \in 0 .. Attempts - 1
         /\ \A window, budget \in Nat :
              now' \in Nat /\ MayRetryStall(window, budget)
              => attempt + 1 \in 0 .. Attempts - 1
<1> USE ChatRequestAssumption DEF TypeOK, Attempts
<1>1. Attempts \in Nat
  OBVIOUS
<1>2. ~KeysTried => attempt + 1 \in 0 .. Attempts - 1
  BY DEF KeysTried
<1>3. \A window, budget \in Nat :
         now' \in Nat /\ MayRetryStall(window, budget) => attempt + 1 \in 0 .. Attempts - 1
  BY DEF MayRetryStall, can_retry
<1> QED
  BY <1>1, <1>2, <1>3

LEMMA BudgetType == FastBudget \in Nat /\ BodyStallBudget \in Nat
BY ChatRequestAssumption DEF FastBudget, BodyStallBudget

\* What the three ways to go on after an upstream answer do to the types.
Progress ==
  /\ pc' \in {"admission", "done"}
  /\ attempt' \in 0 .. Attempts - 1
  /\ request_state' \in {request_state, "Queued"}
  /\ verdict' \in Verdicts
  /\ bodies' \in Nat

LEMMA NextKeyProgress ==
  ASSUME TypeOK, NEW a \in BOOLEAN, NextKey(a)
  PROVE  Progress
<1>1. CASE KeysTried
  BY <1>1, AttemptBound DEF NextKey, Answer, Progress, TypeOK, Verdicts
<1>2. CASE ~KeysTried
  BY <1>2, AttemptBound DEF NextKey, TryAgain, Progress, TypeOK
<1> QED
  BY <1>1, <1>2

LEMMA StallProgress ==
  ASSUME TypeOK, NEW w \in Nat, NEW b \in Nat, NEW whole \in BOOLEAN,
         now' \in Nat, Stall(w, b, whole)
  PROVE  /\ Progress
         /\ rails' \in Nat
<1>1. CASE MayRetryStall(w, b)
  <2>1. attempt + 1 \in 0 .. Attempts - 1
    BY <1>1, AttemptBound
  <2> QED
    BY <1>1, <2>1 DEF Stall, TryAgain, Progress, TypeOK
<1>2. CASE ~MayRetryStall(w, b)
  BY <1>2 DEF Stall, Answer, Progress, TypeOK, Verdicts
<1> QED
  BY <1>1, <1>2

LEMMA SumType == \A x, y \in Nat : x + y \in Nat
OBVIOUS

LEMMA BlameType ==
  ASSUME TypeOK, Phase, pc = "first_byte", \E k \in Answerers : Blame(k)
  PROVE  blamed' \subseteq Keys
BY DEF Blame, TypeOK, Phase

-----------------------------------------------------------------------------
(* Types and program points.                                               *)

LEMMA InitInv == Init => Inv
<1> SUFFICES ASSUME Init PROVE Inv
  OBVIOUS
<1> USE ChatRequestAssumption DEF Init
<1>1. hedged \in BOOLEAN
  OBVIOUS
<1>2. attempt \in 0 .. Attempts - 1
  BY DEF Attempts
<1>3. cooling \in [Keys -> Nat]
  OBVIOUS
<1>4. TypeOK
  BY <1>1, <1>2, <1>3 DEF TypeOK, Verdicts
<1>5. Phase /\ RailPaid
  BY DEF Phase, RailPaid
<1> QED
  BY <1>4, <1>5 DEF Inv

LEMMA TypeStep ==
  ASSUME TypeOK, Phase, [Next]_vars
  PROVE  TypeOK' /\ Phase'
<1> USE ChatRequestAssumption DEF TypeOK, Phase
<1>1. CASE Admit
  <2>1. PICK free \in SUBSET Keys : key' \in Leasable(free)
    BY <1>1 DEF Admit
  <2>2. key' \in Keys
    BY <2>1 DEF Leasable
  <2> QED
    BY <1>1, <2>2 DEF Admit, Takes, Await
<1>2. CASE Reject
  BY <1>2 DEF Reject, Takes, Answer, Verdicts
<1>3. CASE Silent
  <2>1. PICK d \in Nat : Takes(d) /\ Stall(FirstByteWindow, FastBudget, d >= FirstByteWindow)
    BY <1>3 DEF Silent, Rail
  <2>2. now' \in Nat /\ (d >= FirstByteWindow) \in BOOLEAN
    BY <2>1 DEF Takes
  <2>3. Progress /\ rails' \in Nat
    BY <2>1, <2>2, StallProgress, BudgetType
  <2> QED
    BY <1>3, <2>2, <2>3 DEF Silent, Progress
<1>4. CASE NoBytes
  <2>1. PICK d \in Nat : Takes(d) /\ Stall(FirstByteWindow, FastBudget, d = FirstByteWindow)
    BY <1>4 DEF NoBytes
  <2>2. now' \in Nat
    BY <2>1 DEF Takes
  <2>3. Progress /\ rails' \in Nat
    BY <2>1, <2>2, StallProgress, BudgetType
  <2> QED
    BY <1>4, <2>2, <2>3 DEF NoBytes, Progress
<1>5. CASE BodyStall
  <2>1. now' \in Nat
    BY <1>5 DEF BodyStall, Takes
  <2>2. Progress /\ rails' \in Nat
    BY <1>5, <2>1, StallProgress, BudgetType DEF BodyStall
  <2> QED
    BY <1>5, <2>1, <2>2 DEF BodyStall, Progress
<1>6. CASE StreamEnds
  BY <1>6 DEF StreamEnds, Takes, Verdicts
<1>7. CASE SendError
  BY <1>7 DEF SendError, Takes, Answer, Rail, Verdicts
<1>8. CASE RateLimited
  <2>1. now' \in Nat
    BY <1>8 DEF RateLimited, Takes, Rail
  <2>2. Progress
    BY <1>8, NextKeyProgress DEF RateLimited
  <2>3. cooling' \in [Keys -> Nat]
    <3>1. PICK secs \in RetryAfters : cooling' = [cooling EXCEPT ![key] = now' + secs]
      BY <1>8 DEF RateLimited
    <3>2. secs \in Nat
      BY ONLY <3>1, ChatRequestAssumption DEF ChatRequestAssumption
    <3>3. now' + secs \in Nat
      BY ONLY <2>1, <3>2, SumType
    <3> QED
      BY <3>1, <3>3
  <2>4. blamed' \subseteq Keys
    BY <1>8, BlameType DEF RateLimited
  <2> QED
    BY <1>8, <2>1, <2>2, <2>3, <2>4 DEF RateLimited, Progress
<1>9. CASE AuthFailed
  <2>1. now' \in Nat
    BY <1>9 DEF AuthFailed, Takes, Rail
  <2>2. cooling' \in [Keys -> Nat]
    <3>1. now' + AuthCooldown \in Nat
      BY <2>1
    <3> QED
      BY <1>9, <3>1 DEF AuthFailed
  <2>3. blamed' \subseteq Keys
    BY <1>9, BlameType DEF AuthFailed
  <2> QED
    BY <1>9, <2>1, <2>2, <2>3 DEF AuthFailed, Await
<1>10. CASE AuthBody
  <2>1. Progress
    BY <1>10, NextKeyProgress DEF AuthBody
  <2> QED
    BY <1>10, <2>1 DEF AuthBody, Progress, Takes
<1>11. CASE BadRequest
  <2>1. Progress
    BY <1>11, NextKeyProgress DEF BadRequest, Answer, Progress, Verdicts
  <2>2. now' \in Nat
    BY <1>11 DEF BadRequest, Takes, Rail
  <2> QED
    BY <1>11, <2>1, <2>2 DEF BadRequest, Progress
<1>12. CASE Accepted
  BY <1>12 DEF Accepted, Takes, Await, Rail
<1>13. CASE ChunkError
  BY <1>13 DEF ChunkError, Takes, Answer, Verdicts
<1>14. CASE FirstChunk
  BY <1>14 DEF FirstChunk, Takes, on_first_byte, ResponseModes, Streaming, Buffered
<1>15. CASE Assembled
  BY <1>15 DEF Assembled, Takes, Answer, Verdicts
<1>16. CASE AssemblyError
  BY <1>16 DEF AssemblyError, Takes, Answer, Verdicts
<1>17. CASE UNCHANGED vars
  BY <1>17 DEF vars
<1> QED
  BY <1>1, <1>2, <1>3, <1>4, <1>5, <1>6, <1>7, <1>8, <1>9, <1>10, <1>11, <1>12, <1>13,
     <1>14, <1>15, <1>16, <1>17 DEF Next, ProxyStep, UpstreamStep, Finished
-----------------------------------------------------------------------------
(* One whole window.                                                       *)

\* A retried whole window is paid for and leaves no room for a second one.
LEMMA StallPaid ==
  ASSUME TypeOK, RailPaid, NEW d \in Nat, Takes(d), NEW whole \in BOOLEAN,
         whole => d >= FirstByteWindow,
         Stall(FirstByteWindow, FastBudget, whole)
  PROVE  RailPaid'
<1> USE ChatRequestAssumption DEF TypeOK, RailPaid, Takes
<1>1. CASE ~MayRetryStall(FirstByteWindow, FastBudget)
  BY <1>1 DEF Stall
<1>2. CASE MayRetryStall(FirstByteWindow, FastBudget) /\ ~whole
  BY <1>2 DEF Stall
<1>3. CASE MayRetryStall(FirstByteWindow, FastBudget) /\ whole
  <2>1. now' + FirstByteWindow <= 2 * FirstByteWindow + AdmissionWait + Slack
    BY <1>3 DEF MayRetryStall, can_retry, FastBudget
  <2>2. now' >= now + FirstByteWindow
    BY <1>3
  <2>3. FirstByteWindow > AdmissionWait + Slack => rails # 1
    BY <2>1, <2>2
  <2>4. rails' = rails + 1
    BY <1>3 DEF Stall
  <2> QED
    BY <2>2, <2>3, <2>4
<1> QED
  BY <1>1, <1>2, <1>3

\* Nothing else counts a window.
LEMMA RailStep ==
  ASSUME Inv, [Next]_vars
  PROVE  RailPaid'
<1> USE ChatRequestAssumption DEF Inv
<1>1. CASE Silent
  <2>1. PICK d \in Nat : Takes(d) /\ Stall(FirstByteWindow, FastBudget, d >= FirstByteWindow)
    BY <1>1 DEF Silent, Rail
  <2>2. CASE d >= FirstByteWindow
    <3>1. Stall(FirstByteWindow, FastBudget, TRUE)
      BY <2>1, <2>2 DEF Stall
    <3> QED
      BY <2>1, <2>2, <3>1, StallPaid
  <2>3. CASE ~(d >= FirstByteWindow)
    <3>1. Stall(FirstByteWindow, FastBudget, FALSE)
      BY <2>1, <2>3 DEF Stall
    <3> QED
      BY <2>1, <3>1, StallPaid
  <2> QED
    BY <2>2, <2>3
<1>2. CASE NoBytes
  <2>1. PICK d \in Nat : Takes(d) /\ Stall(FirstByteWindow, FastBudget, d = FirstByteWindow)
    BY <1>2 DEF NoBytes
  <2>2. (d = FirstByteWindow) => d >= FirstByteWindow
    OBVIOUS
  <2> QED
    BY <2>1, <2>2, StallPaid DEF Inv
<1>3. CASE BodyStall
  <2>1. PICK d \in Nat : Takes(d + IdleWindow)
    BY <1>3 DEF BodyStall
  <2>2. rails' \in {rails, rails + 0}
    BY <1>3 DEF BodyStall, Stall
  <2> QED
    BY <2>1, <2>2 DEF Takes, RailPaid, TypeOK
<1>4. CASE UNCHANGED vars
  BY <1>4 DEF vars, RailPaid
<1>5. ASSUME rails' = rails, NEW d \in Nat, Takes(d)
      PROVE  RailPaid'
  BY <1>5 DEF Takes, RailPaid, TypeOK
<1>6. CASE Admit \/ Reject \/ AuthBody \/ Assembled \/ AssemblyError \/ StreamEnds
  <2>1. rails' = rails /\ \E d \in Nat : Takes(d)
    <3>1. CASE Admit
      BY <3>1 DEF Admit
    <3>2. CASE Reject
      BY <3>2 DEF Reject
    <3>3. CASE AuthBody
      BY <3>3 DEF AuthBody
    <3>4. CASE Assembled \/ AssemblyError
      BY <3>4 DEF Assembled, AssemblyError
    <3>5. CASE StreamEnds
      BY <3>5 DEF StreamEnds
    <3> QED
      BY <1>6, <3>1, <3>2, <3>3, <3>4, <3>5
  <2> QED
    BY <1>5, <2>1
<1>7. CASE SendError \/ RateLimited \/ AuthFailed \/ BadRequest \/ Accepted
  <2>1. rails' = rails /\ \E d \in Nat : Takes(d)
    BY <1>7 DEF SendError, RateLimited, AuthFailed, BadRequest, Accepted, Rail
  <2> QED
    BY <1>5, <2>1
<1>8. CASE ChunkError \/ FirstChunk
  <2>1. rails' = rails /\ \E d \in Nat : Takes(d)
    BY <1>8 DEF ChunkError, FirstChunk
  <2> QED
    BY <1>5, <2>1
<1> QED
  BY <1>1, <1>2, <1>3, <1>4, <1>6, <1>7, <1>8 DEF Next, ProxyStep, UpstreamStep, Finished

\* The inductive invariant.
THEOREM InvHolds == Spec => []Inv
<1>1. Inv /\ [Next]_vars => Inv'
  BY TypeStep, RailStep DEF Inv
<1> QED
  BY <1>1, InitInv, PTL DEF Spec

\* The types of the handler's state and of what it reports, for every pool.
THEOREM ChatTypeCorrect == Spec => []TypeOK
BY InvHolds, PTL DEF Inv

\* At most one stall that used up a whole window is retried, whatever mix of
\* 429s, quarantines, body stalls and hedges a request meets.
THEOREM OneWholeRail == Spec => []OneWholeRailRetried
<1>1. Inv => OneWholeRailRetried
  BY DEF Inv, RailPaid, OneWholeRailRetried
<1> QED
  BY <1>1, InvHolds, PTL

-----------------------------------------------------------------------------
(* The handler implements the lifecycle.                                   *)

LEMMA InitLifecycle == Init => Lifecycle!Init
BY DEF Init, Lifecycle!Init, LifecycleState

\* A failed attempt that is followed by another one.
LEMMA Fails ==
  ASSUME TypeOK, Phase, pc \in {"first_byte", "auth_body", "first_chunk", "assembling"}, TryAgain
  PROVE  Lifecycle!Fail
<1>1. LifecycleState \in {"Admitted", "InFlight", "Assembling"}
  BY DEF LifecycleState, Phase
<1>2. attempt' > 0
  BY DEF TryAgain, TypeOK
<1>3. LifecycleState' = "Retryable"
  BY <1>2 DEF LifecycleState, TryAgain
<1> QED
  BY <1>1, <1>3 DEF Lifecycle!Fail, Lifecycle!on_failure, Lifecycle!Unsent, TryAgain

\* A failed attempt that ends the request.
LEMMA GivesUp ==
  ASSUME TypeOK, Phase, pc \in {"first_byte", "auth_body", "first_chunk", "assembling"},
         NEW kind \in Verdicts \ {"refused", "assembled", "streamed"}, Answer(kind)
  PROVE  Lifecycle!GiveUp
<1>1. LifecycleState \in {"Admitted", "InFlight", "Assembling"}
  BY DEF LifecycleState, Phase
<1>2. LifecycleState' = "Failed"
  BY DEF LifecycleState, Answer
<1> QED
  BY <1>1, <1>2 DEF Lifecycle!GiveUp, Lifecycle!HandsOver, Answer

LEMMA NextKeyEnds ==
  ASSUME TypeOK, Phase, pc \in {"first_byte", "auth_body", "first_chunk", "assembling"},
         NEW a \in BOOLEAN, NextKey(a)
  PROVE  Lifecycle!Fail \/ Lifecycle!GiveUp
<1>1. CASE KeysTried
  BY <1>1, GivesUp DEF NextKey, Verdicts
<1>2. CASE ~KeysTried
  BY <1>2, Fails DEF NextKey
<1> QED
  BY <1>1, <1>2

LEMMA StallEnds ==
  ASSUME TypeOK, Phase, pc \in {"first_byte", "auth_body", "first_chunk", "assembling"},
         NEW w, NEW b, NEW whole, Stall(w, b, whole)
  PROVE  Lifecycle!Fail \/ Lifecycle!GiveUp
<1>1. CASE MayRetryStall(w, b)
  BY <1>1, Fails DEF Stall
<1>2. CASE ~MayRetryStall(w, b)
  BY <1>2, GivesUp DEF Stall, Verdicts
<1> QED
  BY <1>1, <1>2

LEMMA NextLifecycle ==
  ASSUME Inv, [Next]_vars
  PROVE  [Lifecycle!Next]_(Lifecycle!vars)
<1> USE DEF Inv
<1>1. CASE Admit
  <2>1. Lifecycle!Permit
    BY <1>1 DEF Admit, Await, LifecycleState, TypeOK, Lifecycle!Permit, Lifecycle!Unsent
  <2> QED
    BY <2>1 DEF Lifecycle!Next
<1>2. CASE Reject
  <2>1. CASE attempt = 0
    BY <1>2, <2>1
       DEF Reject, Answer, LifecycleState, Lifecycle!Next, Lifecycle!Refuse, Lifecycle!HandsOver
  <2>2. CASE attempt > 0
    BY <1>2, <2>2
       DEF Reject, Answer, LifecycleState, Lifecycle!Next, Lifecycle!GiveUp, Lifecycle!HandsOver
  <2> QED
    BY <2>1, <2>2 DEF TypeOK
<1>3. CASE Silent \/ NoBytes \/ BodyStall
  <2>1. Lifecycle!Fail \/ Lifecycle!GiveUp
    BY <1>3, StallEnds DEF Silent, NoBytes, BodyStall
  <2> QED
    BY <2>1 DEF Lifecycle!Next
<1>4. CASE StreamEnds
  <2>1. LifecycleState = "Committed" /\ LifecycleState' \in {"Responded", "Failed"}
    BY <1>4 DEF StreamEnds, LifecycleState, Phase
  <2> QED
    BY <1>4, <2>1 DEF StreamEnds, Lifecycle!Next, Lifecycle!StreamEnds, Lifecycle!on_failure,
                      Lifecycle!Unsent
<1>5. CASE SendError \/ ChunkError \/ AssemblyError
  <2>1. Lifecycle!GiveUp
    BY <1>5, GivesUp DEF SendError, ChunkError, AssemblyError, Verdicts
  <2> QED
    BY <2>1 DEF Lifecycle!Next
<1>6. CASE RateLimited \/ AuthBody
  <2>1. Lifecycle!Fail \/ Lifecycle!GiveUp
    BY <1>6, NextKeyEnds DEF RateLimited, AuthBody, TypeOK
  <2> QED
    BY <2>1 DEF Lifecycle!Next
<1>7. CASE BadRequest
  <2>1. Lifecycle!Fail \/ Lifecycle!GiveUp
    BY <1>7, NextKeyEnds, GivesUp DEF BadRequest, TypeOK, Verdicts
  <2> QED
    BY <2>1 DEF Lifecycle!Next
<1>8. CASE AuthFailed
  BY <1>8 DEF AuthFailed, Await, LifecycleState, Phase, Lifecycle!vars
<1>9. CASE Accepted
  <2>1. LifecycleState = "Admitted" /\ LifecycleState' = "InFlight"
    BY <1>9 DEF Accepted, Await, LifecycleState, Phase
  <2> QED
    BY <1>9, <2>1 DEF Accepted, Await, Lifecycle!Next, Lifecycle!Send, Lifecycle!Unsent
<1>10. CASE FirstChunk
  <2>1. PICK mode \in ResponseModes :
          /\ request_state' = on_first_byte(mode)
          /\ IF mode = Streaming
             THEN pc' = "streaming" /\ bodies' = bodies + 1
             ELSE pc' = "assembling" /\ UNCHANGED bodies
    BY <1>10 DEF FirstChunk
  <2>2. LifecycleState = "InFlight" /\ LifecycleState' = on_first_byte(mode)
    BY <1>10, <2>1 DEF FirstChunk, LifecycleState, Phase
  <2>3. Lifecycle!FirstByte(mode)
    BY <2>1, <2>2 DEF Lifecycle!FirstByte, Lifecycle!may_commit, Lifecycle!on_first_byte,
                      Lifecycle!HandsOver, Lifecycle!Unsent, Lifecycle!Streaming,
                      Streaming, on_first_byte
  <2>4. mode \in Lifecycle!ResponseModes
    BY DEF ResponseModes, Lifecycle!ResponseModes, Streaming, Buffered,
           Lifecycle!Streaming, Lifecycle!Buffered
  <2> QED
    BY <2>3, <2>4 DEF Lifecycle!Next
<1>11. CASE Assembled
  <2>1. LifecycleState = "Assembling" /\ LifecycleState' = "Responded"
    BY <1>11 DEF Assembled, Answer, LifecycleState, Phase
  <2> QED
    BY <1>11, <2>1 DEF Assembled, Answer, Lifecycle!Next, Lifecycle!Complete, Lifecycle!HandsOver
<1>12. CASE UNCHANGED vars
  BY <1>12 DEF vars, LifecycleState, Lifecycle!vars
<1> QED
  BY <1>1, <1>2, <1>3, <1>4, <1>5, <1>6, <1>7, <1>8, <1>9, <1>10, <1>11, <1>12
     DEF Next, ProxyStep, UpstreamStep, Finished

\* S3 and the transition diagram: whatever the upstream answers, the handler
\* makes only drawn transitions and hands over a body exactly where drawn.
THEOREM ChatImplementsLifecycle == Spec => ImplementsLifecycle
<1>1. Spec => Lifecycle!Init /\ [][Lifecycle!Next]_(Lifecycle!vars)
  BY InitLifecycle, NextLifecycle, InvHolds, PTL DEF Spec
<1> QED
  BY <1>1 DEF ImplementsLifecycle, Lifecycle!Spec

-----------------------------------------------------------------------------
(* One response body per request: a fact about the lifecycle, and so about *)
(* the handler that follows it.                                            *)

LifecycleInv == Lifecycle!TypeOK /\ Lifecycle!OneBody

LEMMA InitOneBody == Lifecycle!Init => LifecycleInv
BY DEF LifecycleInv, Lifecycle!Init, Lifecycle!TypeOK, Lifecycle!OneBody,
       Lifecycle!RequestStates, Lifecycle!is_terminal

\* Each transition that hands a body over leaves a state without one for a
\* state with one; the others stay on their side.
LEMMA NextOneBody == LifecycleInv /\ [Lifecycle!Next]_(Lifecycle!vars) => LifecycleInv'
<1> SUFFICES ASSUME LifecycleInv, [Lifecycle!Next]_(Lifecycle!vars) PROVE LifecycleInv'
  OBVIOUS
<1> USE DEF LifecycleInv, Lifecycle!TypeOK, Lifecycle!OneBody, Lifecycle!RequestStates,
            Lifecycle!is_terminal, Lifecycle!Unsent, Lifecycle!HandsOver
<1>1. CASE Lifecycle!Permit
  BY <1>1 DEF Lifecycle!Permit
<1>2. CASE Lifecycle!Refuse
  BY <1>2 DEF Lifecycle!Refuse
<1>3. CASE Lifecycle!Send
  BY <1>3 DEF Lifecycle!Send
<1>4. CASE \E mode \in Lifecycle!ResponseModes : Lifecycle!FirstByte(mode)
  BY <1>4 DEF Lifecycle!FirstByte, Lifecycle!on_first_byte, Lifecycle!ResponseModes,
              Lifecycle!Streaming, Lifecycle!Buffered
<1>5. CASE Lifecycle!Fail
  BY <1>5 DEF Lifecycle!Fail, Lifecycle!on_failure
<1>6. CASE Lifecycle!GiveUp
  BY <1>6 DEF Lifecycle!GiveUp
<1>7. CASE Lifecycle!Complete
  BY <1>7 DEF Lifecycle!Complete
<1>8. CASE Lifecycle!StreamEnds
  BY <1>8 DEF Lifecycle!StreamEnds, Lifecycle!on_failure
<1>9. CASE UNCHANGED Lifecycle!vars
  BY <1>9 DEF Lifecycle!vars
<1> QED
  BY <1>1, <1>2, <1>3, <1>4, <1>5, <1>6, <1>7, <1>8, <1>9 DEF Lifecycle!Next

\* S3 of the lifecycle: whatever makes only its transitions hands over one body
\* at most, and exactly one once the request is over or streaming.
THEOREM LifecycleOneBody == Lifecycle!Spec => []Lifecycle!OneBody
<1>1. LifecycleInv => Lifecycle!OneBody
  BY DEF LifecycleInv
<1> QED
  BY <1>1, InitOneBody, NextOneBody, PTL DEF Lifecycle!Spec

\* S3 for the handler: one response body at most, and exactly one once the
\* request is over or streaming.
THEOREM ChatOneBody == Spec => []OneBodyPerRequest
BY ChatImplementsLifecycle, LifecycleOneBody, PTL DEF OneBodyPerRequest, ImplementsLifecycle
=============================================================================
