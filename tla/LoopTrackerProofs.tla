-------------------------- MODULE LoopTrackerProofs --------------------------
(***************************************************************************)
(* Proofs about LoopTracker, for every number of sessions and requests,    *)
(* every idle timeout and every size of the ring: its types, that no two   *)
(* requests get the same join key, that a closed loop's depth is the       *)
(* number of its requests, and that the attempt counter never leaks.       *)
(***************************************************************************)
EXTENDS LoopTracker, SequenceTheorems, FiniteSetTheorems, TLAPS

OpenLoop == [ seq : Nat, openedAt : Nat, seen : 0 .. IdleTimeout, rounds : Nat,
              completed : Nat, inFlight : Nat ]

Position == [session : Sessions, seq : Nat \ {0}, round : Nat \ {0}]

\* A loop that is not open counts nothing; one that is open has a round.
LoopsCounted ==
  \A s \in Sessions : IF IsOpen(s) THEN open[s].rounds # 0 ELSE open[s].inFlight = 0

-----------------------------------------------------------------------------
(* Types *)

\* What the ring remembers are loops it remembered before, or that just ended.
LEMMA RememberType ==
  ASSUME NEW S, NEW ring \in Seq(S), NEW ended \in Seq(S)
  PROVE  /\ Remember(ring, ended) \in Seq(S)
         /\ Len(Remember(ring, ended)) <= RecentLoopCapacity
         /\ \A i \in DOMAIN Remember(ring, ended) :
              \/ \E j \in DOMAIN ring : Remember(ring, ended)[i] = ring[j]
              \/ \E j \in DOMAIN ended : Remember(ring, ended)[i] = ended[j]
<1> DEFINE all == ring \o ended
           n == Len(all)
           m == 1 + (IF n > RecentLoopCapacity THEN n - RecentLoopCapacity ELSE 0)
<1>1. /\ all \in Seq(S) /\ n = Len(ring) + Len(ended)
      /\ \A i \in 1 .. n : all[i] = IF i <= Len(ring) THEN ring[i] ELSE ended[i - Len(ring)]
  BY ConcatProperties
<1>2. /\ Len(ring) \in Nat /\ DOMAIN ring = 1 .. Len(ring)
      /\ Len(ended) \in Nat /\ DOMAIN ended = 1 .. Len(ended)
      /\ n \in Nat
  BY <1>1, LenProperties
<1>3. RecentLoopCapacity \in Nat \ {0}
  BY LoopTrackerAssumption
<1>4. m \in Int /\ m >= 1 /\ n - m + 1 <= RecentLoopCapacity
  BY <1>2, <1>3
<1>5. \A i \in 1 .. n : all[i] \in S
  BY <1>1, ElementOfSeq
<1> DEFINE kept == SubSeq(all, m, n)
<1>6. /\ kept \in Seq(S) /\ Len(kept) = (IF m <= n THEN n - m + 1 ELSE 0)
      /\ \A i \in 1 .. n - m + 1 : kept[i] = all[m + i - 1]
  <2> HIDE DEF m, n, all
  <2>1. m \in Int /\ n \in Int /\ \A i \in m .. n : all[i] \in S
    BY <1>2, <1>4, <1>5
  <2> QED
    BY <2>1, SubSeqProperties
<1>7. Remember(ring, ended) = kept
  BY DEF Remember
<1> HIDE DEF m, n, all, kept
<1>8. Len(kept) <= RecentLoopCapacity
  BY <1>2, <1>3, <1>4, <1>6
<1>9. ASSUME NEW i \in DOMAIN kept
      PROVE  (\E j \in DOMAIN ring : kept[i] = ring[j]) \/ (\E j \in DOMAIN ended : kept[i] = ended[j])
  <2>1. DOMAIN kept = 1 .. Len(kept)
    BY <1>6, LenProperties
  <2>2. i \in 1 .. n - m + 1 /\ m + i - 1 \in 1 .. n
    BY <1>2, <1>4, <1>6, <2>1
  <2>3. kept[i] = all[m + i - 1]
    BY <1>6, <2>2
  <2>4. CASE m + i - 1 <= Len(ring)
    BY <1>1, <1>2, <2>2, <2>3, <2>4
  <2>5. CASE m + i - 1 > Len(ring)
    <3>1. (m + i - 1) - Len(ring) \in DOMAIN ended
      BY <1>1, <1>2, <2>2, <2>5
    <3>2. kept[i] = ended[(m + i - 1) - Len(ring)]
      BY <1>1, <1>2, <2>2, <2>3, <2>5
    <3> QED
      BY <3>1, <3>2
  <2> QED
    BY <1>2, <2>2, <2>4, <2>5
<1> QED
  BY <1>6, <1>7, <1>8, <1>9

\* An ended loop is an entry of the ring.
LEMMA FinalizeType ==
  ASSUME TypeOK, LoopsCounted, NEW s \in Sessions, IsOpen(s), NEW why \in {NewTurn, Idle}
  PROVE  /\ Finalize(s, why) \in ClosedLoop
         /\ Finalize(s, why).session = s /\ Finalize(s, why).seq = open[s].seq
         /\ Finalize(s, why).rounds = open[s].rounds
BY DEF TypeOK, LoopsCounted, Finalize, ClosedLoop, IsOpen

LEMMA NextSeqType ==
  ASSUME TypeOK, NEW s \in Sessions
  PROVE  NextSeq(s) \in Nat \ {0} /\ NextSeq(s) > high_water[s] /\ NextSeq(s) > loop_seq[s]
BY DEF TypeOK, NextSeq

\* What begin does: the request opens a loop, or joins the open one.
Fresh(seq, messages) == Counted([NoLoop EXCEPT !.seq = seq, !.openedAt = messages])

Opens(r, s) ==
  /\ pos' = [pos EXCEPT ![r] = [session |-> s, seq |-> NextSeq(s), round |-> 1]]
  /\ \E messages \in MessageCounts : open' = [open EXCEPT ![s] = Fresh(NextSeq(s), messages)]
  /\ high_water' = [high_water EXCEPT ![s] = NextSeq(s)]
  /\ loop_seq' = [loop_seq EXCEPT ![s] = NextSeq(s)]
  /\ recent' = recent \/ (IsOpen(s) /\ recent' = Remember(recent, <<Finalize(s, NewTurn)>>))

Joins(r, s) ==
  /\ IsOpen(s)
  /\ pos' = [pos EXCEPT ![r] = [session |-> s, seq |-> open[s].seq, round |-> Counted(open[s]).rounds]]
  /\ open' = [open EXCEPT ![s] = Counted(open[s])]
  /\ UNCHANGED <<high_water, loop_seq, recent>>

Starts(r, s) ==
  /\ pc[r] = "unsent" /\ pc' = [pc EXCEPT ![r] = "begun"]
  /\ known' = [known EXCEPT ![s] = TRUE] /\ touched' = [touched EXCEPT ![s] = 0]
  /\ Opens(r, s) \/ Joins(r, s)

LEMMA CountedType ==
  ASSUME NEW l \in OpenLoop
  PROVE  /\ Counted(l) \in OpenLoop /\ Counted(l).rounds = l.rounds + 1
         /\ Counted(l).seq = l.seq /\ Counted(l).inFlight = l.inFlight
<1> DEFINE longer == [l EXCEPT !.rounds = l.rounds + 1]
<1>1. longer \in OpenLoop
  BY DEF OpenLoop
<1>2. [longer EXCEPT !.seen = 0] \in OpenLoop
  <2> HIDE DEF longer
  <2> QED
    BY <1>1, LoopTrackerAssumption DEF OpenLoop
<1>3. Counted(l) = [longer EXCEPT !.seen = 0]
  BY DEF Counted
<1>4. /\ Counted(l).rounds = l.rounds + 1
      /\ Counted(l).seq = l.seq /\ Counted(l).inFlight = l.inFlight
  BY DEF Counted, OpenLoop
<1> QED
  BY <1>2, <1>3, <1>4

LEMMA FreshType ==
  ASSUME NEW seq \in Nat \ {0}, NEW messages \in MessageCounts
  PROVE  /\ Fresh(seq, messages) \in OpenLoop /\ Fresh(seq, messages).rounds = 1
         /\ Fresh(seq, messages).seq = seq /\ Fresh(seq, messages).inFlight = 0
<1> DEFINE numbered == [NoLoop EXCEPT !.seq = seq]
           new == [numbered EXCEPT !.openedAt = messages]
<1>1. numbered \in OpenLoop /\ numbered.seq = seq /\ numbered.inFlight = 0 /\ numbered.rounds = 0
  BY LoopTrackerAssumption DEF NoLoop, OpenLoop
<1>2. new \in OpenLoop /\ new.seq = seq /\ new.inFlight = 0 /\ new.rounds = 0
  <2> HIDE DEF numbered
  <2> QED
    BY <1>1, LoopTrackerAssumption DEF OpenLoop
<1>3. Fresh(seq, messages) = Counted(new)
  BY DEF Fresh
<1> HIDE DEF new
<1> QED
  BY <1>2, <1>3, CountedType

LEMMA BeginCases ==
  ASSUME TypeOK, NEW r \in Requests, Begin(r)
  PROVE  \E s \in Sessions : Starts(r, s)
<1>1. PICK s \in Sessions, trailingUser \in BOOLEAN, messages \in MessageCounts, force \in BOOLEAN :
        begin(r, s, trailingUser, messages, force)
  BY DEF Begin
<1> DEFINE turn == StartsNewTurn(s, trailingUser, messages, force)
           new == [NoLoop EXCEPT !.seq = NextSeq(s), !.openedAt = messages]
<1>2. /\ pc[r] = "unsent" /\ pc' = [pc EXCEPT ![r] = "begun"]
      /\ known' = [known EXCEPT ![s] = TRUE] /\ touched' = [touched EXCEPT ![s] = 0]
  BY <1>1 DEF begin
<1>3. CASE (IsOpen(s) /\ turn) \/ ~IsOpen(s)
  <2>1. /\ pos' = [pos EXCEPT ![r] = [session |-> s, seq |-> NextSeq(s), round |-> Counted(new).rounds]]
        /\ open' = [open EXCEPT ![s] = Counted(new)]
        /\ high_water' = [high_water EXCEPT ![s] = NextSeq(s)]
        /\ loop_seq' = [loop_seq EXCEPT ![s] = NextSeq(s)]
        /\ recent' = recent \/ (IsOpen(s) /\ recent' = Remember(recent, <<Finalize(s, NewTurn)>>))
    BY <1>1, <1>3 DEF begin
  <2>2. Counted(new) = Fresh(NextSeq(s), messages)
    BY DEF Fresh
  <2>3. Counted(new).rounds = 1
    BY <2>2, NextSeqType, FreshType
  <2> QED
    BY <1>2, <2>1, <2>2, <2>3 DEF Starts, Opens
<1>4. CASE IsOpen(s) /\ ~turn
  BY <1>1, <1>2, <1>4 DEF begin, Starts, Joins
<1> QED
  BY <1>3, <1>4

LEMMA TypeInit == Init => TypeOK /\ LoopsCounted
<1> SUFFICES ASSUME Init PROVE TypeOK /\ LoopsCounted
  OBVIOUS
<1>1. IdleTimeout \in Nat \ {0} /\ RecentLoopCapacity \in Nat \ {0}
  BY LoopTrackerAssumption
<1>2. recent \in Seq(ClosedLoop) /\ Len(recent) = 0
  BY EmptySeq DEF Init
<1>3. open \in [Sessions -> OpenLoop] /\ \A s \in Sessions : open[s].inFlight = 0 /\ ~IsOpen(s)
  BY <1>1 DEF Init, NoLoop, OpenLoop, IsOpen
<1> QED
  BY <1>1, <1>2, <1>3 DEF Init, TypeOK, LoopsCounted, OpenLoop, Pcs
LEMMA TypeBegin ==
  ASSUME TypeOK, LoopsCounted, NEW r \in Requests, Begin(r)
  PROVE  TypeOK' /\ LoopsCounted'
<1>1. IdleTimeout \in Nat \ {0} /\ RecentLoopCapacity \in Nat \ {0}
  BY LoopTrackerAssumption
<1>2. /\ known \in [Sessions -> BOOLEAN] /\ loop_seq \in [Sessions -> Nat]
      /\ open \in [Sessions -> OpenLoop] /\ touched \in [Sessions -> 0 .. IdleTimeout]
      /\ high_water \in [Sessions -> Nat] /\ recent \in Seq(ClosedLoop)
      /\ Len(recent) <= RecentLoopCapacity /\ pc \in [Requests -> Pcs]
      /\ pos \in [Requests -> {NoPos} \cup Position]
      /\ \A q \in Requests : pos[q] = NoPos <=> pc[q] = "unsent"
  BY DEF TypeOK, OpenLoop, Position
<1>3. PICK s \in Sessions : Starts(r, s)
  BY BeginCases
<1>4. NoPos \notin Position
  BY DEF NoPos, Position
<1>5. NextSeq(s) \in Nat \ {0} /\ open[s] \in OpenLoop
  BY <1>2, NextSeqType
<1>6. known' \in [Sessions -> BOOLEAN] /\ touched' \in [Sessions -> 0 .. IdleTimeout]
  BY <1>1, <1>2, <1>3 DEF Starts
<1>7. PICK p \in Position, l \in OpenLoop :
        pos' = [pos EXCEPT ![r] = p] /\ open' = [open EXCEPT ![s] = l] /\ l.seq # 0 /\ l.rounds # 0
  <2>1. CASE Opens(r, s)
    <3>1. [session |-> s, seq |-> NextSeq(s), round |-> 1] \in Position
      BY <1>5 DEF Position
    <3>2. PICK messages \in MessageCounts : open' = [open EXCEPT ![s] = Fresh(NextSeq(s), messages)]
      BY <2>1 DEF Opens
    <3>3. /\ Fresh(NextSeq(s), messages) \in OpenLoop
          /\ Fresh(NextSeq(s), messages).seq # 0 /\ Fresh(NextSeq(s), messages).rounds # 0
      BY <1>5, FreshType
    <3> QED
      BY <2>1, <3>1, <3>2, <3>3 DEF Opens
  <2>2. CASE Joins(r, s)
    <3>1. /\ Counted(open[s]) \in OpenLoop /\ open[s].seq \in Nat \ {0}
          /\ Counted(open[s]).seq # 0 /\ Counted(open[s]).rounds \in Nat \ {0}
      BY <1>5, <2>2, CountedType DEF Joins, IsOpen, OpenLoop
    <3>2. [session |-> s, seq |-> open[s].seq, round |-> Counted(open[s]).rounds] \in Position
      BY <3>1 DEF Position
    <3> QED
      BY <2>2, <3>1, <3>2 DEF Joins
  <2> QED
    BY <1>3, <2>1, <2>2 DEF Starts
<1>8. open' \in [Sessions -> OpenLoop] /\ LoopsCounted'
  BY <1>2, <1>7 DEF LoopsCounted, IsOpen
<1>9. /\ pos' \in [Requests -> {NoPos} \cup Position] /\ pc' \in [Requests -> Pcs]
      /\ \A q \in Requests : pos'[q] = NoPos <=> pc'[q] = "unsent"
  BY <1>2, <1>3, <1>4, <1>7 DEF Starts, Pcs
<1>10. high_water' \in [Sessions -> Nat] /\ loop_seq' \in [Sessions -> Nat]
  BY <1>2, <1>3, <1>5 DEF Starts, Opens, Joins
<1>11. recent' \in Seq(ClosedLoop) /\ Len(recent') <= RecentLoopCapacity
  <2>1. CASE recent' = recent
    BY <1>2, <2>1
  <2>2. CASE IsOpen(s) /\ recent' = Remember(recent, <<Finalize(s, NewTurn)>>)
    <3>1. <<Finalize(s, NewTurn)>> \in Seq(ClosedLoop)
      BY <2>2, FinalizeType
    <3> QED
      BY <1>2, <2>2, <3>1, RememberType
  <2> QED
    BY <1>3, <2>1, <2>2 DEF Starts, Opens, Joins
<1> QED
  BY <1>6, <1>8, <1>9, <1>10, <1>11 DEF TypeOK, OpenLoop, Position

LEMMA TypeHandle ==
  ASSUME TypeOK, LoopsCounted, NEW r \in Requests, Handle(r)
  PROVE  TypeOK' /\ LoopsCounted'
<1>1. /\ open \in [Sessions -> OpenLoop] /\ touched \in [Sessions -> 0 .. IdleTimeout]
      /\ pc \in [Requests -> Pcs] /\ pos \in [Requests -> {NoPos} \cup Position]
      /\ \A q \in Requests : pos[q] = NoPos <=> pc[q] = "unsent"
  BY DEF TypeOK, OpenLoop, Position
<1>2. IdleTimeout \in Nat \ {0}
  BY LoopTrackerAssumption
<1> DEFINE s == pos[r].session
<1>3. pc[r] # "unsent" => s \in Sessions
  BY <1>1 DEF Position
<1>4. ASSUME pc[r] # "unsent", pc' \in {[pc EXCEPT ![r] = at] : at \in Pcs \ {"unsent"}},
             touched' \in {touched, [touched EXCEPT ![s] = 0]},
             open' = open \/ \E l \in OpenLoop : /\ open' = [open EXCEPT ![s] = l]
                                                 /\ l.seq = open[s].seq /\ l.rounds = open[s].rounds
                                                 /\ IsOpen(s),
             UNCHANGED <<known, loop_seq, high_water, recent, pos>>
      PROVE  TypeOK' /\ LoopsCounted'
  <2>1. /\ open' \in [Sessions -> OpenLoop] /\ LoopsCounted'
    BY <1>1, <1>3, <1>4 DEF LoopsCounted, IsOpen
  <2>2. touched' \in [Sessions -> 0 .. IdleTimeout]
    BY <1>1, <1>2, <1>4
  <2>3. pc' \in [Requests -> Pcs] /\ \A q \in Requests : pos'[q] = NoPos <=> pc'[q] = "unsent"
    BY <1>1, <1>4
  <2> QED
    BY <1>4, <2>1, <2>2, <2>3 DEF TypeOK, OpenLoop
<1> HIDE DEF s
<1>5. CASE attempt_started(r)
  <2>1. pc[r] # "unsent" /\ s \in Sessions /\ open[s] \in OpenLoop
    BY <1>1, <1>3, <1>5 DEF attempt_started
  <2>2. ASSUME IsOpen(s), open' = [open EXCEPT ![s].inFlight = @ + 1]
        PROVE  \E l \in OpenLoop : /\ open' = [open EXCEPT ![s] = l] /\ l.seq = open[s].seq
                                   /\ l.rounds = open[s].rounds
    <3>1. [open[s] EXCEPT !.inFlight = @ + 1] \in OpenLoop
      BY <2>1 DEF OpenLoop
    <3> WITNESS [open[s] EXCEPT !.inFlight = @ + 1] \in OpenLoop
    <3> QED
      BY <2>1, <2>2 DEF OpenLoop
  <2> QED
    BY <1>4, <1>5, <2>1, <2>2 DEF attempt_started, Pcs, s
<1>6. CASE \E streaming \in BOOLEAN : attempt_finished(r, streaming)
  <2>1. pc[r] # "unsent" /\ s \in Sessions /\ open[s] \in OpenLoop
    BY <1>1, <1>3, <1>6 DEF attempt_finished
  <2>2. ASSUME IsOpen(s), open[s].inFlight > 0, open' = [open EXCEPT ![s].inFlight = @ - 1]
        PROVE  \E l \in OpenLoop : /\ open' = [open EXCEPT ![s] = l] /\ l.seq = open[s].seq
                                   /\ l.rounds = open[s].rounds
    <3>1. [open[s] EXCEPT !.inFlight = @ - 1] \in OpenLoop
      BY <2>1, <2>2 DEF OpenLoop
    <3> WITNESS [open[s] EXCEPT !.inFlight = @ - 1] \in OpenLoop
    <3> QED
      BY <2>1, <2>2 DEF OpenLoop
  <2> QED
    BY <1>4, <1>6, <2>1, <2>2 DEF attempt_finished, Pcs, s
<1>7. CASE record_round(r)
  <2>1. pc[r] # "unsent" /\ s \in Sessions /\ open[s] \in OpenLoop
    BY <1>1, <1>3, <1>7 DEF record_round
  <2>2. ASSUME IsOpen(s), open' = [open EXCEPT ![s].completed = @ + 1, ![s].seen = 0]
        PROVE  \E l \in OpenLoop : /\ open' = [open EXCEPT ![s] = l] /\ l.seq = open[s].seq
                                   /\ l.rounds = open[s].rounds
    <3> DEFINE reported == [open[s] EXCEPT !.completed = open[s].completed + 1]
    <3>1. [open[s] EXCEPT !.completed = @ + 1, !.seen = 0] \in OpenLoop
      <4>1. reported \in OpenLoop
        BY <2>1 DEF OpenLoop
      <4>2. [reported EXCEPT !.seen = 0] \in OpenLoop
        <5> HIDE DEF reported
        <5> QED
          BY <1>2, <4>1 DEF OpenLoop
      <4> QED
        BY <4>2
    <3>2. open' = [open EXCEPT ![s] = [open[s] EXCEPT !.completed = @ + 1, !.seen = 0]]
      BY <1>1, <2>1, <2>2 DEF OpenLoop
    <3>3. /\ [open[s] EXCEPT !.completed = @ + 1, !.seen = 0].seq = open[s].seq
          /\ [open[s] EXCEPT !.completed = @ + 1, !.seen = 0].rounds = open[s].rounds
      BY <2>1 DEF OpenLoop
    <3> QED
      BY <3>1, <3>2, <3>3
  <2> QED
    BY <1>4, <1>7, <2>1, <2>2 DEF record_round, Pcs, s
<1> QED
  BY <1>5, <1>6, <1>7 DEF Handle

LEMMA TypeSweep ==
  ASSUME TypeOK, LoopsCounted, sweep
  PROVE  TypeOK' /\ LoopsCounted'
<1>1. IdleTimeout \in Nat \ {0} /\ IsFiniteSet(Sessions)
  BY LoopTrackerAssumption
<1>2. Cardinality(Silent) \in Nat
  BY <1>1, FS_Subset, FS_CardinalityType DEF Silent
<1>3. PICK order \in SweepOrders :
        recent' = Remember(recent, [i \in 1 .. Cardinality(Silent) |-> Finalize(order[i], Idle)])
  BY DEF sweep
<1>4. [i \in 1 .. Cardinality(Silent) |-> Finalize(order[i], Idle)] \in Seq(ClosedLoop)
  <2>1. \A i \in 1 .. Cardinality(Silent) : order[i] \in Sessions /\ IsOpen(order[i])
    BY DEF SweepOrders, Silent
  <2>2. \A i \in 1 .. Cardinality(Silent) : Finalize(order[i], Idle) \in ClosedLoop
    BY <2>1, FinalizeType
  <2> QED
    BY <1>2, <2>2
<1>5. recent' \in Seq(ClosedLoop) /\ Len(recent') <= RecentLoopCapacity
  BY <1>3, <1>4, RememberType DEF TypeOK
<1>6. open' \in [Sessions -> OpenLoop] /\ LoopsCounted'
  BY <1>1 DEF sweep, TypeOK, LoopsCounted, IsOpen, NoLoop, OpenLoop
<1>7. /\ known' \in [Sessions -> BOOLEAN] /\ loop_seq' \in [Sessions -> Nat]
      /\ touched' \in [Sessions -> 0 .. IdleTimeout]
  BY <1>1 DEF sweep, TypeOK
<1> QED
  BY <1>5, <1>6, <1>7 DEF sweep, TypeOK, OpenLoop

LEMMA TypeTick ==
  ASSUME TypeOK, LoopsCounted, Tick
  PROVE  TypeOK' /\ LoopsCounted'
<1>1. IdleTimeout \in Nat \ {0}
  BY LoopTrackerAssumption
<1>2. \A age \in 0 .. IdleTimeout : Older(age) \in 0 .. IdleTimeout
  BY <1>1 DEF Older
<1>3. touched' \in [Sessions -> 0 .. IdleTimeout]
  BY <1>1, <1>2 DEF Tick, TypeOK
<1>4. open' \in [Sessions -> OpenLoop] /\ LoopsCounted'
  <2>1. ASSUME NEW s \in Sessions
        PROVE  /\ open'[s] \in OpenLoop
               /\ IF IsOpen(s)' THEN open'[s].rounds # 0 ELSE open'[s].inFlight = 0
    <3>1. open[s] \in OpenLoop
      BY DEF TypeOK, OpenLoop
    <3>2. CASE IsOpen(s)
      <4>1. open'[s] = [open[s] EXCEPT !.seen = Older(open[s].seen)]
        BY <3>2 DEF Tick
      <4>2. Older(open[s].seen) \in 0 .. IdleTimeout
        BY <1>2, <3>1 DEF OpenLoop
      <4> QED
        BY <3>1, <3>2, <4>1, <4>2 DEF OpenLoop, IsOpen, LoopsCounted
    <3>3. CASE ~IsOpen(s)
      BY <1>1, <3>3 DEF Tick, NoLoop, OpenLoop, IsOpen
    <3> QED
      BY <3>2, <3>3
  <2>2. open' = [s \in Sessions |-> open'[s]]
    BY DEF Tick
  <2> QED
    BY <2>1, <2>2 DEF LoopsCounted
<1> QED
  BY <1>3, <1>4 DEF Tick, TypeOK, OpenLoop

LEMMA TypeNext == TypeOK /\ LoopsCounted /\ [Next]_vars => (TypeOK /\ LoopsCounted)'
<1> SUFFICES ASSUME TypeOK, LoopsCounted, [Next]_vars PROVE (TypeOK /\ LoopsCounted)'
  OBVIOUS
<1>1. CASE UNCHANGED vars
  BY <1>1 DEF vars, TypeOK, LoopsCounted, IsOpen
<1> QED
  BY <1>1, TypeBegin, TypeHandle, TypeSweep, TypeTick DEF Next

\* Every variable keeps its type; in particular the ring never outgrows its capacity.
THEOREM TrackerTypeCorrect == Spec => []TypeOK
<1>1. Init => TypeOK /\ LoopsCounted
  BY TypeInit
<1>2. TypeOK /\ LoopsCounted /\ [Next]_vars => (TypeOK /\ LoopsCounted)'
  BY TypeNext
<1> QED
  BY <1>1, <1>2, PTL DEF Spec

-----------------------------------------------------------------------------
(* The join key.  A loop number is never given twice, because the tombstone *)
(* outlives the session; within a loop, the round is a count.               *)

KeysInv ==
  /\ RoundKeysUnique
  /\ \A s \in Sessions : open[s].seq <= high_water[s]
  /\ \A r \in Requests : pos[r] # NoPos =>
       /\ pos[r].seq <= high_water[pos[r].session]
       /\ pos[r].seq = open[pos[r].session].seq => pos[r].round <= open[pos[r].session].rounds

\* Whatever is not a begin leaves the loops with their numbers and rounds, or
\* closes them.
LEMMA LoopsGoOn ==
  ASSUME TypeOK, (\E r \in Requests : Handle(r)) \/ sweep \/ Tick \/ UNCHANGED vars
  PROVE  /\ UNCHANGED <<pos, high_water>>
         /\ \A s \in Sessions : \/ open'[s].seq = open[s].seq /\ open'[s].rounds = open[s].rounds
                                \/ open'[s].seq = 0
<1>1. open \in [Sessions -> OpenLoop]
  BY DEF TypeOK, OpenLoop
<1>2. ASSUME NEW r \in Requests, attempt_started(r)
      PROVE  \A s \in Sessions : open'[s].seq = open[s].seq /\ open'[s].rounds = open[s].rounds
  BY <1>1, <1>2 DEF attempt_started, OpenLoop
<1>3. ASSUME NEW r \in Requests, NEW streaming \in BOOLEAN, attempt_finished(r, streaming)
      PROVE  \A s \in Sessions : open'[s].seq = open[s].seq /\ open'[s].rounds = open[s].rounds
  BY <1>1, <1>3 DEF attempt_finished, OpenLoop
<1>4. ASSUME NEW r \in Requests, record_round(r)
      PROVE  \A s \in Sessions : open'[s].seq = open[s].seq /\ open'[s].rounds = open[s].rounds
  BY <1>1, <1>4 DEF record_round, OpenLoop
<1>5. CASE sweep
  BY <1>5 DEF sweep, NoLoop
<1>6. CASE Tick
  <2>1. ASSUME NEW s \in Sessions
        PROVE  \/ open'[s].seq = open[s].seq /\ open'[s].rounds = open[s].rounds
               \/ open'[s].seq = 0
    BY <1>1, <1>6 DEF Tick, NoLoop, OpenLoop
  <2> QED
    BY <1>6, <2>1 DEF Tick
<1>7. ASSUME NEW r \in Requests, Handle(r) PROVE UNCHANGED <<pos, high_water>>
  BY <1>7 DEF Handle, attempt_started, attempt_finished, record_round
<1>8. CASE UNCHANGED vars
  BY <1>8 DEF vars
<1> QED
  BY <1>2, <1>3, <1>4, <1>5, <1>6, <1>7, <1>8 DEF Handle

\* The type of a position that was given.
LEMMA PositionType ==
  ASSUME TypeOK, NEW r \in Requests, pos[r] # NoPos
  PROVE  pos[r] \in Position
BY DEF TypeOK, Position

LEMMA KeysBegin ==
  ASSUME TypeOK, KeysInv, NEW r \in Requests, Begin(r)
  PROVE  KeysInv'
<1>1. PICK s \in Sessions : Starts(r, s)
  BY BeginCases
<1>2. /\ open \in [Sessions -> OpenLoop] /\ high_water \in [Sessions -> Nat]
      /\ pos \in [Requests -> {NoPos} \cup Position] /\ pos[r] = NoPos
  BY <1>1 DEF TypeOK, OpenLoop, Position, Starts
<1>3. \A q \in Requests : pos[q] # NoPos => pos[q] \in Position
  BY PositionType
<1>4. CASE Opens(r, s)
  <2>1. PICK messages \in MessageCounts : open' = [open EXCEPT ![s] = Fresh(NextSeq(s), messages)]
    BY <1>4 DEF Opens
  <2>2. NextSeq(s) \in Nat \ {0} /\ NextSeq(s) > high_water[s]
    BY NextSeqType
  <2>3. open'[s].seq = NextSeq(s) /\ open'[s].rounds = 1
    BY <1>2, <2>1, <2>2, FreshType
  <2>4. pos'[r] = [session |-> s, seq |-> NextSeq(s), round |-> 1] /\ high_water'[s] = NextSeq(s)
    BY <1>2, <1>4 DEF Opens
  <2>5. \A q \in Requests \ {r} : pos'[q] = pos[q]
    BY <1>2, <1>4 DEF Opens
  <2>6. \A z \in Sessions \ {s} : open'[z] = open[z] /\ high_water'[z] = high_water[z]
    BY <1>2, <1>4, <2>1 DEF Opens
  <2>7. \A q \in Requests : pos[q] # NoPos /\ pos[q].session = s => pos[q].seq < NextSeq(s)
    BY <1>2, <1>3, <2>2 DEF KeysInv, Position
  <2>8. \A z \in Sessions : open'[z].seq <= high_water'[z]
    BY <2>2, <2>3, <2>4, <2>6 DEF KeysInv
  <2>9. RoundKeysUnique'
    <3>1. \A q \in Requests \ {r} : pos[q] # NoPos => pos[q] # pos'[r]
      <4>1. pos'[r].session = s /\ pos'[r].seq = NextSeq(s)
        BY <2>4
      <4>2. \A q \in Requests : pos[q] # NoPos /\ pos[q].session = s => pos[q].seq # NextSeq(s)
        BY <1>3, <2>2, <2>7 DEF Position
      <4> QED
        BY <4>1, <4>2
    <3> QED
      BY <2>5, <3>1 DEF KeysInv, RoundKeysUnique
  <2>10. ASSUME NEW q \in Requests, pos'[q] # NoPos
         PROVE  /\ pos'[q].seq <= high_water'[pos'[q].session]
                /\ pos'[q].seq = open'[pos'[q].session].seq
                     => pos'[q].round <= open'[pos'[q].session].rounds
    <3>1. CASE q = r
      BY <2>2, <2>3, <2>4, <3>1
    <3>2. CASE q # r /\ pos[q].session = s
      <4>1. pos'[q] = pos[q] /\ pos[q] \in Position /\ pos[q].seq < NextSeq(s)
        BY <1>3, <2>5, <2>7, <2>10, <3>2
      <4> QED
        BY <2>2, <2>3, <2>4, <3>2, <4>1 DEF Position
    <3>3. CASE q # r /\ pos[q].session # s
      <4>1. pos'[q] = pos[q] /\ pos[q] \in Position
        BY <1>3, <2>5, <2>10, <3>3
      <4> QED
        BY <2>6, <2>10, <3>3, <4>1 DEF KeysInv, Position
    <3> QED
      BY <3>1, <3>2, <3>3
  <2> QED
    BY <2>8, <2>9, <2>10 DEF KeysInv
<1>5. CASE Joins(r, s)
  <2>1. open[s] \in OpenLoop /\ open[s].rounds \in Nat
    BY <1>2 DEF OpenLoop
  <2>2. open'[s].seq = open[s].seq /\ open'[s].rounds = open[s].rounds + 1
    BY <1>2, <1>5, <2>1, CountedType DEF Joins
  <2>3. pos'[r] = [session |-> s, seq |-> open[s].seq, round |-> open[s].rounds + 1]
    BY <1>2, <1>5, <2>1, CountedType DEF Joins
  <2>4. \A q \in Requests \ {r} : pos'[q] = pos[q]
    BY <1>2, <1>5 DEF Joins
  <2>5. high_water' = high_water /\ \A z \in Sessions \ {s} : open'[z] = open[z]
    BY <1>2, <1>5 DEF Joins
  <2>6. \A q \in Requests : pos[q] # NoPos /\ pos[q].session = s /\ pos[q].seq = open[s].seq
                              => pos[q].round <= open[s].rounds /\ pos[q].round \in Nat
    BY <1>3 DEF KeysInv, Position
  <2>7. RoundKeysUnique'
    BY <2>1, <2>3, <2>4, <2>6 DEF KeysInv, RoundKeysUnique
  <2>8. \A z \in Sessions : open'[z].seq <= high_water'[z]
    BY <2>2, <2>5 DEF KeysInv
  <2>9. ASSUME NEW q \in Requests, pos'[q] # NoPos
        PROVE  /\ pos'[q].seq <= high_water'[pos'[q].session]
               /\ pos'[q].seq = open'[pos'[q].session].seq
                    => pos'[q].round <= open'[pos'[q].session].rounds
    <3>1. CASE q = r
      BY <2>1, <2>2, <2>3, <2>5, <3>1 DEF KeysInv
    <3>2. CASE q # r /\ pos[q].session = s
      <4>1. pos'[q] = pos[q] /\ pos[q] # NoPos
        BY <2>4, <2>9, <3>2
      <4> QED
        BY <2>1, <2>2, <2>5, <2>6, <3>2, <4>1 DEF KeysInv
    <3>3. CASE q # r /\ pos[q].session # s
      <4>1. pos'[q] = pos[q] /\ pos[q] \in Position
        BY <1>3, <2>4, <2>9, <3>3
      <4> QED
        BY <2>5, <2>9, <3>3, <4>1 DEF KeysInv, Position
    <3> QED
      BY <3>1, <3>2, <3>3
  <2> QED
    BY <2>7, <2>8, <2>9 DEF KeysInv
<1> QED
  BY <1>1, <1>4, <1>5 DEF Starts

LEMMA KeysStep == TypeOK /\ KeysInv /\ [Next]_vars => KeysInv'
<1> SUFFICES ASSUME TypeOK, KeysInv, [Next]_vars PROVE KeysInv'
  OBVIOUS
<1>1. CASE \E r \in Requests : Begin(r)
  BY <1>1, KeysBegin
<1>2. CASE (\E r \in Requests : Handle(r)) \/ sweep \/ Tick \/ UNCHANGED vars
  <2>1. /\ UNCHANGED <<pos, high_water>>
        /\ \A s \in Sessions : \/ open'[s].seq = open[s].seq /\ open'[s].rounds = open[s].rounds
                               \/ open'[s].seq = 0
    BY <1>2, LoopsGoOn
  <2>2. \A s \in Sessions : high_water[s] \in Nat
    BY DEF TypeOK
  <2>3. \A s \in Sessions : open'[s].seq <= high_water'[s]
    BY <2>1, <2>2 DEF KeysInv
  <2>4. ASSUME NEW r \in Requests, pos[r] # NoPos
        PROVE  pos[r].seq = open'[pos[r].session].seq
                 => pos[r].round <= open'[pos[r].session].rounds
    BY <2>1, <2>4, PositionType DEF KeysInv, Position
  <2> QED
    BY <2>1, <2>3, <2>4 DEF KeysInv, RoundKeysUnique
<1> QED
  BY <1>1, <1>2 DEF Next

\* No two requests are ever given the same session, loop and round, although a
\* session may be forgotten and come back.
THEOREM RoundsNamedOnce == Spec => []RoundKeysUnique
<1>1. Init => TypeOK /\ LoopsCounted /\ KeysInv
  BY TypeInit DEF Init, KeysInv, RoundKeysUnique, NoLoop
<1>2. TypeOK /\ LoopsCounted /\ KeysInv /\ [Next]_vars => (TypeOK /\ LoopsCounted /\ KeysInv)'
  BY TypeNext, KeysStep
<1>3. KeysInv => RoundKeysUnique
  BY DEF KeysInv
<1> QED
  BY <1>1, <1>2, <1>3, PTL DEF Spec

-----------------------------------------------------------------------------
(* The depth of a closed loop.  Requests join the open loop of a session    *)
(* only, so the members of a closed one are what they were when it ended.   *)

\* The requests that the positions at put into loop q of session s.
Joined(at, s, q) == {r \in Requests : at[r].session = s /\ at[r].seq = q}

\* An entry of the ring is complete: it counts its members, and can get no more.
Complete(e, at, loops, high) ==
  /\ e.rounds = Cardinality(Joined(at, e.session, e.seq))
  /\ e.seq <= high[e.session] /\ e.seq # loops[e.session].seq

DepthInv ==
  /\ \A i \in DOMAIN recent : Complete(recent[i], pos, open, high_water)
  /\ \A s \in Sessions : IsOpen(s) => open[s].rounds = Cardinality(Joined(pos, s, open[s].seq))

LEMMA JoinedFinite ==
  ASSUME NEW at, NEW s, NEW q
  PROVE  IsFiniteSet(Joined(at, s, q))
BY LoopTrackerAssumption, FS_Subset DEF Joined

\* The ring after a step: complete entries, and loops that just ended.
LEMMA RingComplete ==
  ASSUME TypeOK, NEW ended \in Seq(ClosedLoop), recent' = Remember(recent, ended),
         \A e \in ClosedLoop : Complete(e, pos, open, high_water) => Complete(e, pos', open', high_water'),
         \A i \in DOMAIN ended : Complete(ended[i], pos', open', high_water'),
         \A i \in DOMAIN recent : Complete(recent[i], pos, open, high_water)
  PROVE  \A i \in DOMAIN recent' : Complete(recent'[i], pos', open', high_water')
<1>1. recent \in Seq(ClosedLoop)
  BY DEF TypeOK
<1>2. \A i \in DOMAIN recent : recent[i] \in ClosedLoop
  BY <1>1, LenProperties, ElementOfSeq
<1>3. \A i \in DOMAIN recent : Complete(recent[i], pos', open', high_water')
  BY <1>2
<1>4. \A i \in DOMAIN Remember(recent, ended) :
        \/ \E j \in DOMAIN recent : Remember(recent, ended)[i] = recent[j]
        \/ \E j \in DOMAIN ended : Remember(recent, ended)[i] = ended[j]
  BY <1>1, RememberType
<1> QED
  BY <1>3, <1>4

LEMMA RingKept ==
  ASSUME TypeOK, recent' = recent,
         \A e \in ClosedLoop : Complete(e, pos, open, high_water) => Complete(e, pos', open', high_water'),
         \A i \in DOMAIN recent : Complete(recent[i], pos, open, high_water)
  PROVE  \A i \in DOMAIN recent' : Complete(recent'[i], pos', open', high_water')
<1>1. \A i \in DOMAIN recent : recent[i] \in ClosedLoop
  BY LenProperties, ElementOfSeq DEF TypeOK
<1> QED
  BY <1>1

\* An ended loop is complete, once its session is on no loop or on a later one.
LEMMA EndedComplete ==
  ASSUME TypeOK, LoopsCounted, KeysInv, DepthInv, NEW s \in Sessions, IsOpen(s),
         NEW why \in {NewTurn, Idle},
         Joined(pos', s, open[s].seq) = Joined(pos, s, open[s].seq),
         high_water'[s] \in Nat, high_water'[s] >= high_water[s], open'[s].seq # open[s].seq
  PROVE  Complete(Finalize(s, why), pos', open', high_water')
<1>1. /\ Finalize(s, why).session = s /\ Finalize(s, why).seq = open[s].seq
      /\ Finalize(s, why).rounds = open[s].rounds
  BY FinalizeType
<1>2. open[s].rounds = Cardinality(Joined(pos', s, open[s].seq))
  BY DEF DepthInv
<1>3. open[s].seq <= high_water[s] /\ high_water[s] \in Nat /\ open[s].seq \in Nat
  BY DEF KeysInv, TypeOK
<1> QED
  BY <1>1, <1>2, <1>3 DEF Complete

LEMMA DepthBegin ==
  ASSUME TypeOK, LoopsCounted, KeysInv, DepthInv, NEW r \in Requests, Begin(r)
  PROVE  DepthInv'
<1>1. PICK s \in Sessions : Starts(r, s)
  BY BeginCases
<1>2. /\ open \in [Sessions -> OpenLoop] /\ high_water \in [Sessions -> Nat]
      /\ pos \in [Requests -> {NoPos} \cup Position] /\ pos[r] = NoPos
  BY <1>1 DEF TypeOK, OpenLoop, Position, Starts
<1>3. \A q \in Requests : pos[q] # NoPos => pos[q] \in Position
  BY PositionType
<1>4. \A z \in Sessions, n \in Nat : r \notin Joined(pos, z, n)
  BY <1>2, LoopTrackerAssumption DEF Joined, NoPos
<1>5. CASE Opens(r, s)
  <2>1. PICK messages \in MessageCounts : open' = [open EXCEPT ![s] = Fresh(NextSeq(s), messages)]
    BY <1>5 DEF Opens
  <2>2. NextSeq(s) \in Nat \ {0} /\ NextSeq(s) > high_water[s]
    BY NextSeqType
  <2>3. open'[s].seq = NextSeq(s) /\ open'[s].rounds = 1
    BY <1>2, <2>1, <2>2, FreshType
  <2>4. pos'[r].session = s /\ pos'[r].seq = NextSeq(s) /\ high_water'[s] = NextSeq(s)
    BY <1>2, <1>5 DEF Opens
  <2>5. \A q \in Requests \ {r} : pos'[q] = pos[q]
    BY <1>2, <1>5 DEF Opens
  <2>6. \A z \in Sessions \ {s} : open'[z] = open[z] /\ high_water'[z] = high_water[z]
    BY <1>2, <1>5, <2>1 DEF Opens
  <2>7. \A z \in Sessions, n \in Nat : z # s \/ n # NextSeq(s) => Joined(pos', z, n) = Joined(pos, z, n)
    <3>1. ASSUME NEW z \in Sessions, NEW n \in Nat, z # s \/ n # NextSeq(s)
          PROVE  Joined(pos', z, n) = Joined(pos, z, n)
      BY <1>4, <2>4, <2>5, <3>1 DEF Joined
    <3> QED
      BY <3>1
  <2>8. Cardinality(Joined(pos', s, NextSeq(s))) = 1
    <3>1. \A q \in Requests \ {r} : ~(pos[q].session = s /\ pos[q].seq = NextSeq(s))
      <4>1. ASSUME NEW q \in Requests \ {r}, pos[q].session = s, pos[q].seq = NextSeq(s) PROVE FALSE
        <5>1. pos[q] # NoPos
          BY <4>1, LoopTrackerAssumption DEF NoPos
        <5>2. pos[q].seq <= high_water[s]
          BY <4>1, <5>1 DEF KeysInv
        <5> QED
          BY <1>2, <2>2, <4>1, <5>2
      <4> QED
        BY <4>1
    <3>2. Joined(pos', s, NextSeq(s)) = {r}
      BY <2>4, <2>5, <3>1 DEF Joined
    <3> QED
      BY <3>2, FS_Singleton
  <2>9. \A e \in ClosedLoop : Complete(e, pos, open, high_water) => Complete(e, pos', open', high_water')
    <3>1. ASSUME NEW e \in ClosedLoop, Complete(e, pos, open, high_water)
          PROVE  Complete(e, pos', open', high_water')
      <4>1. /\ e.session \in Sessions /\ e.seq \in Nat /\ high_water[e.session] \in Nat
            /\ e.seq <= high_water[e.session] /\ e.seq # open[e.session].seq
            /\ e.rounds = Cardinality(Joined(pos, e.session, e.seq))
        BY <1>2, <3>1 DEF ClosedLoop, Complete
      <4>2. e.session # s \/ e.seq # NextSeq(s)
        BY <2>2, <4>1
      <4>3. e.rounds = Cardinality(Joined(pos', e.session, e.seq))
        BY <2>7, <4>1, <4>2
      <4>4. e.seq <= high_water'[e.session] /\ e.seq # open'[e.session].seq
        BY <2>2, <2>3, <2>4, <2>6, <4>1, <4>2
      <4> QED
        BY <4>3, <4>4 DEF Complete
    <3> QED
      BY <3>1
  <2>10. \A i \in DOMAIN recent' : Complete(recent'[i], pos', open', high_water')
    <3>1. CASE recent' = recent
      BY <2>9, <3>1, RingKept DEF DepthInv
    <3>2. CASE IsOpen(s) /\ recent' = Remember(recent, <<Finalize(s, NewTurn)>>)
      <4>1. <<Finalize(s, NewTurn)>> \in Seq(ClosedLoop)
        BY <3>2, FinalizeType
      <4>2. open[s].seq \in Nat /\ open[s].seq <= high_water[s] /\ open[s].seq # NextSeq(s)
        BY <1>2, <2>2 DEF KeysInv, OpenLoop
      <4>3. Complete(Finalize(s, NewTurn), pos', open', high_water')
        BY <1>2, <2>2, <2>3, <2>4, <2>7, <3>2, <4>2, EndedComplete
      <4>4. \A i \in DOMAIN <<Finalize(s, NewTurn)>> :
              Complete(<<Finalize(s, NewTurn)>>[i], pos', open', high_water')
        BY <4>3
      <4> QED
        BY <2>9, <3>2, <4>1, <4>4, RingComplete DEF DepthInv
    <3> QED
      BY <1>5, <3>1, <3>2 DEF Opens
  <2>11. ASSUME NEW z \in Sessions, IsOpen(z)'
         PROVE  open'[z].rounds = Cardinality(Joined(pos', z, open'[z].seq))
    <3>1. CASE z = s
      BY <2>3, <2>8, <3>1
    <3>2. CASE z # s
      <4>1. open'[z] = open[z] /\ IsOpen(z) /\ open[z].seq \in Nat
        BY <1>2, <2>6, <2>11, <3>2 DEF IsOpen, OpenLoop
      <4> QED
        BY <2>7, <3>2, <4>1 DEF DepthInv
    <3> QED
      BY <3>1, <3>2
  <2> QED
    BY <2>10, <2>11 DEF DepthInv
<1>6. CASE Joins(r, s)
  <2>1. open[s] \in OpenLoop /\ open[s].seq \in Nat
    BY <1>2 DEF OpenLoop
  <2>2. open'[s].seq = open[s].seq /\ open'[s].rounds = open[s].rounds + 1
    BY <1>2, <1>6, <2>1, CountedType DEF Joins
  <2>3. pos'[r].session = s /\ pos'[r].seq = open[s].seq
    BY <1>2, <1>6 DEF Joins
  <2>4. \A q \in Requests \ {r} : pos'[q] = pos[q]
    BY <1>2, <1>6 DEF Joins
  <2>5. UNCHANGED <<high_water, recent>> /\ \A z \in Sessions \ {s} : open'[z] = open[z]
    BY <1>2, <1>6 DEF Joins
  <2>6. \A z \in Sessions, n \in Nat :
          z # s \/ n # open[s].seq => Joined(pos', z, n) = Joined(pos, z, n)
    <3>1. ASSUME NEW z \in Sessions, NEW n \in Nat, z # s \/ n # open[s].seq
          PROVE  Joined(pos', z, n) = Joined(pos, z, n)
      BY <1>4, <2>3, <2>4, <3>1 DEF Joined
    <3> QED
      BY <3>1
  <2>7. Cardinality(Joined(pos', s, open[s].seq)) = Cardinality(Joined(pos, s, open[s].seq)) + 1
    <3>1. Joined(pos', s, open[s].seq) = Joined(pos, s, open[s].seq) \cup {r}
      BY <2>3, <2>4 DEF Joined
    <3>2. r \notin Joined(pos, s, open[s].seq) /\ IsFiniteSet(Joined(pos, s, open[s].seq))
      BY <1>4, <2>1, JoinedFinite
    <3> QED
      BY <3>1, <3>2, FS_AddElement
  <2>8. \A e \in ClosedLoop : Complete(e, pos, open, high_water) => Complete(e, pos', open', high_water')
    <3>1. ASSUME NEW e \in ClosedLoop, Complete(e, pos, open, high_water)
          PROVE  Complete(e, pos', open', high_water')
      <4>1. /\ e.session \in Sessions /\ e.seq \in Nat
            /\ e.seq <= high_water[e.session] /\ e.seq # open[e.session].seq
            /\ e.rounds = Cardinality(Joined(pos, e.session, e.seq))
        BY <3>1 DEF ClosedLoop, Complete
      <4>2. e.session # s \/ e.seq # open[s].seq
        BY <4>1
      <4>3. e.rounds = Cardinality(Joined(pos', e.session, e.seq))
        BY <2>6, <4>1, <4>2
      <4>4. open'[e.session].seq = open[e.session].seq
        BY <2>2, <2>5, <4>1
      <4> QED
        BY <2>5, <4>1, <4>3, <4>4 DEF Complete
    <3> QED
      BY <3>1
  <2>9. \A i \in DOMAIN recent' : Complete(recent'[i], pos', open', high_water')
    BY <2>5, <2>8, RingKept DEF DepthInv
  <2>10. ASSUME NEW z \in Sessions, IsOpen(z)'
         PROVE  open'[z].rounds = Cardinality(Joined(pos', z, open'[z].seq))
    <3>1. CASE z = s
      BY <1>6, <2>2, <2>7, <3>1 DEF Joins, DepthInv
    <3>2. CASE z # s
      <4>1. open'[z] = open[z] /\ IsOpen(z) /\ open[z].seq \in Nat
        BY <1>2, <2>5, <2>10, <3>2 DEF IsOpen, OpenLoop
      <4> QED
        BY <2>6, <3>2, <4>1 DEF DepthInv
    <3> QED
      BY <3>1, <3>2
  <2> QED
    BY <2>9, <2>10 DEF DepthInv
<1> QED
  BY <1>1, <1>5, <1>6 DEF Starts

\* Elsewhere no request joins anything, and only the sweeper ends loops.
LEMMA DepthElse ==
  ASSUME TypeOK, LoopsCounted, KeysInv, DepthInv,
         (\E r \in Requests : Handle(r)) \/ sweep \/ Tick \/ UNCHANGED vars
  PROVE  DepthInv'
<1>1. /\ pos' = pos /\ high_water' = high_water
      /\ \A s \in Sessions : \/ open'[s].seq = open[s].seq /\ open'[s].rounds = open[s].rounds
                             \/ open'[s].seq = 0
  BY LoopsGoOn
<1>2. \A e \in ClosedLoop : Complete(e, pos, open, high_water) => Complete(e, pos', open', high_water')
  BY <1>1 DEF ClosedLoop, Complete
<1>3. \A i \in DOMAIN recent' : Complete(recent'[i], pos', open', high_water')
  <2>1. CASE sweep
    <3>1. PICK order \in SweepOrders :
            recent' = Remember(recent, [i \in 1 .. Cardinality(Silent) |-> Finalize(order[i], Idle)])
      BY <2>1 DEF sweep
    <3> DEFINE ended == [i \in 1 .. Cardinality(Silent) |-> Finalize(order[i], Idle)]
    <3>2. Cardinality(Silent) \in Nat
      BY LoopTrackerAssumption, FS_Subset, FS_CardinalityType DEF Silent
    <3>3. ASSUME NEW i \in 1 .. Cardinality(Silent)
          PROVE  /\ Finalize(order[i], Idle) \in ClosedLoop
                 /\ Complete(Finalize(order[i], Idle), pos', open', high_water')
      <4>1. order[i] \in Sessions /\ IsOpen(order[i]) /\ order[i] \in Silent
        BY <3>3 DEF SweepOrders, Silent
      <4>2. open'[order[i]].seq = 0 /\ open[order[i]].seq # 0
        BY <2>1, <4>1 DEF sweep, NoLoop, IsOpen
      <4>3. high_water[order[i]] \in Nat
        BY <4>1 DEF TypeOK
      <4> QED
        BY <1>1, <4>1, <4>2, <4>3, FinalizeType, EndedComplete
    <3>4. ended \in Seq(ClosedLoop)
      BY <3>2, <3>3
    <3>5. \A i \in DOMAIN ended : Complete(ended[i], pos', open', high_water')
      BY <3>3
    <3> QED
      BY <1>2, <3>1, <3>4, <3>5, RingComplete DEF DepthInv
  <2>2. CASE ~sweep
    <3>1. recent' = recent
      BY <2>2 DEF Handle, attempt_started, attempt_finished, record_round, Tick, vars
    <3> QED
      BY <1>2, <3>1, RingKept DEF DepthInv
  <2> QED
    BY <2>1, <2>2
<1>4. \A s \in Sessions : IsOpen(s)' => open'[s].rounds = Cardinality(Joined(pos', s, open'[s].seq))
  BY <1>1 DEF DepthInv, IsOpen
<1> QED
  BY <1>3, <1>4 DEF DepthInv

\* A closed loop's depth counts every request that was told it belongs to it.
THEOREM DepthIsExact == Spec => []DepthCountsEveryRound
<1> DEFINE DInv == TypeOK /\ LoopsCounted /\ KeysInv /\ DepthInv
<1>1. Init => DInv
  <2> SUFFICES ASSUME Init PROVE DInv
    OBVIOUS
  <2>1. recent = << >> /\ \A s \in Sessions : ~IsOpen(s)
    BY DEF Init, IsOpen, NoLoop
  <2> QED
    BY <2>1, TypeInit DEF Init, KeysInv, RoundKeysUnique, NoLoop, DepthInv
<1>2. DInv /\ [Next]_vars => DInv'
  <2> SUFFICES ASSUME DInv, [Next]_vars PROVE DInv'
    OBVIOUS
  <2>1. DepthInv'
    BY DepthBegin, DepthElse DEF Next
  <2> QED
    BY <2>1, TypeNext, KeysStep
<1>3. DInv => DepthCountsEveryRound
  BY DEF DepthInv, Complete, Joined, DepthCountsEveryRound
<1> QED
  BY <1>1, <1>2, <1>3, PTL DEF Spec

-----------------------------------------------------------------------------
(* The attempt counter.                                                     *)

\* A step that moves one request of session s into or out of its attempt.
LEMMA CounterMoves ==
  ASSUME NEW A, NEW r, IsFiniteSet(A)
  PROVE  /\ Cardinality(A) \in Nat
         /\ r \notin A => Cardinality(A \cup {r}) = Cardinality(A) + 1
         /\ r \in A => Cardinality(A \ {r}) = Cardinality(A) - 1
BY FS_CardinalityType, FS_AddElement, FS_RemoveElement

LEMMA CounterStep ==
  ASSUME TypeOK, LoopsCounted, CounterNeverLeaks, [Next]_vars
  PROVE  CounterNeverLeaks'
<1>1. /\ open \in [Sessions -> OpenLoop] /\ pc \in [Requests -> Pcs]
      /\ \A r \in Requests : pc[r] # "unsent" => pos[r].session \in Sessions
  BY DEF TypeOK, OpenLoop
<1>2. \A s \in Sessions : open[s].inFlight \in Nat /\ open[s].inFlight <= Cardinality(Attempting(s))
  BY <1>1 DEF OpenLoop, CounterNeverLeaks
<1>3. \A s \in Sessions : IsFiniteSet(Attempting(s)) /\ Cardinality(Attempting(s)) \in Nat
  BY LoopTrackerAssumption, FS_Subset, FS_CardinalityType DEF Attempting
<1>4. ASSUME NEW r \in Requests, Begin(r) PROVE CounterNeverLeaks'
  <2>1. PICK s \in Sessions : Starts(r, s)
    BY <1>4, BeginCases
  <2>2. \A q \in Requests \ {r} : pos'[q] = pos[q] /\ pc'[q] = pc[q]
    BY <1>1, <2>1 DEF Starts, Opens, Joins, TypeOK
  <2>3. pc[r] = "unsent" /\ pc'[r] = "begun"
    BY <1>1, <2>1 DEF Starts
  <2>4. \A z \in Sessions : Attempting(z)' = Attempting(z)
    BY <2>2, <2>3 DEF Attempting
  <2>5. \A z \in Sessions : open'[z].inFlight \in {0, open[z].inFlight}
    <3>1. CASE Opens(r, s)
      <4>1. PICK messages \in MessageCounts : open' = [open EXCEPT ![s] = Fresh(NextSeq(s), messages)]
        BY <3>1 DEF Opens
      <4>2. Fresh(NextSeq(s), messages).inFlight = 0
        BY NextSeqType, FreshType
      <4> QED
        BY <1>1, <4>1, <4>2
    <3>2. CASE Joins(r, s)
      <4>1. Counted(open[s]).inFlight = open[s].inFlight
        BY <1>1, CountedType
      <4> QED
        BY <1>1, <3>2, <4>1 DEF Joins
    <3> QED
      BY <2>1, <3>1, <3>2 DEF Starts
  <2> QED
    BY <1>2, <1>3, <2>4, <2>5 DEF CounterNeverLeaks
<1>5. ASSUME NEW r \in Requests, attempt_started(r) PROVE CounterNeverLeaks'
  <2>0. PICK s \in Sessions : s = pos[r].session
    BY <1>1, <1>5 DEF attempt_started
  <2>1. pc[r] = "begun" /\ pc' = [pc EXCEPT ![r] = "attempting"] /\ pos' = pos /\ s \in Sessions
    BY <1>1, <1>5, <2>0 DEF attempt_started
  <2>2. /\ Attempting(s)' = Attempting(s) \cup {r} /\ r \notin Attempting(s)
        /\ \A z \in Sessions \ {s} : Attempting(z)' = Attempting(z)
    BY <1>1, <2>0, <2>1 DEF Attempting
  <2>3. Cardinality(Attempting(s)') = Cardinality(Attempting(s)) + 1
    BY <1>3, <2>1, <2>2, CounterMoves
  <2>4. /\ open'[s].inFlight \in {open[s].inFlight, open[s].inFlight + 1}
        /\ \A z \in Sessions \ {s} : open'[z] = open[z]
    BY <1>1, <1>5, <2>0, <2>1 DEF attempt_started, OpenLoop
  <2>5. ASSUME NEW z \in Sessions PROVE open'[z].inFlight <= Cardinality(Attempting(z)')
    <3>1. CASE z = s
      <4>1. open'[s].inFlight <= Cardinality(Attempting(s)')
        BY <1>2, <1>3, <2>1, <2>3, <2>4
      <4> QED
        BY <3>1, <4>1
    <3>2. CASE z # s
      BY <1>2, <2>2, <2>4, <3>2
    <3> QED
      BY <3>1, <3>2
  <2> QED
    BY <2>5 DEF CounterNeverLeaks
<1>6. ASSUME NEW r \in Requests, NEW streaming \in BOOLEAN, attempt_finished(r, streaming)
      PROVE  CounterNeverLeaks'
  <2>0. PICK s \in Sessions : s = pos[r].session
    BY <1>1, <1>6 DEF attempt_finished
  <2>1. /\ pc[r] = "attempting" /\ pos' = pos /\ s \in Sessions
        /\ pc'[r] # "attempting" /\ \A q \in Requests \ {r} : pc'[q] = pc[q]
    BY <1>1, <1>6, <2>0 DEF attempt_finished
  <2>2. /\ Attempting(s)' = Attempting(s) \ {r} /\ r \in Attempting(s)
        /\ \A z \in Sessions \ {s} : Attempting(z)' = Attempting(z)
    BY <2>0, <2>1 DEF Attempting
  <2>3. Cardinality(Attempting(s)') = Cardinality(Attempting(s)) - 1
    BY <1>3, <2>1, <2>2, CounterMoves
  <2>4. \A z \in Sessions \ {s} : open'[z] = open[z]
    BY <1>1, <1>6, <2>0 DEF attempt_finished
  <2>5. open'[s].inFlight = IF open[s].inFlight > 0 THEN open[s].inFlight - 1 ELSE 0
    <3>1. CASE IsOpen(s) /\ open[s].inFlight > 0
      BY <1>1, <1>6, <2>0, <2>1, <3>1 DEF attempt_finished, OpenLoop
    <3>2. CASE ~(IsOpen(s) /\ open[s].inFlight > 0)
      <4>1. open' = open
        BY <1>6, <2>0, <3>2 DEF attempt_finished
      <4>2. open[s].inFlight = 0
        BY <1>2, <2>1, <3>2 DEF LoopsCounted
      <4> QED
        BY <4>1, <4>2
    <3> QED
      BY <3>1, <3>2
  <2>6. Cardinality(Attempting(s)) >= 1
    BY <1>3, <2>1, <2>2, FS_EmptySet
  <2>7. ASSUME NEW z \in Sessions PROVE open'[z].inFlight <= Cardinality(Attempting(z)')
    <3>1. CASE z = s
      <4>1. open'[s].inFlight <= Cardinality(Attempting(s)')
        BY <1>2, <1>3, <2>1, <2>3, <2>5, <2>6
      <4> QED
        BY <3>1, <4>1
    <3>2. CASE z # s
      BY <1>2, <2>2, <2>4, <3>2
    <3> QED
      BY <3>1, <3>2
  <2> QED
    BY <2>7 DEF CounterNeverLeaks
<1>7. ASSUME NEW r \in Requests, record_round(r) PROVE CounterNeverLeaks'
  <2>1. \A s \in Sessions : Attempting(s)' = Attempting(s)
    BY <1>1, <1>7 DEF record_round, Attempting
  <2>2. \A s \in Sessions : open'[s].inFlight = open[s].inFlight
    BY <1>1, <1>7 DEF record_round, OpenLoop
  <2> QED
    BY <2>1, <2>2 DEF CounterNeverLeaks
<1>8. CASE sweep
  <2>1. \A s \in Sessions : Attempting(s)' = Attempting(s) /\ open'[s].inFlight \in {0, open[s].inFlight}
    BY <1>8 DEF sweep, Attempting, NoLoop
  <2> QED
    BY <1>2, <1>3, <2>1 DEF CounterNeverLeaks
<1>9. CASE Tick
  <2>1. ASSUME NEW s \in Sessions PROVE open'[s].inFlight \in {0, open[s].inFlight}
    BY <1>1, <1>9 DEF Tick, NoLoop, OpenLoop
  <2>2. \A s \in Sessions : Attempting(s)' = Attempting(s)
    BY <1>9 DEF Tick, Attempting
  <2> QED
    BY <1>2, <1>3, <2>1, <2>2 DEF CounterNeverLeaks
<1>10. CASE UNCHANGED vars
  BY <1>10 DEF vars, CounterNeverLeaks, Attempting
<1> QED
  BY <1>4, <1>5, <1>6, <1>7, <1>8, <1>9, <1>10 DEF Next, Handle

\* No interleaving of requests, sweeps and new turns leaves a loop with more
\* attempts on its counter than are running.
THEOREM CounterSafe == Spec => []CounterNeverLeaks
<1>1. Init => TypeOK /\ LoopsCounted /\ CounterNeverLeaks
  <2> SUFFICES ASSUME Init PROVE CounterNeverLeaks
    BY TypeInit
  <2>1. \A s \in Sessions : open[s].inFlight = 0 /\ Attempting(s) = {}
    BY DEF Init, NoLoop, Attempting
  <2> QED
    BY <2>1, FS_EmptySet DEF CounterNeverLeaks
<1>2. TypeOK /\ LoopsCounted /\ CounterNeverLeaks /\ [Next]_vars
        => (TypeOK /\ LoopsCounted /\ CounterNeverLeaks)'
  BY TypeNext, CounterStep
<1> QED
  BY <1>1, <1>2, PTL DEF Spec
=============================================================================
