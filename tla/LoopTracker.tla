----------------------------- MODULE LoopTracker -----------------------------
(***************************************************************************)
(* The registry that groups requests into agent loops                      *)
(* (nimaproxy/src/loop_tracker.rs), the handlers that call it              *)
(* (chat_completions in proxy/chat.rs, log_turn_completion in              *)
(* proxy/http.rs) and the sweeper thread (lib.rs).                         *)
(*                                                                         *)
(* Each call of the registry holds the session map's mutex from start to   *)
(* end, so each is one step; a request makes several calls, and other      *)
(* requests and the sweeper run in between.  The summed fields of a loop   *)
(* (model time, tool calls, error rounds, finish reason) are left out.     *)
(*                                                                         *)
(* Clock readings are kept as ages, capped at the idle timeout: the        *)
(* registry only ever asks whether that much time has passed.              *)
(***************************************************************************)
EXTENDS Integers, Sequences, FiniteSets

CONSTANTS
  Sessions,             \* session ids, numbered in the order they sort
  Requests,             \* request ids; each is one call of chat_completions
  MessageCounts,        \* lengths a conversation may have
  IdleTimeout,          \* in ticks
  RecentLoopCapacity    \* RECENT_LOOP_CAPACITY, 512 in the code

ASSUME LoopTrackerAssumption ==
  /\ IsFiniteSet(Requests)
  /\ IsFiniteSet(Sessions) /\ Sessions \subseteq Nat
  /\ MessageCounts \subseteq Nat
  /\ IdleTimeout \in Nat \ {0}
  /\ RecentLoopCapacity \in Nat \ {0}

VARIABLES
  known,          \* per session: it has an entry in the map
  loop_seq,       \* per session: SessionState.loop_seq; 0 without an entry
  open,           \* per session: the open loop, or NoLoop
  touched,        \* per session: age of last_touched
  high_water,     \* per session: the tombstone, kept past eviction
  recent,         \* the ring of finalized loops, oldest first
  pc,             \* per request: where its handler or its stream is
  pos             \* per request: its LoopPosition

vars == <<known, loop_seq, open, touched, high_water, recent, pc, pos>>

NewTurn == "new_turn"
Idle    == "idle"
Pcs     == {"unsent", "begun", "attempting", "streaming", "done"}

NoLoop  == [seq |-> 0, openedAt |-> 0, seen |-> 0, rounds |-> 0, completed |-> 0, inFlight |-> 0]
NoPos   == [session |-> -1, seq |-> 0, round |-> 0]

IsOpen(s)   == open[s].seq # 0
Older(age)  == IF age < IdleTimeout THEN age + 1 ELSE age
IsIdle(age) == age >= IdleTimeout

\* Requests of a session whose handler has not returned.
Attempting(s) == {r \in Requests : pc[r] = "attempting" /\ pos[r].session = s}

Init ==
  /\ known = [s \in Sessions |-> FALSE]
  /\ loop_seq = [s \in Sessions |-> 0]
  /\ open = [s \in Sessions |-> NoLoop]
  /\ touched = [s \in Sessions |-> 0]
  /\ high_water = [s \in Sessions |-> 0]
  /\ recent = << >>
  /\ pc = [r \in Requests |-> "unsent"]
  /\ pos = [r \in Requests |-> NoPos]

-----------------------------------------------------------------------------
Finalize(s, why) ==
  [session |-> s, seq |-> open[s].seq, rounds |-> open[s].rounds,
   completed |-> open[s].completed, endedBy |-> why]

\* Mutant: the ring never drops a loop.
RememberAll(ring, ended) == ring \o ended

\* The ring keeps the newest loops: it drops its oldest entries when it is full.
Remember(ring, ended) ==
  LET all == ring \o ended
  IN  SubSeq(all, 1 + (IF Len(all) > RecentLoopCapacity
                       THEN Len(all) - RecentLoopCapacity ELSE 0), Len(all))

\* A trailing user message opens a turn, unless the request repeats the one
\* that opened the loop: nothing completed yet, and as many messages.
StartsNewTurn(s, trailingUser, messages, force) ==
  \/ force
  \/ /\ trailingUser
     /\ IsOpen(s)
     /\ open[s].completed > 0 \/ messages # open[s].openedAt

\* Mutant: the tombstone is not consulted.
NextSeqForgetful(s) == loop_seq[s] + 1

\* A new loop number is above the tombstone and above the entry's own.
NextSeq(s) == (IF high_water[s] >= loop_seq[s] THEN high_water[s] ELSE loop_seq[s]) + 1

\* Mutant: a request that repeats a loop's unreported rounds is not a new round.
CountedUnlessRepeated(l) ==
  [l EXCEPT !.rounds = IF l.rounds > 0 /\ l.completed = 0 THEN @ ELSE @ + 1, !.seen = 0]

\* A round is counted when its request begins, not when it reports.
Counted(l) == [l EXCEPT !.rounds = @ + 1, !.seen = 0]

begin(r, s, trailingUser, messages, force) ==
  LET ends  == IsOpen(s) /\ StartsNewTurn(s, trailingUser, messages, force)
      fresh == ends \/ ~IsOpen(s)
      seq   == IF fresh THEN NextSeq(s) ELSE open[s].seq
      joined == IF fresh THEN [NoLoop EXCEPT !.seq = seq, !.openedAt = messages]
                         ELSE open[s]
  IN  /\ pc[r] = "unsent"
      /\ known' = [known EXCEPT ![s] = TRUE]
      /\ recent' = IF ends THEN Remember(recent, <<Finalize(s, NewTurn)>>) ELSE recent
      /\ high_water' = IF fresh THEN [high_water EXCEPT ![s] = seq] ELSE high_water
      /\ loop_seq' = IF fresh THEN [loop_seq EXCEPT ![s] = seq] ELSE loop_seq
      /\ open' = [open EXCEPT ![s] = Counted(joined)]
      /\ touched' = [touched EXCEPT ![s] = 0]
      /\ pos' = [pos EXCEPT ![r] = [session |-> s, seq |-> seq, round |-> Counted(joined).rounds]]
      /\ pc' = [pc EXCEPT ![r] = "begun"]

\* Called with the session id alone: it marks whatever loop is open by now.
attempt_started(r) ==
  LET s == pos[r].session
  IN  /\ pc[r] = "begun"
      /\ open' = IF IsOpen(s) THEN [open EXCEPT ![s].inFlight = @ + 1] ELSE open
      /\ pc' = [pc EXCEPT ![r] = "attempting"]
      /\ UNCHANGED <<known, loop_seq, touched, high_water, recent, pos>>

\* Mutant: the counter is released on the success path only.
attempt_finished_leaky(r, streaming) ==
  LET s == pos[r].session
  IN  /\ pc[r] = "attempting"
      /\ open' = IF streaming /\ IsOpen(s) /\ open[s].inFlight > 0
                 THEN [open EXCEPT ![s].inFlight = @ - 1]
                 ELSE open
      /\ pc' = [pc EXCEPT ![r] = IF streaming THEN "streaming" ELSE "done"]
      /\ UNCHANGED <<known, loop_seq, touched, high_water, recent, pos>>

\* The handler returns: the guard drops.  A streaming response has only just
\* sent its first byte and goes on; any other request is over and reports no
\* round.
attempt_finished(r, streaming) ==
  LET s == pos[r].session
  IN  /\ pc[r] = "attempting"
      /\ open' = IF IsOpen(s) /\ open[s].inFlight > 0
                 THEN [open EXCEPT ![s].inFlight = @ - 1]
                 ELSE open
      /\ pc' = [pc EXCEPT ![r] = IF streaming THEN "streaming" ELSE "done"]
      /\ UNCHANGED <<known, loop_seq, touched, high_water, recent, pos>>

\* The stream's watcher task reports the round, again by session id alone.
record_round(r) ==
  LET s == pos[r].session
  IN  /\ pc[r] = "streaming"
      /\ IF IsOpen(s)
         THEN /\ open' = [open EXCEPT ![s].completed = @ + 1, ![s].seen = 0]
              /\ touched' = [touched EXCEPT ![s] = 0]
         ELSE UNCHANGED <<open, touched>>
      /\ pc' = [pc EXCEPT ![r] = "done"]
      /\ UNCHANGED <<known, loop_seq, high_water, recent, pos>>

-----------------------------------------------------------------------------
\* The loops a sweep closes, and the sessions it then forgets.
Silent    == {s \in Sessions : IsOpen(s) /\ open[s].inFlight = 0 /\ IsIdle(open[s].seen)}
Abandoned == {s \in Sessions : /\ known[s]
                               /\ IsOpen(s) => s \in Silent
                               /\ IsIdle(touched[s])}

\* The closed loops join the ring in the order of their session ids: there is
\* one such order.
SweepOrders ==
  {order \in [1 .. Cardinality(Silent) -> Silent] :
     \A i, j \in DOMAIN order : i < j => order[i] < order[j]}

sweep ==
  /\ Silent # {} \/ Abandoned # {}
  /\ \E order \in SweepOrders :
       recent' = Remember(recent, [i \in 1 .. Cardinality(Silent) |-> Finalize(order[i], Idle)])
  /\ open' = [s \in Sessions |-> IF s \in Silent THEN NoLoop ELSE open[s]]
  /\ known' = [s \in Sessions |-> known[s] /\ s \notin Abandoned]
  /\ loop_seq' = [s \in Sessions |-> IF s \in Abandoned THEN 0 ELSE loop_seq[s]]
  /\ touched' = [s \in Sessions |-> IF s \in Abandoned THEN 0 ELSE touched[s]]
  /\ UNCHANGED <<high_water, pc, pos>>

\* Time passes, but not between a request's begin and its attempt_started: they
\* are two statements in a row.
Tick ==
  /\ \A r \in Requests : pc[r] # "begun"
  /\ \E s \in Sessions : known[s] /\ (~IsIdle(touched[s]) \/ (IsOpen(s) /\ ~IsIdle(open[s].seen)))
  /\ touched' = [s \in Sessions |-> IF known[s] THEN Older(touched[s]) ELSE 0]
  /\ open' = [s \in Sessions |-> IF IsOpen(s) THEN [open[s] EXCEPT !.seen = Older(@)] ELSE NoLoop]
  /\ UNCHANGED <<known, loop_seq, high_water, recent, pc, pos>>

-----------------------------------------------------------------------------
Begin(r) ==
  \E s \in Sessions, trailingUser \in BOOLEAN, messages \in MessageCounts, force \in BOOLEAN :
    begin(r, s, trailingUser, messages, force)

\* What a request that was sent does until it is over.
Handle(r) ==
  \/ attempt_started(r)
  \/ \E streaming \in BOOLEAN : attempt_finished(r, streaming)
  \/ record_round(r)

Next == (\E r \in Requests : Begin(r) \/ Handle(r)) \/ sweep \/ Tick

Spec == Init /\ [][Next]_vars

\* A handler returns (ChatRequest: unless the body of a 401 or 403 never ends),
\* a stream is reported within its watcher's deadline, the sweeper thread wakes
\* up for ever, and time passes.  No client has to send anything.
FairSpec == /\ Spec
            /\ \A r \in Requests : WF_vars(Handle(r))
            /\ WF_vars(sweep)
            /\ WF_vars(Tick)

-----------------------------------------------------------------------------
ClosedLoop == [ session : Sessions, seq : Nat \ {0}, rounds : Nat \ {0}, completed : Nat,
                endedBy : {NewTurn, Idle} ]

TypeOK ==
  /\ known \in [Sessions -> BOOLEAN]
  /\ loop_seq \in [Sessions -> Nat]
  /\ open \in [Sessions -> [ seq : Nat, openedAt : Nat, seen : 0 .. IdleTimeout, rounds : Nat,
                             completed : Nat, inFlight : Nat ]]
  /\ touched \in [Sessions -> 0 .. IdleTimeout]
  /\ high_water \in [Sessions -> Nat]
  /\ recent \in Seq(ClosedLoop)
  /\ Len(recent) <= RecentLoopCapacity
  /\ pc \in [Requests -> Pcs]
  /\ pos \in [Requests -> {NoPos} \cup [session : Sessions, seq : Nat \ {0}, round : Nat \ {0}]]
  /\ \A r \in Requests : pos[r] = NoPos <=> pc[r] = "unsent"

\* The join key of the turn log, (session, loop, round), names one request for
\* ever: not even a session that was forgotten and came back repeats one.
RoundKeysUnique ==
  \A q, r \in Requests : q # r /\ pos[q] # NoPos => pos[q] # pos[r]

\* The depth a closed loop reports is the number of requests that were told
\* they belong to it, those that failed or never reported included.
DepthCountsEveryRound ==
  \A i \in DOMAIN recent :
    recent[i].rounds = Cardinality({r \in Requests : /\ pos[r].session = recent[i].session
                                                     /\ pos[r].seq = recent[i].seq})

\* The attempt counter of a loop never exceeds the attempts that are really
\* running: one that leaked would keep the sweeper away for ever.
CounterNeverLeaks ==
  \A s \in Sessions : open[s].inFlight <= Cardinality(Attempting(s))

\* The map does not grow for ever: a session whose clients fall silent is
\* swept, its last loop summarised, and forgotten.
SessionsForgotten == \A s \in Sessions : known[s] ~> ~known[s]
=============================================================================
