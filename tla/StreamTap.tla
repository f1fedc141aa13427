------------------------------ MODULE StreamTap ------------------------------
(***************************************************************************)
(* A streamed response: the upstream's bytes pass the idle guard           *)
(* (streaming.rs) and the tap (sse_tap.rs) on their way to the client, and *)
(* a detached task writes the completion record once the tap is finalized  *)
(* or the task has waited long enough (chat.rs, http.rs).                  *)
(*                                                                         *)
(* The upstream's text is a sequence of lines, a line a few symbols and a  *)
(* newline; chunks are cut anywhere.  A cut inside a line that holds a     *)
(* character of several bytes leaves two chunks that are not UTF-8.  There *)
(* is no clock: a guard that waits may fire, a task that waits may give up.*)
(***************************************************************************)
EXTENDS Integers, Sequences, FiniteSets, FiniteSetsExt, SequencesExt

CONSTANTS
  MaxLines,          \* bound on the lines of the upstream's text
  MaxPartialLine     \* MAX_PARTIAL_LINE, in symbols

ASSUME StreamTapAssumption == MaxLines \in Nat \ {0} /\ MaxPartialLine \in Nat \ {0}

VARIABLES
  text,        \* the symbols the upstream means to send
  sent,        \* how many of them were forwarded to the client
  cut,         \* the last chunk ended inside a character
  partial,     \* the tap's trailing partial line
  tap,         \* the facts the tap counted
  dropped,     \* the tap let symbols pass it could not read
  body,        \* where the body is between two polls
  end,         \* ended_by
  finalized,
  client,      \* what the client has seen of the end
  watcher,     \* the task that writes the record
  record       \* the completion record, or NoRecord

vars == <<text, sent, cut, partial, tap, dropped, body, end, finalized, client, watcher, record>>

LowerOf(a, b) == IF a < b THEN a ELSE b

-----------------------------------------------------------------------------
(* Lines *)

\* A line of content, of content with a wide character, of content longer than
\* the partial buffer, a fragment of the one indexed tool call, a fragment with
\* neither index nor id, two finish reasons, and data: [DONE].
Kinds == {"content", "wide", "long", "tool", "anon", "stop", "length", "done"}

Contents == {"content", "wide", "long"}
Finishes == {"stop", "length"}

NL == [kind |-> "nl", part |-> 0]
Parts(kind) == IF kind = "long" THEN MaxPartialLine + 1 ELSE 2
Line(kind)  == [i \in 1 .. Parts(kind) |-> [kind |-> kind, part |-> i]]
Text(kinds) == FlattenSeq([i \in DOMAIN kinds |-> Append(Line(kinds[i]), NL)])

\* [DONE] comes last, if at all.
Scripts ==
  {kinds \in UNION {[1 .. n -> Kinds] : n \in 1 .. MaxLines} :
     \A i \in DOMAIN kinds : kinds[i] = "done" => i = Len(kinds)}

NoFacts == [content |-> 0, keys |-> {}, anon |-> 0, finish |-> "none", done |-> FALSE]

\* tool_call_key: the index joins fragments; what cannot be joined is a call
\* of its own.
ToolCallKey(facts, kind) == IF kind = "tool" THEN <<"index", 0>> ELSE <<"anon", facts.anon>>

\* observe_line and observe_data_frame.
ObserveKind(facts, kind) ==
  CASE kind \in Contents -> [facts EXCEPT !.content = @ + 1]
    [] kind = "tool"     -> [facts EXCEPT !.keys = @ \cup {ToolCallKey(facts, kind)}]
    [] kind = "anon"     -> [facts EXCEPT !.keys = @ \cup {ToolCallKey(facts, kind)},
                                          !.anon = @ + 1]
    [] kind \in Finishes -> [facts EXCEPT !.finish = kind]
    [] kind = "done"     -> [facts EXCEPT !.done = TRUE]

\* A line that is not whole is no frame, or no JSON.
ObserveLine(facts, line) ==
  IF \E kind \in Kinds : line = Line(kind)
  THEN ObserveKind(facts, line[1].kind)
  ELSE facts

\* The complete lines of a sequence of symbols, and what follows the last.
LastNL(s) == SelectLastInSubSeq(s, 1, Len(s), LAMBDA c : c = NL)
Complete(s) == SubSeq(s, 1, LastNL(s))
Rest(s) == SubSeq(s, LastNL(s) + 1, Len(s))

\* Walk the complete lines: the symbols since the last newline, and the facts.
ScanSymbol(acc, c) ==
  IF c = NL THEN [line |-> <<>>, facts |-> ObserveLine(acc.facts, acc.line)]
  ELSE [acc EXCEPT !.line = Append(@, c)]

Scan(facts, s) == FoldLeft(ScanSymbol, [line |-> <<>>, facts |-> facts], s).facts

-----------------------------------------------------------------------------
(* The tap *)

Utf8(chunk, cutAfter) == ~cut /\ ~cutAfter

\* Mutant: a partial line does not outlive its chunk.
ObserveForgetful(chunk, cutAfter) ==
  /\ tap' = IF Utf8(chunk, cutAfter) THEN Scan(tap, Complete(chunk)) ELSE tap
  /\ partial' = <<>>
  /\ dropped' = (dropped \/ ~Utf8(chunk, cutAfter))

\* Mutant: the partial line is never given up.
ObserveUnbounded(chunk, cutAfter) ==
  IF ~Utf8(chunk, cutAfter)
  THEN dropped' = TRUE /\ UNCHANGED <<tap, partial>>
  ELSE /\ tap' = Scan(tap, Complete(partial \o chunk))
       /\ partial' = Rest(partial \o chunk)
       /\ UNCHANGED dropped

\* A chunk that is not UTF-8 teaches the tap nothing and leaves the partial
\* line as it was; a partial line grown past the bound is dropped.
Observe(chunk, cutAfter) ==
  IF ~Utf8(chunk, cutAfter)
  THEN dropped' = TRUE /\ UNCHANGED <<tap, partial>>
  ELSE LET all  == partial \o chunk
           rest == Rest(all)
       IN  /\ tap' = Scan(tap, Complete(all))
           /\ partial' = IF Len(rest) > MaxPartialLine THEN <<>> ELSE rest
           /\ dropped' = (dropped \/ Len(rest) > MaxPartialLine)

-----------------------------------------------------------------------------
(* The body: polled by the server, which may also drop it *)

Ends == {"clean", "guard_stall", "upstream_error"}

NoRecord == [mode |-> "none", clean |-> FALSE, end |-> "clean", calls |-> 0, late |-> FALSE]

Init ==
  /\ \E kinds \in Scripts : text = Text(kinds)
  /\ sent = 0 /\ cut = FALSE
  /\ partial = <<>> /\ tap = NoFacts /\ dropped = FALSE
  /\ body = "unpolled" /\ end = "clean" /\ finalized = FALSE
  /\ client = "reading" /\ watcher = "waits" /\ record = NoRecord

textFrame == <<text, sent, cut, partial, tap, dropped>>

\* The guard's timer starts when the body is polled for the next chunk.
Poll ==
  /\ body = "unpolled" /\ body' = "waiting"
  /\ UNCHANGED <<textFrame, end, finalized, client, watcher, record>>

\* The next n symbols arrive, are observed and forwarded.
Chunk(n) ==
  /\ body = "waiting" /\ sent + n <= Len(text)
  /\ LET chunk    == SubSeq(text, sent + 1, sent + n)
         last     == text[sent + n]
         cutAfter == last.kind = "wide" /\ last.part = 1
     IN  Observe(chunk, cutAfter) /\ cut' = cutAfter
  /\ sent' = sent + n /\ body' = "unpolled"
  /\ UNCHANGED <<text, end, finalized, client, watcher, record>>

\* record_end: the first reading other than clean stays.
RecordEnd(e) == end' = IF end = "clean" THEN e ELSE end

\* Mutant: only the end the upstream chose is noted.
EndSeenUnrecorded(e) ==
  /\ body = "waiting" /\ body' = e
  /\ UNCHANGED <<textFrame, end, finalized, client, watcher, record>>

\* The poll meets the end of the stream: the guard fires, the connection
\* breaks, or the upstream closes it, having sent its text or not.
EndSeen(e) ==
  /\ body = "waiting" /\ body' = e
  /\ RecordEnd(e)
  /\ UNCHANGED <<textFrame, finalized, client, watcher, record>>

\* What the client is given last: an abort, or an end of stream, behind an
\* error frame when the tap saw no [DONE].
Finalize ==
  /\ body \in Ends
  /\ finalized' = TRUE
  /\ client' = IF body # "clean" THEN "aborted"
               ELSE IF tap.done THEN "complete" ELSE "error_frame"
  /\ body' = "ended"
  /\ UNCHANGED <<textFrame, end, watcher, record>>

\* The client went away: the server drops the body.
Dropped ==
  /\ body \in {"unpolled", "waiting"}
  /\ finalized' = TRUE /\ client' = "gone" /\ body' = "ended"
  /\ UNCHANGED <<textFrame, end, watcher, record>>

-----------------------------------------------------------------------------
(* The task that writes the record *)

\* The name of the turn, most severe first.
Classify(finish, content, clean) ==
  CASE ~clean                           -> "truncated_stream"
    [] clean /\ finish = "stop" /\ content = 0 -> "empty_completion"
    [] clean /\ finish = "length"       -> "length_cutoff"
    [] clean /\ finish = "none"         -> "missing_finish_reason"
    [] OTHER                            -> "clean_stop"

\* Mutant: the task waits for the end, however long.
WakeWhenFinalized ==
  /\ watcher = "waits" /\ finalized
  /\ watcher' = "ended"
  /\ UNCHANGED <<textFrame, body, end, finalized, client, record>>

\* The task sees the tap finalized, or gives up waiting for that.
Wake ==
  /\ watcher = "waits"
  /\ watcher' = IF finalized THEN "ended" ELSE "late"
  /\ UNCHANGED <<textFrame, body, end, finalized, client, record>>

\* Mutant: the last finish reason decides whether the turn succeeded.
WriteByFinish ==
  /\ watcher \in {"ended", "late"} /\ watcher' = "done"
  /\ LET clean == tap.done \/ tap.finish = "stop"
     IN  record' = [mode |-> Classify(tap.finish, tap.content, clean), clean |-> clean,
                    end |-> end, calls |-> Cardinality(tap.keys), late |-> watcher = "late"]
  /\ UNCHANGED <<textFrame, body, end, finalized, client>>

\* The record is made of the outcome at that moment, and logged.
Write ==
  /\ watcher \in {"ended", "late"} /\ watcher' = "done"
  /\ record' = [mode  |-> Classify(tap.finish, tap.content, tap.done),
                clean |-> tap.done,
                end   |-> end,
                calls |-> Cardinality(tap.keys),
                late  |-> watcher = "late"]
  /\ UNCHANGED <<textFrame, body, end, finalized, client>>

-----------------------------------------------------------------------------

Next ==
  \/ Poll \/ (\E n \in 1 .. Len(text) : Chunk(n)) \/ (\E e \in Ends : EndSeen(e))
  \/ Finalize \/ Dropped \/ Wake \/ Write

\* Only the task is sure to run: it sleeps and looks again.  A client may stop
\* reading, an upstream stop sending.
Spec == Init /\ [][Next]_vars /\ WF_vars(Wake) /\ WF_vars(Write)

-----------------------------------------------------------------------------
(* Properties *)

TypeOK ==
  /\ sent \in 0 .. Len(text) /\ cut \in BOOLEAN /\ dropped \in BOOLEAN
  /\ Len(partial) <= MaxPartialLine
  /\ tap.content \in Nat /\ tap.anon \in Nat /\ tap.done \in BOOLEAN
  /\ tap.finish \in Finishes \cup {"none"} /\ IsFiniteSet(tap.keys)
  /\ body \in Ends \cup {"unpolled", "waiting", "ended"}
  /\ end \in Ends /\ finalized \in BOOLEAN
  /\ client \in {"reading", "aborted", "complete", "error_frame", "gone"}
  /\ watcher \in {"waits", "ended", "late", "done"}
  /\ DOMAIN record = DOMAIN NoRecord

\* Where the complete lines of some kinds end in what the client was sent.
LinesOf(kinds) == {i \in 2 .. sent : text[i] = NL /\ text[i - 1].kind \in kinds}
Number(kinds)  == Cardinality(LinesOf(kinds))

\* However the text was cut into chunks, the incremental parse counts exactly
\* the whole lines that were forwarded, a fragmented call once, the finish
\* reason of the last line that has one, unless it had to let bytes pass: and
\* then it still never counts what was not there.
TapCountsWhatWasForwarded ==
  LET calls  == Number({"anon"}) + LowerOf(Number({"tool"}), 1)
      reason == IF LinesOf(Finishes) = {} THEN "none"
                ELSE text[Max(LinesOf(Finishes)) - 1].kind
  IN  IF dropped
      THEN /\ tap.content <= Number(Contents) /\ Cardinality(tap.keys) <= calls
           /\ tap.finish # "none" => LinesOf({tap.finish}) # {}
           /\ tap.done => LinesOf({"done"}) # {}
      ELSE /\ tap.content = Number(Contents) /\ Cardinality(tap.keys) = calls
           /\ tap.finish = reason
           /\ tap.done = (LinesOf({"done"}) # {})

\* The record never presents as a success, under any name, a stream whose
\* [DONE] was not forwarded to the client: the failure the tap was written for
\* (sse_tap.rs:3).
NoTruncationLoggedAsSuccess ==
  record.clean \/ record.mode \notin {"none", "truncated_stream"}
    => LinesOf({"done"}) # {}

\* A record written after the end tells what the client was given: a complete
\* stream is a clean record, an error frame a truncated one that the upstream
\* closed itself, an abort one that names the guard or the connection.
RecordAgreesWithClient ==
  watcher = "done" /\ ~record.late =>
    /\ client = "complete"    => record.clean
    /\ client = "error_frame" => record.mode = "truncated_stream" /\ record.end = "clean"
    /\ client = "aborted"     => record.end \in {"guard_stall", "upstream_error"}

\* Every stream gets its record, one nobody reads on included.
RecordWritten == <>(watcher = "done")

\* The client is told that its response is truncated only when the upstream
\* ended it without [DONE] (sse_tap.rs:603).
NoErrorFrameAfterDone ==
  client = "error_frame" => LinesOf({"done"}) = {}
=============================================================================
