----------------------------- MODULE TurnLogger -----------------------------
(***************************************************************************)
(* The turn log (nimaproxy/src/turn_log.rs): threads append records to one *)
(* file through a shared writer, and whoever pushes it over the threshold  *)
(* moves it aside and opens a fresh one.                                   *)
(*                                                                         *)
(* The writer and the byte counter have a mutex each; neither is held over *)
(* the opening or the renaming of a file, so every lock section and every  *)
(* call of the file system is a step of its own.  A record is one unit     *)
(* long.  All rotations fall into one second, the granularity of their     *)
(* names.  Errors of the disk itself are left out.                         *)
(***************************************************************************)
EXTENDS Integers, Sequences, FiniteSets, Functions

CONSTANTS
  Threads,      \* callers of log
  MaxRecords,   \* bound: records logged in all
  RotateAt,     \* rotate_at_bytes, in records
  MaxCrashes    \* bound: crashes of the process

ASSUME TurnLoggerAssumption ==
  /\ IsFiniteSet(Threads) /\ MaxRecords \in Nat /\ MaxCrashes \in Nat
  /\ RotateAt \in Nat \ {0}

VARIABLES
  files,     \* the contents of every file ever created: sets of records
  live,      \* the file the log's path names, 0 when there is none
  rotated,   \* the files that the names of rotations name
  writer,    \* the file the writer writes to, 0 when it is None
  bytes,     \* bytes_since_rotate
  locked,    \* whether a thread keeps the writer's mutex
  thread,    \* per thread: where it is, and its locals
  logged,    \* records given to log so far
  acked,     \* records whose id was handed back
  hit,       \* records a rotation of another thread fell upon
  met,       \* a rotation ran beside another call of log
  overlap,   \* two rotations ran at once
  crashes

fsVars == <<files, live, rotated>>
logVars == <<writer, bytes, locked>>
ghostVars == <<logged, acked, hit, met, overlap, crashes>>
vars == <<fsVars, logVars, thread, ghostVars>>

Pcs == {"idle", "check", "open", "length", "seed", "install", "write", "count",
        "close", "exists", "search", "rename", "reset"}

\* rotating: open_file was called by rotate.
Thread == [pc : Pcs, rec : Nat, handle : Nat, len : Nat, name : Nat, rotating : BOOLEAN]

Idle == [pc |-> "idle", rec |-> 0, handle |-> 0, len |-> 0, name |-> 0, rotating |-> FALSE]

Length(file) == IF file = 0 THEN 0 ELSE Cardinality(files[file])

Init ==
  /\ files = <<{}>> /\ live = 1 /\ rotated = <<>>
  /\ writer = 1 /\ bytes = 0 /\ locked = FALSE
  /\ thread = [t \in Threads |-> Idle]
  /\ logged = 0 /\ acked = {} /\ hit = {} /\ met = FALSE /\ overlap = FALSE /\ crashes = 0

At(t, pc) == thread[t].pc = pc
Goto(t, pc) == thread' = [thread EXCEPT ![t].pc = pc]
Return(t) == thread' = [thread EXCEPT ![t] = Idle]

Rotating(u) ==
  \/ thread[u].pc \in {"exists", "search", "rename", "reset"}
  \/ thread[u].pc \in {"open", "length", "seed", "install"} /\ thread[u].rotating
InLog(u) == thread[u].pc \in {"check", "open", "length", "seed", "install", "write"}

-----------------------------------------------------------------------------
(* log *)

\* The id of a new record: the process's counter makes it unique.
NewId == logged + 1

Begin(t) ==
  /\ At(t, "idle") /\ logged < MaxRecords
  /\ logged' = NewId
  /\ thread' = [thread EXCEPT ![t].pc = "check", ![t].rec = NewId]
  /\ met' = (met \/ \E u \in Threads : Rotating(u))
  /\ UNCHANGED <<fsVars, logVars, acked, hit, overlap, crashes>>

\* Mutant: the writer's mutex is still held when the file is opened.
NeedsOpenHolding(t) ==
  /\ At(t, "check") /\ ~locked
  /\ Goto(t, IF writer = 0 THEN "open" ELSE "write")
  /\ locked' = (writer = 0)
  /\ UNCHANGED <<fsVars, writer, bytes, ghostVars>>

NeedsOpen(t) ==
  /\ At(t, "check") /\ ~locked
  /\ Goto(t, IF writer = 0 THEN "open" ELSE "write")
  /\ UNCHANGED <<fsVars, logVars, ghostVars>>

\* The mutex is kept until the bytes are counted.  Without a writer, because a
\* rotation took it meanwhile, nothing is written.
Write(t) ==
  /\ At(t, "write") /\ ~locked /\ locked' = TRUE
  /\ files' = IF writer = 0 THEN files
              ELSE [files EXCEPT ![writer] = @ \cup {thread[t].rec}]
  /\ Goto(t, "count")
  /\ UNCHANGED <<live, rotated, writer, bytes, ghostVars>>

\* The id is handed back, whether the record was written or not; over the
\* threshold only if the rotation succeeds.
Count(t) ==
  /\ At(t, "count")
  /\ bytes' = bytes + 1 /\ locked' = FALSE
  /\ IF bytes + 1 >= RotateAt
     THEN Goto(t, "close") /\ UNCHANGED acked
     ELSE Return(t) /\ acked' = acked \cup {thread[t].rec}
  /\ UNCHANGED <<fsVars, writer, logged, hit, met, overlap, crashes>>

-----------------------------------------------------------------------------
(* open_file *)

\* Opened by path, for appending, created when it is missing.
OpenFile(t) ==
  /\ At(t, "open")
  /\ IF live = 0
     THEN files' = Append(files, {}) /\ live' = Len(files) + 1
     ELSE UNCHANGED <<files, live>>
  /\ thread' = [thread EXCEPT ![t].pc = "length", ![t].handle = live']
  /\ UNCHANGED <<rotated, logVars, ghostVars>>

PathLen(t) ==
  /\ At(t, "length")
  /\ thread' = [thread EXCEPT ![t].pc = "seed", ![t].len = Length(live)]
  /\ UNCHANGED <<fsVars, logVars, ghostVars>>

Seed(t) ==
  /\ At(t, "seed")
  /\ bytes' = thread[t].len /\ Goto(t, "install")
  /\ UNCHANGED <<fsVars, writer, locked, ghostVars>>

\* Called by log, which writes next, or by rotate, which is the end of it.
Install(t) ==
  /\ At(t, "install") /\ ~locked
  /\ writer' = thread[t].handle
  /\ IF thread[t].rotating
     THEN Return(t) /\ acked' = acked \cup {thread[t].rec}
     ELSE Goto(t, "write") /\ UNCHANGED acked
  /\ UNCHANGED <<fsVars, bytes, locked, logged, hit, met, overlap, crashes>>

-----------------------------------------------------------------------------
(* rotate *)

Close(t) ==
  /\ At(t, "close") /\ ~locked
  /\ writer' = 0 /\ Goto(t, "exists")
  /\ hit' = hit \cup {thread[u].rec : u \in {v \in Threads \ {t} : InLog(v)}}
  /\ met' = (met \/ \E u \in Threads \ {t} : InLog(u))
  /\ overlap' = (overlap \/ \E u \in Threads \ {t} : Rotating(u))
  /\ UNCHANGED <<fsVars, bytes, locked, logged, acked, crashes>>

Exists(t) ==
  /\ At(t, "exists")
  /\ Goto(t, IF live = 0 THEN "reset" ELSE "search")
  /\ UNCHANGED <<fsVars, logVars, ghostVars>>

\* Mutant: the timestamp alone names the rotated file.
SearchTimestampOnly(t) ==
  /\ At(t, "search")
  /\ thread' = [thread EXCEPT ![t].pc = "rename", ![t].name = 1]
  /\ UNCHANGED <<fsVars, logVars, ghostVars>>

\* The first name of this second that is not taken.
Search(t) ==
  /\ At(t, "search")
  /\ thread' = [thread EXCEPT ![t].pc = "rename", ![t].name = Len(rotated) + 1]
  /\ UNCHANGED <<fsVars, logVars, ghostVars>>

\* Mutant: the file is linked to its new name, the log's path stays on it.
RenameLinks(t) ==
  /\ At(t, "rename")
  /\ IF live = 0
     THEN Return(t) /\ UNCHANGED rotated
     ELSE Goto(t, "reset") /\ rotated' = Append(rotated, live)
  /\ UNCHANGED <<files, live, logVars, ghostVars>>

\* Renaming fails when the file is gone, and replaces what has the name.
Rename(t) ==
  /\ At(t, "rename")
  /\ IF live = 0
     THEN Return(t) /\ UNCHANGED <<live, rotated>>
     ELSE /\ Goto(t, "reset") /\ live' = 0
          /\ rotated' = IF thread[t].name > Len(rotated) THEN Append(rotated, live)
                        ELSE [rotated EXCEPT ![thread[t].name] = live]
  /\ UNCHANGED <<files, logVars, ghostVars>>

Reset(t) ==
  /\ At(t, "reset")
  /\ bytes' = 0
  /\ thread' = [thread EXCEPT ![t].pc = "open", ![t].rotating = TRUE]
  /\ UNCHANGED <<fsVars, writer, locked, ghostVars>>

-----------------------------------------------------------------------------
(* The process dies, between any two steps, and is started again *)

\* Mutant: the counter starts from zero, whatever the file holds.
RestartedOnEmpty(file, size) == writer' = file /\ bytes' = 0

\* TurnLogger::new on whatever is there.
RestartedOn(file, size) == writer' = file /\ bytes' = size

CrashAndRestart ==
  /\ crashes < MaxCrashes /\ crashes' = crashes + 1
  /\ IF live = 0
     THEN /\ files' = Append(files, {}) /\ live' = Len(files) + 1
          /\ RestartedOn(Len(files) + 1, 0)
     ELSE UNCHANGED <<files, live>> /\ RestartedOn(live, Length(live))
  /\ locked' = FALSE
  /\ thread' = [t \in Threads |-> Idle]
  /\ UNCHANGED <<rotated, logged, acked, hit, met, overlap>>

-----------------------------------------------------------------------------

Step(t) ==
  \/ NeedsOpen(t) \/ Write(t) \/ Count(t)
  \/ OpenFile(t) \/ PathLen(t) \/ Seed(t) \/ Install(t)
  \/ Close(t) \/ Exists(t) \/ Search(t) \/ Rename(t) \/ Reset(t)

Next == CrashAndRestart \/ \E t \in Threads : Begin(t) \/ Step(t)

\* The scheduler runs every thread; a mutex that is free again and again is
\* obtained at last.
Spec == Init /\ [][Next]_vars /\ \A t \in Threads : SF_vars(Step(t))

-----------------------------------------------------------------------------
(* Properties *)

FilesOK ==
  /\ files \in Seq(SUBSET Nat) /\ \A i \in 1 .. Len(files) : files[i] \subseteq 1 .. logged
  /\ live \in 0 .. Len(files) /\ writer \in 0 .. Len(files)

NamesOK ==
  /\ rotated \in Seq(Nat) /\ \A i \in 1 .. Len(rotated) : rotated[i] \in 1 .. Len(files)
  /\ IsInjective(rotated) /\ live \notin Range(rotated)

ThreadsOK ==
  /\ thread \in [Threads -> Thread]
  /\ \A t \in Threads : /\ thread[t].handle <= Len(files)
                        /\ ~At(t, "idle") => thread[t].rec \in 1 .. logged

GhostsOK ==
  /\ logged \in Nat /\ crashes \in Nat /\ bytes \in Nat
  /\ locked \in BOOLEAN /\ met \in BOOLEAN /\ overlap \in BOOLEAN
  /\ acked \subseteq 1 .. logged /\ hit \subseteq 1 .. logged

\* Every file has at most one name, and the log's path is none of the rotated
\* ones; a file holds what was logged and nothing else.
TypeOK == FilesOK /\ NamesOK /\ ThreadsOK /\ GhostsOK

Named == {live} \cup Range(rotated)
OnDisk(r) == \E i \in Named \ {0} : r \in files[i]

\* "The id is handed back only once its record is on disk" (turn_log.rs:764),
\* and rotation "moves the file aside, it never truncates" (turn_log.rs:654):
\* true through every crash, of every record no rotation of another thread fell
\* upon while it was logged, as long as no two rotations run at once.
AckedStaysOnDisk ==
  ~overlap => \A r \in acked \ hit : OnDisk(r)

\* The counter and the file "can never disagree" (turn_log.rs:644): true
\* whenever the log is at rest, a restart included, unless a rotation met
\* another call.
CounterMatchesFile ==
  (\A t \in Threads : At(t, "idle")) /\ ~overlap /\ ~met
    => writer = live /\ bytes = Length(live)

\* Every call of log returns: the two mutexes are never taken in a circle,
\* whatever rotations and openings run beside each other.
LogReturns == \A t \in Threads : []<>At(t, "idle")
=============================================================================
