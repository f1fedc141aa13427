-------------------------- MODULE TurnLoggerProofs --------------------------
(***************************************************************************)
(* Proofs about TurnLogger, for every number of threads, records and       *)
(* crashes and every threshold: its types, that a record whose id was      *)
(* handed back stays in a file with a name, and that the counter agrees    *)
(* with the file whenever the log is at rest.                              *)
(***************************************************************************)
EXTENDS TurnLogger, FiniteSetTheorems, TLAPS

\* A record that is beyond the write: the rest of its call is the rotation.
Written(t) == thread[t].pc \in {"count", "close"} \/ Rotating(t)

\* A call of log that opens a file is not a rotation, from its first step on.
Opening == \A t \in Threads : At(t, "idle") \/ At(t, "check") => ~thread[t].rotating

\* One rotation at a time, to a name that is free.
OneRotation ==
  /\ \A t, u \in Threads : Rotating(t) /\ Rotating(u) => t = u
  /\ \A t \in Threads : At(t, "rename") => thread[t].name = Len(rotated) + 1

\* Whatever is written to, now or soon, has a name.
WritesAreNamed ==
  /\ writer # 0 => writer \in Named
  /\ \A t \in Threads :
       thread[t].pc \in {"length", "seed", "install"}
         => thread[t].handle # 0 /\ thread[t].handle \in Named

\* A call that no rotation falls upon finds a writer, and its record is safe.
RecordsSafe ==
  /\ \A t \in Threads : At(t, "write") => writer # 0 \/ thread[t].rec \in hit
  /\ \A t \in Threads : Written(t) => OnDisk(thread[t].rec) \/ thread[t].rec \in hit
  /\ \A r \in acked : OnDisk(r) \/ r \in hit

DiskInv == ~overlap => OneRotation /\ WritesAreNamed /\ RecordsSafe

Inv == TypeOK /\ Opening /\ DiskInv

\* A rotation renames to a name it found free, which may be taken since.
Searched == \A t \in Threads : At(t, "rename") => thread[t].name \in 1 .. Len(rotated) + 1

-----------------------------------------------------------------------------
(* Types *)

LEMMA FileFinite ==
  ASSUME TypeOK, NEW f \in 1 .. Len(files)
  PROVE  IsFiniteSet(files[f])
<1>1. logged \in Nat /\ files[f] \subseteq 1 .. logged
  BY DEF TypeOK, FilesOK, GhostsOK
<1>2. IsFiniteSet(1 .. logged)
  <2>1. 1 \in Int /\ logged \in Int
    BY <1>1
  <2> QED
    BY <2>1, FS_Interval, Zenon
<1> QED
  BY <1>1, <1>2, FS_Subset

LEMMA LengthType ==
  ASSUME TypeOK, NEW f \in 0 .. Len(files)
  PROVE  Length(f) \in Nat
<1>1. CASE f = 0
  BY <1>1 DEF Length
<1>2. CASE f # 0
  <2>1. f \in 1 .. Len(files)
    BY <1>2 DEF TypeOK, FilesOK
  <2>2. IsFiniteSet(files[f])
    BY <2>1, FileFinite
  <2> QED
    BY <1>2, <2>2, FS_CardinalityType DEF Length
<1> QED
  BY <1>1, <1>2

LEMMA IdleType == Idle \in Thread
BY DEF Idle, Thread, Pcs

LEMMA TypeInit == Init => TypeOK
<1> SUFFICES ASSUME Init PROVE TypeOK
  OBVIOUS
<1>1. FilesOK
  BY DEF Init, FilesOK
<1>2. NamesOK
  BY DEF Init, NamesOK, IsInjective, Range
<1>3. ThreadsOK
  BY IdleType DEF Init, ThreadsOK, At, Idle
<1>4. GhostsOK
  BY DEF Init, GhostsOK
<1> QED
  BY <1>1, <1>2, <1>3, <1>4 DEF TypeOK

\* A thread moves on: what is left to say when only its own entry changes.
LEMMA ThreadStep ==
  ASSUME TypeOK, NEW t \in Threads,
         thread' \in [Threads -> Thread], \A u \in Threads \ {t} : thread'[u] = thread[u],
         Len(files') >= Len(files), Len(files') \in Nat,
         logged' >= logged, logged' \in Nat,
         thread'[t].handle <= Len(files'),
         thread'[t].pc # "idle" => thread'[t].rec \in 1 .. logged'
  PROVE  ThreadsOK'
<1>1. ASSUME NEW u \in Threads
      PROVE  /\ thread'[u].handle <= Len(files')
             /\ thread'[u].pc # "idle" => thread'[u].rec \in 1 .. logged'
  <2>1. CASE u = t
    BY <2>1
  <2>2. CASE u # t
    <3>1. thread'[u] = thread[u] /\ logged \in Nat /\ Len(files) \in Nat
      BY <2>2 DEF TypeOK, FilesOK, GhostsOK
    <3>2. thread[u].handle \in Nat /\ thread[u].handle <= Len(files)
      BY DEF TypeOK, ThreadsOK, Thread
    <3>3. thread[u].pc # "idle" => thread[u].rec \in 1 .. logged
      BY DEF TypeOK, ThreadsOK, At
    <3> QED
      BY <3>1, <3>2, <3>3
  <2> QED
    BY <2>1, <2>2
<1> QED
  BY <1>1 DEF ThreadsOK, At, Thread, Pcs

LEMMA GotoStep ==
  ASSUME TypeOK, NEW t \in Threads, NEW pc \in Pcs, Goto(t, pc), ~At(t, "idle"),
         Len(files') = Len(files), logged' = logged
  PROVE  ThreadsOK'
BY DEF Goto, TypeOK, ThreadsOK, Thread, At

LEMMA ReturnStep ==
  ASSUME TypeOK, NEW t \in Threads, Return(t), Len(files') = Len(files), logged' = logged
  PROVE  ThreadsOK'
<1>1. Idle.handle = 0 /\ Idle.pc = "idle"
  BY DEF Idle
<1>2. thread'[t] = Idle /\ \A u \in Threads \ {t} : thread'[u] = thread[u]
  BY DEF Return, TypeOK, ThreadsOK
<1>3. thread' \in [Threads -> Thread]
  BY IdleType DEF Return, TypeOK, ThreadsOK
<1>4. Len(files) \in Nat /\ logged \in Nat
  BY DEF TypeOK, FilesOK, GhostsOK
<1> QED
  BY <1>1, <1>2, <1>3, <1>4, ThreadStep

\* A fresh file is opened under the log's path.
LEMMA FreshFile ==
  ASSUME TypeOK, files' = Append(files, {}), live' = Len(files) + 1,
         writer' \in 0 .. Len(files) + 1, rotated' = rotated, logged' = logged
  PROVE  FilesOK' /\ NamesOK' /\ Len(files') = Len(files) + 1
<1>1. /\ files' \in Seq(SUBSET Nat) /\ Len(files') = Len(files) + 1
      /\ \A i \in 1 .. Len(files) : files'[i] = files[i]
      /\ files'[Len(files) + 1] = {}
  BY DEF TypeOK, FilesOK
<1>2. FilesOK'
  BY <1>1 DEF TypeOK, FilesOK
<1>3. NamesOK'
  BY <1>1 DEF TypeOK, FilesOK, NamesOK, IsInjective, Range
<1> QED
  BY <1>1, <1>2, <1>3

\* The clauses of TypeOK a step leaves alone.
LEMMA UntouchedFiles ==
  ASSUME TypeOK, UNCHANGED <<files, live>>, writer' \in 0 .. Len(files),
         logged' = logged \/ logged' = logged + 1
  PROVE  FilesOK' /\ (rotated' = rotated => NamesOK')
<1>1. FilesOK'
  BY DEF TypeOK, FilesOK, GhostsOK
<1>2. rotated' = rotated => NamesOK'
  BY DEF TypeOK, NamesOK, IsInjective, Range
<1> QED
  BY <1>1, <1>2

LEMMA TypeLog ==
  ASSUME TypeOK, NEW t \in Threads, Begin(t) \/ NeedsOpen(t) \/ Write(t) \/ Count(t)
  PROVE  TypeOK'
<1> USE DEF fsVars, logVars, ghostVars, At
<1>1. CASE Begin(t)
  <2>1. FilesOK' /\ NamesOK'
    BY <1>1, UntouchedFiles DEF Begin, NewId, TypeOK, FilesOK
  <2>2. GhostsOK'
    BY <1>1 DEF Begin, NewId, TypeOK, GhostsOK
  <2>3. ThreadsOK'
    <3>1. NewId \in Nat \ {0} /\ NewId >= logged /\ logged' = NewId
      BY <1>1 DEF Begin, NewId, TypeOK, GhostsOK
    <3>2. thread' \in [Threads -> Thread] /\ \A u \in Threads \ {t} : thread'[u] = thread[u]
      BY <1>1, <3>1 DEF Begin, TypeOK, ThreadsOK, Thread, Pcs
    <3>3. thread'[t].rec = NewId /\ thread'[t].handle = thread[t].handle
      BY <1>1, <3>1 DEF Begin, TypeOK, ThreadsOK, Thread
    <3>4. files' = files /\ Len(files) \in Nat /\ thread[t].handle <= Len(files)
      BY <1>1 DEF Begin, TypeOK, FilesOK, ThreadsOK
    <3> QED
      BY <3>1, <3>2, <3>3, <3>4, ThreadStep DEF TypeOK, GhostsOK
  <2> QED
    BY <2>1, <2>2, <2>3 DEF TypeOK
<1>2. CASE NeedsOpen(t)
  <2>1. FilesOK' /\ NamesOK'
    BY <1>2, UntouchedFiles DEF NeedsOpen, TypeOK, FilesOK
  <2>2. GhostsOK'
    BY <1>2 DEF NeedsOpen, TypeOK, GhostsOK
  <2>3. ThreadsOK'
    BY <1>2 DEF NeedsOpen, Goto, TypeOK, ThreadsOK, Thread, Pcs
  <2> QED
    BY <2>1, <2>2, <2>3 DEF TypeOK
<1>3. CASE Write(t)
  <2>1. thread[t].rec \in 1 .. logged
    BY <1>3 DEF Write, TypeOK, ThreadsOK
  <2>2. /\ files' \in Seq(SUBSET Nat) /\ Len(files') = Len(files)
        /\ \A i \in 1 .. Len(files) : files'[i] = files[i] \/ files'[i] = files[i] \cup {thread[t].rec}
    BY <1>3, <2>1 DEF Write, TypeOK, FilesOK, GhostsOK
  <2>3. FilesOK'
    BY <1>3, <2>1, <2>2 DEF Write, TypeOK, FilesOK
  <2>4. NamesOK'
    BY <1>3, <2>2 DEF Write, TypeOK, NamesOK, IsInjective, Range
  <2>5. GhostsOK'
    BY <1>3 DEF Write, TypeOK, GhostsOK
  <2>6. ThreadsOK'
    BY <1>3, <2>2 DEF Write, Goto, TypeOK, ThreadsOK, Thread, Pcs
  <2> QED
    BY <2>3, <2>4, <2>5, <2>6 DEF TypeOK
<1>4. CASE Count(t)
  <2>1. FilesOK' /\ NamesOK'
    BY <1>4, UntouchedFiles DEF Count, TypeOK, FilesOK
  <2>2. thread[t].rec \in 1 .. logged
    BY <1>4 DEF Count, TypeOK, ThreadsOK
  <2>3. GhostsOK'
    <3>1. acked' \subseteq acked \cup {thread[t].rec}
      BY <1>4 DEF Count
    <3>2. locked' = FALSE /\ UNCHANGED <<logged, hit, met, overlap, crashes>>
      BY <1>4 DEF Count
    <3>3. bytes' \in Nat
      BY <1>4 DEF Count, TypeOK, GhostsOK
    <3>4. acked' \subseteq 1 .. logged
      BY <2>2, <3>1 DEF TypeOK, GhostsOK
    <3> QED
      BY <3>2, <3>3, <3>4 DEF TypeOK, GhostsOK
  <2>4. ThreadsOK'
    <3>1. CASE bytes + 1 >= RotateAt
      BY <1>4, <3>1, GotoStep DEF Count, Pcs
    <3>2. CASE ~(bytes + 1 >= RotateAt)
      BY <1>4, <3>2, ReturnStep DEF Count
    <3> QED
      BY <3>1, <3>2
  <2> QED
    BY <2>1, <2>3, <2>4 DEF TypeOK
<1> QED
  BY <1>1, <1>2, <1>3, <1>4

LEMMA TypeOpen ==
  ASSUME TypeOK, NEW t \in Threads, OpenFile(t) \/ PathLen(t) \/ Seed(t) \/ Install(t)
  PROVE  TypeOK'
<1> USE DEF fsVars, logVars, ghostVars, At
<1>1. CASE OpenFile(t)
  <2>1. FilesOK' /\ NamesOK' /\ Len(files') >= Len(files) /\ Len(files') \in Nat
    <3>1. CASE live = 0
      BY <1>1, <3>1, FreshFile DEF OpenFile, TypeOK, FilesOK
    <3>2. CASE live # 0
      BY <1>1, <3>2, UntouchedFiles DEF OpenFile, TypeOK, FilesOK
    <3> QED
      BY <3>1, <3>2
  <2>2. GhostsOK'
    BY <1>1 DEF OpenFile, TypeOK, GhostsOK
  <2>3. ThreadsOK'
    <3>1. live' \in 0 .. Len(files') /\ logged' = logged
      BY <1>1, <2>1 DEF OpenFile, FilesOK
    <3>5. live' \in Nat
      BY <2>1, <3>1
    <3>2. thread' \in [Threads -> Thread] /\ \A u \in Threads \ {t} : thread'[u] = thread[u]
      BY <1>1, <3>5 DEF OpenFile, TypeOK, ThreadsOK, Thread, Pcs
    <3>3. thread'[t].handle = live' /\ thread'[t].rec = thread[t].rec
      BY <1>1 DEF OpenFile, TypeOK, ThreadsOK, Thread
    <3>4. thread[t].rec \in 1 .. logged /\ logged \in Nat
      BY <1>1 DEF OpenFile, TypeOK, ThreadsOK, GhostsOK
    <3> QED
      BY <2>1, <3>1, <3>2, <3>3, <3>4, ThreadStep
  <2> QED
    BY <2>1, <2>2, <2>3 DEF TypeOK
<1>2. CASE PathLen(t)
  <2>1. FilesOK' /\ NamesOK'
    BY <1>2, UntouchedFiles DEF PathLen, TypeOK, FilesOK
  <2>2. GhostsOK'
    BY <1>2 DEF PathLen, TypeOK, GhostsOK
  <2>3. Length(live) \in Nat
    BY LengthType DEF TypeOK, FilesOK
  <2>4. ThreadsOK'
    BY <1>2, <2>3 DEF PathLen, TypeOK, ThreadsOK, Thread, Pcs
  <2> QED
    BY <2>1, <2>2, <2>4 DEF TypeOK
<1>3. CASE Seed(t)
  <2>1. FilesOK' /\ NamesOK'
    BY <1>3, UntouchedFiles DEF Seed, TypeOK, FilesOK
  <2>2. GhostsOK'
    BY <1>3 DEF Seed, TypeOK, ThreadsOK, Thread, GhostsOK
  <2>3. ThreadsOK'
    BY <1>3 DEF Seed, Goto, TypeOK, ThreadsOK, Thread, Pcs
  <2> QED
    BY <2>1, <2>2, <2>3 DEF TypeOK
<1>4. CASE Install(t)
  <2>1. writer' \in 0 .. Len(files)
    BY <1>4 DEF Install, TypeOK, FilesOK, ThreadsOK, Thread
  <2>2. FilesOK' /\ NamesOK'
    BY <1>4, <2>1, UntouchedFiles DEF Install
  <2>3. GhostsOK'
    BY <1>4 DEF Install, TypeOK, ThreadsOK, GhostsOK
  <2>4. ThreadsOK'
    <3>1. CASE thread[t].rotating
      BY <1>4, <3>1, ReturnStep DEF Install
    <3>2. CASE ~thread[t].rotating
      BY <1>4, <3>2, GotoStep DEF Install, Pcs
    <3> QED
      BY <3>1, <3>2
  <2> QED
    BY <2>2, <2>3, <2>4 DEF TypeOK
<1> QED
  BY <1>1, <1>2, <1>3, <1>4

\* No file has two names: renaming takes the log's path away from its file, and
\* replaces one name if the name was taken.
LEMMA RenameNames ==
  ASSUME TypeOK, NEW n \in Nat, live # 0, live' = 0, files' = files,
         n # 0, n <= Len(rotated) + 1,
         rotated' = IF n > Len(rotated) THEN Append(rotated, live)
                    ELSE [rotated EXCEPT ![n] = live]
  PROVE  NamesOK'
<1>1. /\ rotated \in Seq(Nat) /\ live \in 1 .. Len(files) /\ Len(files) \in Nat
      /\ \A i \in 1 .. Len(rotated) : rotated[i] \in 1 .. Len(files) /\ rotated[i] # live
      /\ \A i, j \in 1 .. Len(rotated) : rotated[i] = rotated[j] => i = j
  BY DEF TypeOK, FilesOK, NamesOK, IsInjective, Range
<1>2. /\ rotated' \in Seq(Nat) /\ Len(rotated') >= Len(rotated)
      /\ n \in 1 .. Len(rotated') /\ rotated'[n] = live
      /\ \A i \in 1 .. Len(rotated') : i # n => i <= Len(rotated) /\ rotated'[i] = rotated[i]
  <2>1. CASE n > Len(rotated)
    BY <1>1, <2>1
  <2>2. CASE ~(n > Len(rotated))
    BY <1>1, <2>2
  <2> QED
    BY <2>1, <2>2
<1>3. \A i \in 1 .. Len(rotated') : rotated'[i] \in 1 .. Len(files')
  BY <1>1, <1>2
<1>4. \A i, j \in 1 .. Len(rotated') : rotated'[i] = rotated'[j] => i = j
  BY <1>1, <1>2
<1>5. live' \notin Range(rotated')
  BY <1>2, <1>3 DEF Range
<1>6. IsInjective(rotated')
  <2>1. DOMAIN rotated' = 1 .. Len(rotated')
    BY <1>2
  <2> QED
    BY <1>4, <2>1 DEF IsInjective
<1> QED
  BY <1>2, <1>3, <1>5, <1>6 DEF NamesOK

LEMMA TypeRotate ==
  ASSUME TypeOK, Searched, NEW t \in Threads,
         Close(t) \/ Exists(t) \/ Search(t) \/ Rename(t) \/ Reset(t)
  PROVE  TypeOK'
<1> USE DEF fsVars, logVars, ghostVars, At
<1>1. CASE Close(t)
  <2>1. FilesOK' /\ NamesOK'
    BY <1>1, UntouchedFiles DEF Close, TypeOK, FilesOK
  <2>2. ThreadsOK'
    BY <1>1, GotoStep DEF Close, Pcs
  <2>3. hit' \subseteq 1 .. logged
    <3>1. \A u \in Threads : InLog(u) => thread[u].rec \in 1 .. logged
      BY DEF InLog, TypeOK, ThreadsOK
    <3> QED
      BY <1>1, <3>1 DEF Close, TypeOK, GhostsOK
  <2>4. GhostsOK'
    <3>1. UNCHANGED <<bytes, locked, logged, acked, crashes>>
      BY <1>1 DEF Close
    <3>2. met' \in BOOLEAN /\ overlap' \in BOOLEAN
      BY <1>1 DEF Close
    <3> QED
      BY <2>3, <3>1, <3>2 DEF TypeOK, GhostsOK
  <2> QED
    BY <2>1, <2>2, <2>4 DEF TypeOK
<1>2. CASE Exists(t)
  <2>1. FilesOK' /\ NamesOK'
    BY <1>2, UntouchedFiles DEF Exists, TypeOK, FilesOK
  <2>2. GhostsOK'
    BY <1>2 DEF Exists, TypeOK, GhostsOK
  <2>3. ThreadsOK'
    BY <1>2, GotoStep DEF Exists, Pcs
  <2> QED
    BY <2>1, <2>2, <2>3 DEF TypeOK
<1>3. CASE Search(t)
  <2>1. FilesOK' /\ NamesOK'
    BY <1>3, UntouchedFiles DEF Search, TypeOK, FilesOK
  <2>2. GhostsOK'
    BY <1>3 DEF Search, TypeOK, GhostsOK
  <2>3. Len(rotated) + 1 \in Nat
    BY DEF TypeOK, NamesOK
  <2>4. ThreadsOK'
    BY <1>3, <2>3 DEF Search, TypeOK, ThreadsOK, Thread, Pcs
  <2> QED
    BY <2>1, <2>2, <2>4 DEF TypeOK
<1>4. CASE Rename(t)
  <2>1. FilesOK'
    BY <1>4 DEF Rename, TypeOK, FilesOK, GhostsOK
  <2>2. GhostsOK'
    BY <1>4 DEF Rename, TypeOK, GhostsOK
  <2>3. NamesOK'
    <3>1. CASE live = 0
      BY <1>4, <3>1, UntouchedFiles DEF Rename, TypeOK, FilesOK
    <3>2. CASE live # 0
      <4>1. thread[t].name \in Nat /\ thread[t].name # 0 /\ thread[t].name <= Len(rotated) + 1
        BY <1>4 DEF Rename, Searched, TypeOK, NamesOK
      <4> QED
        BY <1>4, <3>2, <4>1, RenameNames DEF Rename
    <3> QED
      BY <3>1, <3>2
  <2>4. ThreadsOK'
    <3>1. CASE live = 0
      BY <1>4, <3>1, ReturnStep DEF Rename
    <3>2. CASE live # 0
      BY <1>4, <3>2, GotoStep DEF Rename, Pcs
    <3> QED
      BY <3>1, <3>2
  <2> QED
    BY <2>1, <2>2, <2>3, <2>4 DEF TypeOK
<1>5. CASE Reset(t)
  <2>1. FilesOK' /\ NamesOK'
    BY <1>5, UntouchedFiles DEF Reset, TypeOK, FilesOK
  <2>2. GhostsOK'
    BY <1>5 DEF Reset, TypeOK, GhostsOK
  <2>3. ThreadsOK'
    BY <1>5 DEF Reset, TypeOK, ThreadsOK, Thread, Pcs
  <2> QED
    BY <2>1, <2>2, <2>3 DEF TypeOK
<1> QED
  BY <1>1, <1>2, <1>3, <1>4, <1>5

LEMMA TypeCrash == TypeOK /\ CrashAndRestart => TypeOK'
<1> SUFFICES ASSUME TypeOK, CrashAndRestart PROVE TypeOK'
  OBVIOUS
<1>1. Length(live) \in Nat
  BY LengthType DEF TypeOK, FilesOK
<1>2. FilesOK' /\ NamesOK' /\ Len(files') \in Nat
  <2>1. CASE live = 0
    BY <2>1, FreshFile DEF CrashAndRestart, RestartedOn, TypeOK, FilesOK
  <2>2. CASE live # 0
    BY <2>2, UntouchedFiles DEF CrashAndRestart, RestartedOn, TypeOK, FilesOK
  <2> QED
    BY <2>1, <2>2
<1>3. bytes' \in Nat
  BY <1>1 DEF CrashAndRestart, RestartedOn
<1>4. GhostsOK'
  <2>1. locked' = FALSE /\ UNCHANGED <<logged, acked, hit, met, overlap>>
    BY DEF CrashAndRestart
  <2>2. crashes' \in Nat
    BY DEF CrashAndRestart, TypeOK, GhostsOK
  <2> QED
    BY <1>3, <2>1, <2>2 DEF TypeOK, GhostsOK
<1>5. ThreadsOK'
  <2>1. Idle.handle = 0 /\ Idle.pc = "idle"
    BY DEF Idle
  <2>2. thread' = [u \in Threads |-> Idle]
    BY DEF CrashAndRestart
  <2> QED
    BY <1>2, <2>1, <2>2, IdleType DEF ThreadsOK, At, Thread, Pcs
<1> QED
  BY <1>2, <1>4, <1>5 DEF TypeOK

LEMMA TypeStutter == TypeOK /\ UNCHANGED vars => TypeOK'
BY DEF TypeOK, FilesOK, NamesOK, ThreadsOK, GhostsOK, IsInjective, Range, At,
       vars, fsVars, logVars, ghostVars

\* Names only become more, so what a rotation found stays in range.
LEMMA SearchedStep == TypeOK /\ Searched /\ [Next]_vars => Searched'
<1> SUFFICES ASSUME TypeOK, Searched, [Next]_vars PROVE Searched'
  OBVIOUS
<1> USE DEF fsVars, logVars, ghostVars, At
<1>1. Len(rotated) \in Nat
  BY DEF TypeOK, NamesOK
<1>2. ASSUME NEW t \in Threads, Begin(t) \/ Step(t) PROVE Searched'
  <2>1. CASE Rename(t)
    <3>1. Len(rotated') \in Nat /\ Len(rotated') >= Len(rotated)
      BY <2>1 DEF Rename, TypeOK, FilesOK, NamesOK
    <3>2. \A u \in Threads : thread'[u].pc = "rename" => thread'[u] = thread[u]
      BY <2>1 DEF Rename, Goto, Return, Idle, TypeOK, ThreadsOK, Thread
    <3> QED
      BY <1>1, <3>1, <3>2 DEF Searched
  <2>2. CASE Search(t)
    <3>1. thread'[t].name = Len(rotated) + 1 /\ rotated' = rotated
      BY <2>2 DEF Search, TypeOK, ThreadsOK, Thread
    <3>2. \A u \in Threads \ {t} : thread'[u] = thread[u]
      BY <2>2 DEF Search, TypeOK, ThreadsOK, Thread
    <3> QED
      BY <1>1, <3>1, <3>2 DEF Searched
  <2>3. CASE Begin(t) \/ (Step(t) /\ ~Rename(t) /\ ~Search(t))
    <3>1. rotated' = rotated
      BY <2>3 DEF Begin, Step, NeedsOpen, Write, Count, OpenFile, PathLen, Seed, Install,
                  Close, Exists, Reset
    <3>2. \A u \in Threads : thread'[u].pc = "rename" => thread'[u] = thread[u]
      BY <2>3 DEF Begin, Step, NeedsOpen, Write, Count, OpenFile, PathLen, Seed, Install,
                  Close, Exists, Reset, Goto, Return, Idle, TypeOK, ThreadsOK, Thread
    <3> QED
      BY <3>1, <3>2 DEF Searched
  <2> QED
    BY <1>2, <2>1, <2>2, <2>3
<1>3. CASE CrashAndRestart
  BY <1>3 DEF CrashAndRestart, Searched, Idle
<1>4. CASE UNCHANGED vars
  BY <1>4 DEF vars, Searched
<1> QED
  BY <1>2, <1>3, <1>4 DEF Next

LEMMA TypeNext == TypeOK /\ Searched /\ [Next]_vars => TypeOK'
<1> SUFFICES ASSUME TypeOK, Searched, [Next]_vars PROVE TypeOK'
  OBVIOUS
<1>1. ASSUME NEW t \in Threads, Begin(t) \/ Step(t) PROVE TypeOK'
  BY <1>1, TypeLog, TypeOpen, TypeRotate DEF Step
<1> QED
  BY <1>1, TypeCrash, TypeStutter DEF Next

\* Whatever threads, rotations and crashes do, a file has one name at most, and
\* the log's path none of the rotated ones.
THEOREM LoggerTypeCorrect == Spec => []TypeOK
<1>1. Init => TypeOK /\ Searched
  BY TypeInit DEF Init, Searched, At, Idle
<1>2. TypeOK /\ Searched /\ [Next]_vars => (TypeOK /\ Searched)'
  BY TypeNext, SearchedStep
<1> QED
  BY <1>1, <1>2, PTL DEF Spec

-----------------------------------------------------------------------------
(* No record handed back is lost *)

\* The log's path is taken from its file only when that file gets another name,
\* and no file ever shrinks, as long as rotations do not overlap.
LEMMA FilesGrow ==
  ASSUME TypeOK, OneRotation, [Next]_vars
  PROVE  /\ \A i \in 1 .. Len(files) : i \in 1 .. Len(files') /\ files[i] \subseteq files'[i]
         /\ Named \ {0} \subseteq Named'
<1> USE DEF fsVars, logVars, ghostVars, At
<1>1. /\ files \in Seq(SUBSET Nat) /\ live \in 0 .. Len(files) /\ writer \in 0 .. Len(files)
      /\ rotated \in Seq(Nat)
  BY DEF TypeOK, FilesOK, NamesOK
<1>2. CASE UNCHANGED <<files, live, rotated>>
  BY <1>1, <1>2 DEF Named, Range
<1>3. CASE /\ files' = Append(files, {}) /\ live = 0 /\ live' = Len(files) + 1
           /\ rotated' = rotated
  BY <1>1, <1>3 DEF Named, Range
<1>4. ASSUME NEW t \in Threads, Write(t)
      PROVE  /\ \A i \in 1 .. Len(files) : i \in 1 .. Len(files') /\ files[i] \subseteq files'[i]
             /\ Named \ {0} \subseteq Named'
  BY <1>1, <1>4 DEF Write, Named, Range
<1>5. ASSUME NEW t \in Threads, Rename(t)
      PROVE  /\ \A i \in 1 .. Len(files) : i \in 1 .. Len(files') /\ files[i] \subseteq files'[i]
             /\ Named \ {0} \subseteq Named'
  <2>1. CASE live = 0
    BY <1>1, <1>5, <2>1 DEF Rename, Named, Range
  <2>2. CASE live # 0
    <3>1. files' = files /\ rotated' = Append(rotated, live)
      BY <1>1, <1>5, <2>2 DEF Rename, OneRotation
    <3>2. DOMAIN rotated = 1 .. Len(rotated) /\ DOMAIN rotated' = 1 .. Len(rotated) + 1
      BY <1>1, <3>1
    <3>3. /\ \A i \in 1 .. Len(rotated) : rotated'[i] = rotated[i]
          /\ rotated'[Len(rotated) + 1] = live /\ Len(rotated) \in Nat
      BY <1>1, <3>1
    <3> QED
      BY <1>1, <3>1, <3>2, <3>3 DEF Named, Range
  <2> QED
    BY <2>1, <2>2
<1>6. CASE CrashAndRestart
  BY <1>2, <1>3, <1>6 DEF CrashAndRestart
<1>7. ASSUME NEW t \in Threads, Begin(t) \/ Step(t), ~Write(t), ~Rename(t)
      PROVE  \/ UNCHANGED <<files, live, rotated>>
             \/ /\ files' = Append(files, {}) /\ live = 0 /\ live' = Len(files) + 1
                /\ rotated' = rotated
  BY <1>7 DEF Begin, Step, NeedsOpen, Count, OpenFile, PathLen, Seed, Install,
              Close, Exists, Search, Reset
<1> QED
  BY <1>2, <1>3, <1>4, <1>5, <1>6, <1>7 DEF Next, vars

LEMMA OnDiskStays ==
  ASSUME TypeOK, OneRotation, [Next]_vars, NEW r, OnDisk(r)
  PROVE  OnDisk(r)'
<1>1. PICK i \in Named \ {0} : r \in files[i]
  BY DEF OnDisk
<1>2. i \in 1 .. Len(files)
  BY <1>1 DEF Named, Range, TypeOK, FilesOK, NamesOK
<1>3. i \in Named' /\ i # 0 /\ r \in files'[i]
  BY <1>1, <1>2, FilesGrow
<1> QED
  BY <1>3 DEF OnDisk

LEMMA OthersStay ==
  ASSUME TypeOK, NEW t \in Threads, Begin(t) \/ Step(t)
  PROVE  \A u \in Threads \ {t} : thread'[u] = thread[u]
BY DEF Begin, Step, NeedsOpen, Write, Count, OpenFile, PathLen, Seed, Install,
       Close, Exists, Search, Rename, Reset, Goto, Return, TypeOK, ThreadsOK, Thread

\* How a thread that takes a step comes to be rotating, and where its record
\* gets into the file.
LEMMA MoverStep ==
  ASSUME TypeOK, Opening, NEW t \in Threads, Begin(t) \/ Step(t)
  PROVE  /\ thread'[t].pc \in {"idle", "check"} => ~thread'[t].rotating
         /\ Rotating(t)' => Rotating(t) \/ Close(t)
         /\ Written(t)' => Write(t) \/ Written(t)
         /\ Written(t)' => thread'[t].rec = thread[t].rec
<1> USE DEF At, Written, Rotating
<1>1. thread[t] \in Thread /\ thread \in [Threads -> Thread]
  BY DEF TypeOK, ThreadsOK
<1>2. CASE Begin(t)
  BY <1>1, <1>2 DEF Begin, Opening, Thread
<1>3. CASE NeedsOpen(t)
  BY <1>1, <1>3 DEF NeedsOpen, Goto, Opening, Thread
<1>4. CASE Write(t)
  BY <1>1, <1>4 DEF Write, Goto, Thread
<1>5. CASE Count(t)
  BY <1>1, <1>5 DEF Count, Goto, Return, Idle, Thread
<1>6. CASE OpenFile(t)
  BY <1>1, <1>6 DEF OpenFile, Thread
<1>7. CASE PathLen(t)
  BY <1>1, <1>7 DEF PathLen, Thread
<1>8. CASE Seed(t)
  BY <1>1, <1>8 DEF Seed, Goto, Thread
<1>9. CASE Install(t)
  BY <1>1, <1>9 DEF Install, Goto, Return, Idle, Thread
<1>10. CASE Close(t)
  BY <1>1, <1>10 DEF Close, Goto, Thread
<1>11. CASE Exists(t)
  BY <1>1, <1>11 DEF Exists, Goto, Thread
<1>12. CASE Search(t)
  BY <1>1, <1>12 DEF Search, Thread
<1>13. CASE Rename(t)
  BY <1>1, <1>13 DEF Rename, Goto, Return, Idle, Thread
<1>14. CASE Reset(t)
  BY <1>1, <1>14 DEF Reset, Thread
<1> QED
  BY <1>2, <1>3, <1>4, <1>5, <1>6, <1>7, <1>8, <1>9, <1>10, <1>11, <1>12, <1>13, <1>14 DEF Step

LEMMA OpeningStep == TypeOK /\ Opening /\ [Next]_vars => Opening'
<1> SUFFICES ASSUME TypeOK, Opening, [Next]_vars PROVE Opening'
  OBVIOUS
<1>1. ASSUME NEW t \in Threads, Begin(t) \/ Step(t) PROVE Opening'
  <2>1. thread'[t].pc \in {"idle", "check"} => ~thread'[t].rotating
    BY <1>1, MoverStep
  <2>2. \A u \in Threads \ {t} : thread'[u] = thread[u]
    BY <1>1, OthersStay
  <2> QED
    BY <2>1, <2>2 DEF Opening, At
<1>2. CASE CrashAndRestart
  BY <1>2 DEF CrashAndRestart, Opening, At, Idle
<1>3. CASE UNCHANGED vars
  BY <1>3 DEF vars, Opening, At
<1> QED
  BY <1>1, <1>2, <1>3 DEF Next

LEMMA OneRotationStep ==
  ASSUME TypeOK, Opening, OneRotation, ~overlap', NEW t \in Threads, Begin(t) \/ Step(t)
  PROVE  OneRotation'
<1>1. \A u \in Threads \ {t} : thread'[u] = thread[u]
  BY OthersStay
<1>2. Rotating(t)' => Rotating(t) \/ Close(t)
  BY MoverStep
<1>3. Close(t) => \A u \in Threads \ {t} : ~Rotating(u)
  BY DEF Close
<1>4. \A u \in Threads \ {t} : Rotating(u)' <=> Rotating(u)
  BY <1>1 DEF Rotating
<1>5. \A u, v \in Threads : Rotating(u)' /\ Rotating(v)' => u = v
  BY <1>2, <1>3, <1>4 DEF OneRotation
<1>6. ASSUME NEW u \in Threads, thread'[u].pc = "rename"
      PROVE  thread'[u].name = Len(rotated') + 1
  <2>1. CASE u # t
    <3>1. thread'[u] = thread[u] /\ Rotating(u)
      BY <1>1, <1>6, <2>1 DEF Rotating
    <3>2. ~Rename(t)
      BY <2>1, <3>1 DEF Rename, Rotating, OneRotation, At
    <3>3. rotated' = rotated
      BY <3>2 DEF Begin, Step, NeedsOpen, Write, Count, OpenFile, PathLen, Seed, Install,
                  Close, Exists, Search, Reset, fsVars
    <3> QED
      BY <1>6, <3>1, <3>3 DEF OneRotation, At
  <2>2. CASE u = t
    <3>1. Search(t)
      BY <1>6, <2>2 DEF Begin, Step, NeedsOpen, Write, Count, OpenFile, PathLen, Seed, Install,
                  Close, Exists, Rename, Reset, Goto, Return, Idle, TypeOK, ThreadsOK, Thread, At
    <3> QED
      BY <2>2, <3>1 DEF Search, fsVars, TypeOK, ThreadsOK, Thread
  <2> QED
    BY <2>1, <2>2
<1> QED
  BY <1>5, <1>6 DEF OneRotation, At

\* The path of the log names a file again before a writer is installed on it.
LEMMA WritesStep ==
  ASSUME TypeOK, OneRotation, WritesAreNamed, NEW t \in Threads, Begin(t) \/ Step(t)
  PROVE  WritesAreNamed'
<1> USE DEF fsVars, logVars, ghostVars, At
<1>1. \A u \in Threads \ {t} : thread'[u] = thread[u]
  BY OthersStay
<1>2. Named \ {0} \subseteq Named'
  BY FilesGrow DEF Next
<1>3. writer' # 0 => writer' \in Named'
  <2>1. CASE Install(t)
    BY <1>2, <2>1 DEF Install, WritesAreNamed
  <2>2. CASE ~Install(t)
    <3>1. writer' = writer \/ writer' = 0
      BY <2>2 DEF Begin, Step, NeedsOpen, Write, Count, OpenFile, PathLen, Seed,
                  Close, Exists, Search, Rename, Reset
    <3> QED
      BY <1>2, <3>1 DEF WritesAreNamed
  <2> QED
    BY <2>1, <2>2
<1>4. ASSUME thread'[t].pc \in {"length", "seed", "install"}
      PROVE  thread'[t].handle # 0 /\ thread'[t].handle \in Named'
  <2>1. CASE OpenFile(t)
    <3>1. thread'[t].handle = live'
      BY <2>1 DEF OpenFile, TypeOK, ThreadsOK, Thread
    <3>2. live' # 0
      BY <2>1 DEF OpenFile, TypeOK, FilesOK
    <3> QED
      BY <3>1, <3>2 DEF Named
  <2>2. CASE ~OpenFile(t)
    <3>1. /\ thread[t].pc \in {"length", "seed", "install"}
          /\ thread'[t].handle = thread[t].handle
      BY <1>4, <2>2 DEF Begin, Step, NeedsOpen, Write, Count, PathLen, Seed, Install, Close,
                  Exists, Search, Rename, Reset, Goto, Return, Idle, TypeOK, ThreadsOK, Thread
    <3> QED
      BY <1>2, <3>1 DEF WritesAreNamed
  <2> QED
    BY <2>1, <2>2
<1>5. ASSUME NEW u \in Threads \ {t}, thread'[u].pc \in {"length", "seed", "install"}
      PROVE  thread'[u].handle # 0 /\ thread'[u].handle \in Named'
  BY <1>1, <1>2, <1>5 DEF WritesAreNamed
<1> QED
  BY <1>3, <1>4, <1>5 DEF WritesAreNamed

\* A record goes from the write to the end of its call through files that keep
\* a name, unless a rotation takes the writer before the write.
LEMMA RecordsStep ==
  ASSUME TypeOK, Opening, OneRotation, WritesAreNamed, RecordsSafe,
         NEW t \in Threads, Begin(t) \/ Step(t)
  PROVE  RecordsSafe'
<1> USE DEF fsVars, logVars, ghostVars, At
<1>1. \A u \in Threads \ {t} : thread'[u] = thread[u]
  BY OthersStay
<1>2. \A r : OnDisk(r) => OnDisk(r)'
  BY OnDiskStays DEF Next
<1>3. hit \subseteq hit'
  BY DEF Begin, Step, NeedsOpen, Write, Count, OpenFile, PathLen, Seed, Install,
         Close, Exists, Search, Rename, Reset
<1>4. ASSUME thread'[t].pc = "write"
      PROVE  writer' # 0 \/ thread'[t].rec \in hit'
  <2>1. NeedsOpen(t) \/ Install(t)
    BY <1>4 DEF Begin, Step, NeedsOpen, Write, Count, OpenFile, PathLen, Seed, Close,
                Exists, Search, Rename, Reset, Goto, Return, Idle, TypeOK, ThreadsOK, Thread
  <2>2. CASE NeedsOpen(t)
    BY <1>4, <2>2 DEF NeedsOpen, Goto, TypeOK, ThreadsOK, Thread
  <2>3. CASE Install(t)
    BY <2>3 DEF Install, WritesAreNamed
  <2> QED
    BY <2>1, <2>2, <2>3
<1>5. ASSUME NEW u \in Threads \ {t}, thread'[u].pc = "write"
      PROVE  writer' # 0 \/ thread'[u].rec \in hit'
  <2>1. thread'[u] = thread[u] /\ (writer # 0 \/ thread[u].rec \in hit)
    BY <1>1, <1>5 DEF RecordsSafe
  <2>2. CASE Close(t)
    BY <1>5, <2>1, <2>2 DEF Close, InLog
  <2>3. CASE ~Close(t)
    <3>1. CASE Install(t)
      BY <3>1 DEF Install, WritesAreNamed
    <3>2. CASE ~Install(t)
      <4>1. writer' = writer
        BY <2>3, <3>2 DEF Begin, Step, NeedsOpen, Write, Count, OpenFile, PathLen, Seed,
                          Exists, Search, Rename, Reset
      <4> QED
        BY <1>3, <2>1, <4>1
    <3> QED
      BY <3>1, <3>2
  <2> QED
    BY <2>2, <2>3
<1>6. ASSUME Written(t)'
      PROVE  OnDisk(thread[t].rec)' \/ thread'[t].rec \in hit'
  <2>1. thread'[t].rec = thread[t].rec /\ (Write(t) \/ Written(t))
    BY <1>6, MoverStep
  <2>2. CASE Written(t)
    BY <1>2, <1>3, <2>1, <2>2 DEF RecordsSafe
  <2>3. CASE Write(t) /\ writer = 0
    BY <2>1, <2>3, <1>3 DEF Write, RecordsSafe
  <2>4. CASE Write(t) /\ writer # 0
    <3>1. writer \in 1 .. Len(files) /\ files \in Seq(SUBSET Nat)
      BY <2>4 DEF TypeOK, FilesOK
    <3>2. thread[t].rec \in files'[writer]
      BY <2>4, <3>1 DEF Write
    <3>3. writer \in Named' \ {0}
      BY <2>4 DEF Write, WritesAreNamed, Named
    <3> QED
      BY <2>1, <3>2, <3>3 DEF OnDisk
  <2> QED
    BY <2>1, <2>2, <2>3, <2>4
<1>7. ASSUME NEW u \in Threads \ {t}, Written(u)'
      PROVE  OnDisk(thread[u].rec)' \/ thread'[u].rec \in hit'
  <2>1. thread'[u] = thread[u] /\ Written(u)
    BY <1>1, <1>7 DEF Written, Rotating
  <2> QED
    BY <1>2, <1>3, <2>1 DEF RecordsSafe
<1>8. ASSUME NEW r \in acked'
      PROVE  OnDisk(r)' \/ r \in hit'
  <2>1. r \in acked \/ (r = thread[t].rec /\ Written(t))
    BY <1>8 DEF Begin, Step, NeedsOpen, Write, Count, OpenFile, PathLen, Seed, Install,
                Close, Exists, Search, Rename, Reset, Written, Rotating
  <2> QED
    BY <1>2, <1>3, <2>1 DEF RecordsSafe
<1> QED
  BY <1>4, <1>5, <1>6, <1>7, <1>8 DEF RecordsSafe

\* A restart finds what was on disk, and opens a file that has a name.
LEMMA DiskCrash ==
  ASSUME TypeOK, OneRotation, WritesAreNamed, RecordsSafe, CrashAndRestart
  PROVE  OneRotation' /\ WritesAreNamed' /\ RecordsSafe'
<1>1. \A u \in Threads : thread'[u].pc = "idle"
  BY DEF CrashAndRestart, Idle
<1>2. OneRotation'
  BY <1>1 DEF OneRotation, Rotating, At
<1>3. WritesAreNamed'
  <2>1. writer' = live'
    BY DEF CrashAndRestart, RestartedOn
  <2> QED
    BY <1>1, <2>1 DEF WritesAreNamed, Named
<1>4. RecordsSafe'
  <2>1. \A r \in acked' : OnDisk(r)' \/ r \in hit'
    BY OnDiskStays DEF Next, CrashAndRestart, RecordsSafe
  <2> QED
    BY <1>1, <2>1 DEF RecordsSafe, Written, Rotating, At
<1> QED
  BY <1>2, <1>3, <1>4

LEMMA DiskStutter == DiskInv /\ UNCHANGED vars => DiskInv'
BY DEF DiskInv, OneRotation, WritesAreNamed, RecordsSafe, Named, OnDisk, Written, Rotating, At,
       Range, vars, fsVars, logVars, ghostVars

LEMMA DiskStep == Inv /\ [Next]_vars => DiskInv'
<1> SUFFICES ASSUME Inv, [Next]_vars, ~overlap' PROVE (OneRotation /\ WritesAreNamed /\ RecordsSafe)'
  BY DEF DiskInv
<1>1. CASE UNCHANGED vars
  BY <1>1, DiskStutter DEF Inv, DiskInv
<1>2. ~overlap \/ UNCHANGED vars
  BY DEF Next, Begin, Step, NeedsOpen, Write, Count, OpenFile, PathLen, Seed, Install,
         Close, Exists, Search, Rename, Reset, CrashAndRestart, ghostVars
<1>3. CASE CrashAndRestart
  BY <1>1, <1>2, <1>3, DiskCrash DEF Inv, DiskInv
<1>4. ASSUME NEW t \in Threads, Begin(t) \/ Step(t), ~overlap
      PROVE  (OneRotation /\ WritesAreNamed /\ RecordsSafe)'
  BY <1>4, OneRotationStep, WritesStep, RecordsStep DEF Inv, DiskInv
<1> QED
  BY <1>1, <1>2, <1>3, <1>4 DEF Next

\* A record whose id was handed back stays on disk, through every crash, unless a
\* rotation of another thread fell upon its call, as long as rotations do not overlap.
THEOREM AckedSafe == Spec => []AckedStaysOnDisk
<1>1. Init => Inv /\ Searched
  BY TypeInit DEF Init, Inv, Opening, Searched, DiskInv, OneRotation, WritesAreNamed, RecordsSafe,
                  Rotating, Written, Named, At, Idle
<1>2. Inv /\ Searched /\ [Next]_vars => (Inv /\ Searched)'
  BY TypeNext, SearchedStep, OpeningStep, DiskStep DEF Inv
<1>3. Inv => AckedStaysOnDisk
  BY DEF Inv, DiskInv, RecordsSafe, AckedStaysOnDisk
<1> QED
  BY <1>1, <1>2, <1>3, PTL DEF Spec
-----------------------------------------------------------------------------
(* The counter.  A record is counted a step after it is written, and only   *)
(* the holder of the writer's mutex is between the two.                     *)

OpenPcs == {"open", "length", "seed", "install"}

\* A call that has not written its record yet.
Unwritten(t) ==
  \/ thread[t].pc \in {"check", "write"}
  \/ thread[t].pc \in OpenPcs /\ ~thread[t].rotating

\* A record is written once: no file has it before, and no other call has it.
RecordsFresh ==
  /\ \A t \in Threads, i \in 1 .. Len(files) : Unwritten(t) => thread[t].rec \notin files[i]
  /\ \A t, u \in Threads : ~At(t, "idle") /\ ~At(u, "idle") /\ thread[t].rec = thread[u].rec => t = u

\* The mutex is kept exactly between a write and its count.
MutexKept ==
  /\ locked <=> \E t \in Threads : At(t, "count")
  /\ \A t, u \in Threads : At(t, "count") /\ At(u, "count") => t = u

Uncounted == IF locked THEN 1 ELSE 0

\* Without a rotation the writer is on the log's file, which holds what was
\* counted and the record about to be.
InStep ==
  (\A t \in Threads : ~Rotating(t))
    => live # 0 /\ writer = live /\ Length(live) = bytes + Uncounted

\* A rotation has the log to itself: it takes the file away, and counts anew
\* from an empty one.
RotatesAlone(t) ==
  /\ \A u \in Threads \ {t} : thread[u].pc \in {"idle", "close"}
  /\ thread[t].pc \in {"exists", "search", "rename"} => live # 0
  /\ thread[t].pc \in {"reset", "open"} => live = 0
  /\ thread[t].pc \in {"length", "seed", "install"}
       => live # 0 /\ thread[t].handle = live /\ files[live] = {}
  /\ At(t, "seed") => thread[t].len = 0
  /\ At(t, "install") => bytes = 0

\* No call of log opens a file of its own: the writer is missing only in a rotation.
OnlyRotationOpens == \A t \in Threads : thread[t].pc \in OpenPcs => thread[t].rotating

CountInv ==
  ~overlap /\ ~met =>
    OnlyRotationOpens /\ InStep /\ \A t \in Threads : Rotating(t) => RotatesAlone(t)

LEMMA FreshStep == TypeOK /\ Opening /\ RecordsFresh /\ [Next]_vars => RecordsFresh'
<1> SUFFICES ASSUME TypeOK, Opening, RecordsFresh, [Next]_vars PROVE RecordsFresh'
  OBVIOUS
<1> USE DEF At, fsVars, logVars, ghostVars
<1>1. /\ files \in Seq(SUBSET Nat) /\ logged \in Nat /\ writer \in 0 .. Len(files)
      /\ \A i \in 1 .. Len(files) : files[i] \subseteq 1 .. logged
      /\ thread \in [Threads -> Thread]
      /\ \A u \in Threads : thread[u].pc # "idle" => thread[u].rec \in 1 .. logged
  BY DEF TypeOK, FilesOK, ThreadsOK, GhostsOK
<1>2. ASSUME NEW t \in Threads, Begin(t) \/ Step(t) PROVE RecordsFresh'
  <2>1. \A u \in Threads \ {t} : thread'[u] = thread[u]
    BY <1>2, OthersStay
  <2>2. CASE Begin(t)
    <3>1. /\ thread'[t].rec = logged + 1 /\ thread'[t].pc = "check" /\ files' = files
      BY <1>1, <2>2 DEF Begin, NewId, Thread
    <3>2. \A i \in 1 .. Len(files) : logged + 1 \notin files[i]
      BY <1>1
    <3>3. \A u \in Threads : thread[u].pc # "idle" => thread[u].rec # logged + 1
      BY <1>1
    <3> QED
      BY <2>1, <3>1, <3>2, <3>3 DEF RecordsFresh, Unwritten
  <2>3. CASE Step(t)
    <3>1. /\ thread[t].pc # "idle"
          /\ thread'[t].pc # "idle" => thread'[t].rec = thread[t].rec
          /\ Unwritten(t)' => Unwritten(t) /\ ~Write(t)
      <4> USE DEF Unwritten, OpenPcs, Goto, Return, Idle, Thread
      <4>1. CASE NeedsOpen(t) \/ Write(t) \/ Count(t)
        BY <1>1, <4>1 DEF NeedsOpen, Write, Count, Opening
      <4>2. CASE OpenFile(t) \/ PathLen(t) \/ Seed(t) \/ Install(t)
        BY <1>1, <4>2 DEF OpenFile, PathLen, Seed, Install, Write
      <4>3. CASE Close(t) \/ Exists(t) \/ Search(t) \/ Rename(t) \/ Reset(t)
        BY <1>1, <4>3 DEF Close, Exists, Search, Rename, Reset
      <4> QED
        BY <2>3, <4>1, <4>2, <4>3 DEF Step
    <3>2. \A u, v \in Threads :
            thread'[u].pc # "idle" /\ thread'[v].pc # "idle" /\ thread'[u].rec = thread'[v].rec
              => u = v
      BY <2>1, <3>1 DEF RecordsFresh
    <3>3. \A u \in Threads : Unwritten(u)' => Unwritten(u) /\ thread'[u].rec = thread[u].rec
      BY <2>1, <3>1 DEF Unwritten, OpenPcs
    <3>4. ASSUME NEW u \in Threads, Unwritten(u)', NEW i \in 1 .. Len(files')
          PROVE  thread'[u].rec \notin files'[i]
      <4>1. CASE Write(t)
        <5>1. u # t /\ thread[u].pc # "idle" /\ Unwritten(u) /\ thread'[u].rec = thread[u].rec
          BY <3>1, <3>3, <3>4, <4>1 DEF Unwritten, OpenPcs
        <5>2. thread[u].rec # thread[t].rec
          BY <3>1, <5>1 DEF RecordsFresh
        <5>3. i \in 1 .. Len(files) /\ (files'[i] = files[i] \/ files'[i] = files[i] \cup {thread[t].rec})
          BY <1>1, <3>4, <4>1 DEF Write
        <5> QED
          BY <5>1, <5>2, <5>3 DEF RecordsFresh
      <4>2. CASE ~Write(t)
        <5>1. files' = files \/ files' = Append(files, {})
          BY <2>3, <4>2 DEF Step, NeedsOpen, Count, OpenFile, PathLen, Seed, Install, Close,
               Exists, Search, Rename, Reset
        <5>2. files'[i] = {} \/ (i \in 1 .. Len(files) /\ files'[i] = files[i])
          BY <1>1, <3>4, <5>1
        <5> QED
          BY <3>3, <3>4, <5>2 DEF RecordsFresh
      <4> QED
        BY <4>1, <4>2
    <3> QED
      BY <3>2, <3>4 DEF RecordsFresh
  <2> QED
    BY <1>2, <2>2, <2>3
<1>3. CASE CrashAndRestart
  <2>1. \A u \in Threads : thread'[u].pc = "idle"
    BY <1>3 DEF CrashAndRestart, Idle
  <2> QED
    BY <2>1 DEF RecordsFresh, Unwritten, OpenPcs
<1>4. CASE UNCHANGED vars
  BY <1>4 DEF vars, RecordsFresh, Unwritten
<1> QED
  BY <1>2, <1>3, <1>4 DEF Next

LEMMA MutexStep == TypeOK /\ MutexKept /\ [Next]_vars => MutexKept'
<1> SUFFICES ASSUME TypeOK, MutexKept, [Next]_vars PROVE MutexKept'
  OBVIOUS
<1> USE DEF At, fsVars, logVars, ghostVars
<1>1. thread \in [Threads -> Thread] /\ locked \in BOOLEAN
  BY DEF TypeOK, ThreadsOK, GhostsOK
<1>2. ASSUME NEW t \in Threads, Begin(t) \/ Step(t) PROVE MutexKept'
  <2>1. \A u \in Threads \ {t} : thread'[u] = thread[u]
    BY <1>2, OthersStay
  <2>2. CASE Write(t)
    <3>1. thread'[t].pc = "count" /\ locked' /\ ~locked
      BY <1>1, <2>2 DEF Write, Goto, Thread
    <3> QED
      BY <2>1, <3>1 DEF MutexKept
  <2>3. CASE Count(t)
    <3>1. thread'[t].pc # "count" /\ ~locked' /\ thread[t].pc = "count"
      BY <1>1, <2>3 DEF Count, Goto, Return, Idle, Thread
    <3> QED
      BY <2>1, <3>1 DEF MutexKept
  <2>4. CASE ~Write(t) /\ ~Count(t)
    <3>1. locked' = locked /\ thread[t].pc # "count" /\ thread'[t].pc # "count"
      BY <1>1, <1>2, <2>4 DEF Begin, Step, NeedsOpen, OpenFile, PathLen, Seed, Install, Close,
           Exists, Search, Rename, Reset, Goto, Return, Idle, Thread
    <3> QED
      BY <2>1, <3>1 DEF MutexKept
  <2> QED
    BY <2>2, <2>3, <2>4
<1>3. CASE CrashAndRestart
  BY <1>3 DEF CrashAndRestart, MutexKept, Idle
<1>4. CASE UNCHANGED vars
  BY <1>4 DEF vars, MutexKept
<1> QED
  BY <1>2, <1>3, <1>4 DEF Next

\* As long as nothing met a rotation, only the rotation itself can take a step
\* during it.
LEMMA LoneMover ==
  ASSUME TypeOK, CountInv, ~overlap', ~met', NEW t \in Threads, Begin(t) \/ Step(t)
  PROVE  /\ ~overlap /\ ~met
         /\ \A u \in Threads \ {t} : ~Rotating(u) /\ ~Rotating(u)'
<1> USE DEF At, fsVars, logVars, ghostVars
<1>1. ~overlap /\ ~met
  <2>1. CASE Begin(t)
    BY <2>1 DEF Begin
  <2>2. CASE Close(t)
    BY <2>2 DEF Close
  <2>3. CASE Step(t) /\ ~Close(t)
    BY <2>3 DEF Step, NeedsOpen, Write, Count, OpenFile, PathLen, Seed, Install,
         Exists, Search, Rename, Reset
  <2> QED
    BY <2>1, <2>2, <2>3
<1>2. ASSUME NEW u \in Threads \ {t} PROVE ~Rotating(u)
  <2>1. CASE Begin(t)
    BY <2>1 DEF Begin
  <2>2. CASE Close(t)
    BY <2>2 DEF Close
  <2>3. CASE Step(t) /\ ~Close(t)
    <3>1. thread[t].pc \notin {"idle", "close"}
      BY <2>3 DEF Step, NeedsOpen, Write, Count, OpenFile, PathLen, Seed, Install,
           Exists, Search, Rename, Reset
    <3> QED
      BY <1>1, <3>1 DEF CountInv, RotatesAlone
  <2> QED
    BY <2>1, <2>2, <2>3
<1>3. \A u \in Threads \ {t} : thread'[u] = thread[u]
  BY OthersStay
<1> QED
  BY <1>1, <1>2, <1>3 DEF Rotating

\* The counter keeps step with the file, action by action.
LEMMA CountStep ==
  ASSUME TypeOK, Opening, RecordsFresh, MutexKept, CountInv, ~overlap', ~met',
         NEW t \in Threads, Begin(t) \/ Step(t)
  PROVE  OnlyRotationOpens' /\ InStep' /\ \A u \in Threads : Rotating(u)' => RotatesAlone(u)'
<1> USE DEF At, fsVars, logVars, ghostVars
<1>1. /\ ~overlap /\ ~met /\ \A u \in Threads \ {t} : ~Rotating(u) /\ ~Rotating(u)'
      /\ \A u \in Threads \ {t} : thread'[u] = thread[u]
  BY LoneMover, OthersStay
<1>2. /\ files \in Seq(SUBSET Nat) /\ live \in 0 .. Len(files) /\ bytes \in Nat
      /\ thread \in [Threads -> Thread] /\ thread[t] \in Thread /\ locked \in BOOLEAN
  BY DEF TypeOK, FilesOK, ThreadsOK, GhostsOK
<1>3. /\ \A u \in Threads : thread[u].pc \in OpenPcs => thread[u].rotating
      /\ InStep
      /\ Rotating(t) => RotatesAlone(t)
  BY <1>1 DEF CountInv, OnlyRotationOpens
<1>4. /\ ~Rotating(t) => live # 0 /\ writer = live /\ Length(live) = bytes + Uncounted
      /\ (~Rotating(t)' => live' # 0 /\ writer' = live' /\ Length(live)' = bytes' + Uncounted') => InStep'
  <2>1. (\A u \in Threads : ~Rotating(u)) <=> ~Rotating(t)
    BY <1>1
  <2>2. (\A u \in Threads : ~Rotating(u))' <=> ~Rotating(t)'
    BY <1>1
  <2> QED
    BY <1>3, <2>1, <2>2 DEF InStep
<1>5. SUFFICES /\ thread'[t].pc \in OpenPcs => thread'[t].rotating
               /\ ~Rotating(t)' => live' # 0 /\ writer' = live' /\ Length(live)' = bytes' + Uncounted'
               /\ Rotating(t)' => RotatesAlone(t)'
  BY <1>1, <1>3, <1>4 DEF OnlyRotationOpens
<1>6. CASE Begin(t)
  <2>1. thread'[t].pc = "check" /\ thread[t].pc = "idle"
    BY <1>2, <1>6 DEF Begin
  <2>2. ~Rotating(t) /\ ~Rotating(t)'
    BY <2>1 DEF Rotating
  <2>3. UNCHANGED <<files, live, writer, bytes, locked>>
    BY <1>6 DEF Begin
  <2> QED
    BY <1>4, <2>1, <2>2, <2>3 DEF OpenPcs, Length, Uncounted
<1>7. CASE NeedsOpen(t)
  <2>1. ~Rotating(t)
    BY <1>7 DEF NeedsOpen, Rotating
  <2>2. thread'[t].pc = "write" /\ UNCHANGED <<files, live, writer, bytes, locked>>
    BY <1>2, <1>4, <1>7, <2>1 DEF NeedsOpen, Goto
  <2> QED
    BY <1>4, <2>1, <2>2 DEF OpenPcs, Length, Uncounted, Rotating
<1>8. CASE Write(t)
  <2>1. ~Rotating(t) /\ ~locked /\ locked' = TRUE
    BY <1>8 DEF Write, Rotating
  <2>2. live # 0 /\ writer = live /\ Cardinality(files[live]) = bytes
    BY <1>2, <1>4, <2>1 DEF Length, Uncounted
  <2>3. /\ thread'[t].pc = "count" /\ live' = live /\ writer' = writer /\ bytes' = bytes
        /\ files'[live] = files[live] \cup {thread[t].rec}
    BY <1>2, <1>8, <2>2 DEF Write, Goto
  <2>4. thread[t].rec \notin files[live]
    BY <1>2, <1>8, <2>2 DEF Write, RecordsFresh, Unwritten
  <2>5. Cardinality(files'[live]) = bytes + 1
    <3>1. IsFiniteSet(files[live])
      BY <1>2, <2>2, FileFinite
    <3>2. Cardinality(files[live] \cup {thread[t].rec}) = Cardinality(files[live]) + 1
      BY <2>4, <3>1, FS_AddElement
    <3> QED
      BY <2>2, <2>3, <3>2
  <2> QED
    BY <2>1, <2>2, <2>3, <2>5 DEF OpenPcs, Length, Uncounted, Rotating
<1>9. CASE Count(t)
  <2>1. ~Rotating(t) /\ locked /\ ~locked'
    BY <1>9 DEF Count, Rotating, MutexKept
  <2>2. /\ thread'[t].pc \in {"idle", "close"} /\ UNCHANGED <<files, live, writer>>
        /\ bytes' = bytes + 1
    <3>1. Goto(t, "close") \/ Return(t)
      BY <1>9 DEF Count
    <3>2. thread'[t].pc \in {"idle", "close"}
      <4>1. CASE Goto(t, "close")
        BY <1>2, <4>1 DEF Goto
      <4>2. CASE Return(t)
        BY <1>2, <4>2 DEF Return, Idle
      <4> QED
        BY <3>1, <4>1, <4>2
    <3> QED
      BY <1>9, <3>2 DEF Count
  <2> QED
    BY <1>2, <1>4, <2>1, <2>2 DEF OpenPcs, Length, Uncounted, Rotating
<1>10. CASE OpenFile(t)
  <2>1. Rotating(t) /\ thread[t].rotating
    BY <1>3, <1>10 DEF OpenFile, Rotating, OpenPcs
  <2>2. live = 0
    BY <1>3, <1>10, <2>1 DEF OpenFile, RotatesAlone
  <2>3. live' = Len(files) + 1 /\ files'[live'] = {} /\ live' # 0
    BY <1>2, <1>10, <2>2 DEF OpenFile
  <2>4. thread'[t].pc = "length" /\ thread'[t].handle = live' /\ thread'[t].rotating
    BY <1>2, <1>10, <2>1 DEF OpenFile, Thread
  <2> QED
    BY <1>1, <1>3, <2>1, <2>3, <2>4 DEF Rotating, RotatesAlone
<1>11. CASE PathLen(t)
  <2>1. Rotating(t) /\ thread[t].rotating
    BY <1>3, <1>11 DEF PathLen, Rotating, OpenPcs
  <2>2. live # 0 /\ thread[t].handle = live /\ files[live] = {}
    BY <1>3, <1>11, <2>1 DEF PathLen, RotatesAlone
  <2>3. Length(live) = 0
    BY <2>2, FS_EmptySet DEF Length
  <2>4. /\ thread'[t].pc = "seed" /\ thread'[t].handle = live /\ thread'[t].rotating
        /\ thread'[t].len = 0 /\ UNCHANGED <<files, live>>
    BY <1>2, <1>11, <2>1, <2>2, <2>3 DEF PathLen, Thread
  <2> QED
    BY <1>1, <1>3, <2>1, <2>2, <2>4 DEF Rotating, RotatesAlone
<1>12. CASE Seed(t)
  <2>1. Rotating(t) /\ thread[t].rotating
    BY <1>3, <1>12 DEF Seed, Rotating, OpenPcs
  <2>2. live # 0 /\ thread[t].handle = live /\ files[live] = {} /\ thread[t].len = 0
    BY <1>3, <1>12, <2>1 DEF Seed, RotatesAlone
  <2>3. /\ thread'[t].pc = "install" /\ thread'[t].handle = live /\ thread'[t].rotating
        /\ bytes' = 0 /\ UNCHANGED <<files, live>>
    BY <1>2, <1>12, <2>1, <2>2 DEF Seed, Goto, Thread
  <2> QED
    BY <1>1, <1>3, <2>1, <2>2, <2>3 DEF Rotating, RotatesAlone
<1>13. CASE Install(t)
  <2>1. Rotating(t) /\ thread[t].rotating
    BY <1>3, <1>13 DEF Install, Rotating, OpenPcs
  <2>2. live # 0 /\ thread[t].handle = live /\ files[live] = {} /\ bytes = 0
    BY <1>3, <1>13, <2>1 DEF Install, RotatesAlone
  <2>3. /\ thread'[t].pc = "idle" /\ writer' = live /\ UNCHANGED <<files, live, bytes>>
        /\ locked' = locked /\ ~locked
    BY <1>2, <1>13, <2>1, <2>2 DEF Install, Return, Idle
  <2> QED
    BY <2>2, <2>3, FS_EmptySet DEF OpenPcs, Length, Uncounted, Rotating
<1>14. CASE Close(t)
  <2>1. ~Rotating(t) /\ ~locked
    BY <1>14 DEF Close, Rotating
  <2>2. thread'[t].pc = "exists" /\ live' = live /\ live # 0
    BY <1>2, <1>4, <1>14, <2>1 DEF Close, Goto
  <2>3. \A u \in Threads \ {t} : ~InLog(u) /\ thread[u].pc # "count"
    BY <1>14, <2>1 DEF Close, MutexKept
  <2>4. \A u \in Threads \ {t} : thread[u] \in Thread
    BY <1>2
  <2>5. \A u \in Threads \ {t} : thread'[u].pc \in {"idle", "close"}
    BY <1>1, <2>3, <2>4 DEF InLog, Rotating, Thread, Pcs
  <2> QED
    BY <2>2, <2>5 DEF OpenPcs, Rotating, RotatesAlone
<1>15. CASE Exists(t)
  <2>1. Rotating(t)
    BY <1>15 DEF Exists, Rotating
  <2>2. live # 0
    BY <1>3, <1>15, <2>1 DEF Exists, RotatesAlone
  <2>3. thread'[t].pc = "search" /\ live' = live
    BY <1>2, <1>15, <2>2 DEF Exists, Goto
  <2> QED
    BY <1>1, <1>3, <2>1, <2>2, <2>3 DEF OpenPcs, Rotating, RotatesAlone
<1>16. CASE Search(t)
  <2>1. Rotating(t)
    BY <1>16 DEF Search, Rotating
  <2>2. thread'[t].pc = "rename" /\ live' = live /\ live # 0
    BY <1>2, <1>3, <1>16, <2>1 DEF Search, RotatesAlone
  <2> QED
    BY <1>1, <1>3, <2>1, <2>2 DEF OpenPcs, Rotating, RotatesAlone
<1>17. CASE Rename(t)
  <2>1. Rotating(t)
    BY <1>17 DEF Rename, Rotating
  <2>2. live # 0
    BY <1>3, <1>17, <2>1 DEF Rename, RotatesAlone
  <2>3. thread'[t].pc = "reset" /\ live' = 0
    <3>1. Goto(t, "reset") /\ live' = 0
      BY <1>17, <2>2 DEF Rename
    <3> QED
      BY <1>2, <3>1 DEF Goto
  <2> QED
    BY <1>1, <1>3, <2>1, <2>3 DEF OpenPcs, Rotating, RotatesAlone
<1>18. CASE Reset(t)
  <2>1. Rotating(t)
    BY <1>18 DEF Reset, Rotating
  <2>2. thread'[t].pc = "open" /\ thread'[t].rotating /\ live' = live /\ live = 0
    BY <1>2, <1>3, <1>18, <2>1 DEF Reset, RotatesAlone, Thread
  <2> QED
    BY <1>1, <1>3, <2>1, <2>2 DEF Rotating, RotatesAlone
<1> QED
  BY <1>6, <1>7, <1>8, <1>9, <1>10, <1>11, <1>12, <1>13, <1>14, <1>15, <1>16, <1>17, <1>18
  DEF Step

\* A restart opens the log's file, and counts what it holds.
LEMMA CountCrash == TypeOK /\ CrashAndRestart => CountInv'
<1> SUFFICES ASSUME TypeOK, CrashAndRestart PROVE CountInv'
  OBVIOUS
<1>1. files \in Seq(SUBSET Nat) /\ live \in 0 .. Len(files)
  BY DEF TypeOK, FilesOK
<1>2. \A u \in Threads : thread'[u].pc = "idle"
  BY DEF CrashAndRestart, Idle
<1>3. ~locked' /\ writer' = live'
  BY DEF CrashAndRestart, RestartedOn
<1>4. live' # 0 /\ bytes' = Cardinality(files'[live'])
  <2>1. CASE live = 0
    <3>1. live' = Len(files) + 1 /\ files' = Append(files, {}) /\ bytes' = 0
      BY <2>1 DEF CrashAndRestart, RestartedOn
    <3>2. files'[live'] = {} /\ live' # 0
      BY <1>1, <3>1
    <3> QED
      BY <3>1, <3>2, FS_EmptySet
  <2>2. CASE live # 0
    BY <1>1, <2>2 DEF CrashAndRestart, RestartedOn, Length
  <2> QED
    BY <2>1, <2>2
<1>5. bytes' \in Nat
  BY TypeCrash DEF TypeOK, GhostsOK
<1>6. InStep'
  BY <1>3, <1>4, <1>5 DEF InStep, Length, Uncounted
<1>7. OnlyRotationOpens' /\ \A u \in Threads : ~Rotating(u)'
  BY <1>2 DEF OnlyRotationOpens, OpenPcs, Rotating
<1> QED
  BY <1>6, <1>7 DEF CountInv

LEMMA CountNext ==
  TypeOK /\ Opening /\ RecordsFresh /\ MutexKept /\ CountInv /\ [Next]_vars => CountInv'
<1> SUFFICES ASSUME TypeOK, Opening, RecordsFresh, MutexKept, CountInv, [Next]_vars PROVE CountInv'
  OBVIOUS
<1>1. ASSUME NEW t \in Threads, Begin(t) \/ Step(t) PROVE CountInv'
  BY <1>1, CountStep DEF CountInv
<1>2. CASE UNCHANGED vars
  BY <1>2 DEF vars, fsVars, logVars, ghostVars, CountInv, OnlyRotationOpens, InStep, Length,
       Uncounted, RotatesAlone, Rotating, At
<1> QED
  BY <1>1, <1>2, CountCrash DEF Next

LEMMA CountInit == Init => RecordsFresh /\ MutexKept /\ CountInv
<1> SUFFICES ASSUME Init PROVE RecordsFresh /\ MutexKept /\ CountInv
  OBVIOUS
<1>1. \A u \in Threads : thread[u].pc = "idle"
  BY DEF Init, Idle
<1>2. live = 1 /\ writer = 1 /\ bytes = 0 /\ locked = FALSE /\ files[live] = {}
  BY DEF Init
<1>3. InStep
  BY <1>2, FS_EmptySet DEF InStep, Length, Uncounted
<1> QED
  BY <1>1, <1>2, <1>3 DEF RecordsFresh, MutexKept, CountInv, OnlyRotationOpens, Unwritten, OpenPcs,
       Rotating, At

\* Whenever the log is at rest, the counter says how long the log's file is and the
\* writer is on it, however many rotations and crashes there were, as long as no
\* rotation met another call.
THEOREM CounterRight == Spec => []CounterMatchesFile
<1> DEFINE CInv == TypeOK /\ Searched /\ Opening /\ RecordsFresh /\ MutexKept /\ CountInv
<1>1. Init => CInv
  BY TypeInit, CountInit DEF Init, Opening, Searched, At, Idle
<1>2. CInv /\ [Next]_vars => CInv'
  BY TypeNext, SearchedStep, OpeningStep, FreshStep, MutexStep, CountNext
<1>3. CInv => CounterMatchesFile
  <2> SUFFICES ASSUME CInv, \A t \in Threads : At(t, "idle"), ~overlap, ~met
               PROVE  writer = live /\ bytes = Length(live)
    BY DEF CounterMatchesFile
  <2>1. ~locked /\ \A t \in Threads : ~Rotating(t)
    BY DEF MutexKept, Rotating, At
  <2> QED
    BY <2>1 DEF CountInv, InStep, Uncounted, TypeOK, GhostsOK
<1> QED
  BY <1>1, <1>2, <1>3, PTL DEF Spec
=============================================================================
