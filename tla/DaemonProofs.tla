---------------------------- MODULE DaemonProofs ----------------------------
(***************************************************************************)
(* Proofs about Daemon, for any number of callers, daemons, calls and      *)
(* deaths.                                                                 *)
(***************************************************************************)
EXTENDS Daemon, FiniteSetTheorems, TLAPS

Caller == [pc : Pcs, pid : Pids \cup {NoPid}, child : Pids \cup {NoPid}]

\* A caller that read a pid, one that has made sure that nobody runs, and one
\* that has, or failed to get, a child.
Reading == {"alive", "probe", "stop_kill", "query_alive"}
Clear   == {"load", "spawn", "stop_remove", "query_remove"}
Waiting == {"poll", "ready", "unclaim", "kill"}

FileNamesSpawned ==
  /\ file \in {"none", "starting"} \cup Pids
  /\ file \in Pids => proc[file] \notin {"unborn", "booting"}

OnePort ==
  /\ proc \in [Pids -> States]
  /\ \A p, q \in Pids : proc[p] = "serving" /\ proc[q] = "serving" => p = q

CallersOK ==
  /\ caller \in [Callers -> Caller]
  /\ \A c \in Callers : caller[c].child \in Pids => proc[caller[c].child] # "unborn"
  /\ \A c \in Callers : caller[c].pc \notin Waiting => caller[c].child = NoPid
  /\ \A c \in Callers : caller[c].pc \in {"poll", "ready", "kill"} => caller[c].child \in Pids
  /\ \A c, d \in Callers : caller[c].child \in Pids /\ caller[c].child = caller[d].child => c = d

TypeInv == FileNamesSpawned /\ OnePort /\ CallersOK

\* Undisturbed, there is one daemon at a time, and every call knows it.
OneDaemon == \A p, q \in Pids : Live(p) /\ Live(q) => p = q

\* It is in the file from its registration on, except while it is being killed.
Findable ==
  \A p \in Pids : proc[p] \in {"named", "serving"} =>
    file = p \/ \E c \in Callers : At(c, "kill") /\ caller[c].child = p

\* Nothing runs beside a start, or beside a child on its way, but its starter.
StartAlone ==
  /\ \A c, d \in Callers : InStart(c) /\ Busy(d) => c = d
  /\ \A p \in Pids, c \in Callers :
       OnItsWay(p) /\ Busy(c) => caller[c].pc \in Waiting /\ caller[c].child = p

\* What a call has read still holds of the daemon.
ReadingsHold ==
  /\ \A c \in Callers, p \in Pids : Live(p) /\ caller[c].pc \in Reading => p = caller[c].pid
  /\ \A c \in Callers, p \in Pids : caller[c].pc \in Clear => ~Live(p)
  /\ \A c \in Callers, p \in Pids : Live(p) /\ caller[c].pc \in Waiting => p = caller[c].child
  /\ \A c \in Callers : At(c, "ready") => file = caller[c].child

Quiet == OneDaemon /\ Findable /\ StartAlone /\ ReadingsHold

Inv == TypeInv /\ deaths \in Nat /\ (Undisturbed => Quiet)

-----------------------------------------------------------------------------
(* Types *)

LEMMA PidsApart == NoPid \notin Pids /\ "none" \notin Pids /\ "starting" \notin Pids
BY DaemonAssumption DEF NoPid

LEMMA TypeCaller ==
  ASSUME TypeInv, NEW c \in Callers,
         \/ StartRead(c) \/ StartAlive(c) \/ StartProbe(c) \/ StartClaim(c) \/ StartSpawn(c)
         \/ StartPoll(c) \/ StartReady(c) \/ StartUnclaim(c) \/ StartKill(c)
         \/ StopRead(c) \/ StopKill(c) \/ StopRemove(c)
         \/ HealthRead(c) \/ StatsRead(c) \/ QueryAlive(c) \/ QueryRemove(c)
         \/ CallerDies(c)
  PROVE  TypeInv'
<1> USE PidsApart DEF ghostVars, At
<1>1. CASE StartRead(c)
  <2>1. FileNamesSpawned'
    BY <1>1 DEF StartRead, Begin, Live, TypeInv, FileNamesSpawned, OnePort, States
  <2>2. OnePort'
    BY <1>1 DEF StartRead, Begin, Live, TypeInv, OnePort, States
  <2>3. CallersOK'
    BY <1>1
    DEF StartRead, Begin, Live, ReadPid, TypeInv, OnePort, CallersOK, Caller, Pcs, Waiting,
      States
  <2> QED
    BY <2>1, <2>2, <2>3 DEF TypeInv
<1>2. CASE StartAlive(c)
  <2>1. FileNamesSpawned'
    BY <1>2 DEF StartAlive, Live, TypeInv, FileNamesSpawned, OnePort, States
  <2>2. OnePort'
    BY <1>2 DEF StartAlive, Live, TypeInv, OnePort, States
  <2>3. CallersOK'
    BY <1>2
    DEF StartAlive, Live, Goto, TypeInv, OnePort, CallersOK, Caller, Pcs, Waiting, States
  <2> QED
    BY <2>1, <2>2, <2>3 DEF TypeInv
<1>3. CASE StartProbe(c)
  <2>1. FileNamesSpawned'
    BY <1>3 DEF StartProbe, Live, TypeInv, FileNamesSpawned, OnePort, States
  <2>2. OnePort'
    BY <1>3 DEF StartProbe, Live, TypeInv, OnePort, States
  <2>3. CallersOK'
    <3>1. CASE Return(c)
      BY <1>3, <3>1 DEF StartProbe, Goto, Return, Idle, TypeInv, CallersOK, Caller, Pcs, Waiting
    <3>2. CASE Goto(c, "load")
      BY <1>3, <3>2 DEF StartProbe, Goto, Return, Idle, TypeInv, CallersOK, Caller, Pcs, Waiting
    <3> QED
      BY <1>3, <3>1, <3>2 DEF StartProbe
  <2> QED
    BY <2>1, <2>2, <2>3 DEF TypeInv
<1>4. CASE StartClaim(c)
  <2>1. FileNamesSpawned'
    BY <1>4 DEF StartClaim, Live, TypeInv, FileNamesSpawned, OnePort, States
  <2>2. OnePort'
    BY <1>4 DEF StartClaim, Live, TypeInv, OnePort, States
  <2>3. CallersOK'
    <3>1. CASE Return(c)
      BY <1>4, <3>1 DEF StartClaim, Goto, Return, Idle, TypeInv, CallersOK, Caller, Pcs, Waiting
    <3>2. CASE Goto(c, "spawn")
      BY <1>4, <3>2 DEF StartClaim, Goto, Return, Idle, TypeInv, CallersOK, Caller, Pcs, Waiting
    <3> QED
      BY <1>4, <3>1, <3>2 DEF StartClaim
  <2> QED
    BY <2>1, <2>2, <2>3 DEF TypeInv
<1>5. CASE StartSpawn(c)
  <2>1. FileNamesSpawned'
    BY <1>5 DEF StartSpawn, Live, TypeInv, FileNamesSpawned, OnePort, States
  <2>2. OnePort'
    BY <1>5 DEF StartSpawn, Live, TypeInv, OnePort, States
  <2>3. CallersOK'
    <3>1. CASE Goto(c, "unclaim") /\ UNCHANGED proc
      BY <1>5, <3>1 DEF StartSpawn, Goto, TypeInv, CallersOK, Caller, Pcs, Waiting
    <3>2. ASSUME NEW p \in Pids, proc[p] = "unborn", proc' = [proc EXCEPT ![p] = "booting"],
                 caller' = [caller EXCEPT ![c].pc = "poll", ![c].child = p]
          PROVE  CallersOK'
      <4>1. caller' \in [Callers -> Caller]
        BY <3>2 DEF TypeInv, CallersOK, Caller, Pcs
      <4>2. /\ caller'[c].pc = "poll" /\ caller'[c].child = p
            /\ \A d \in Callers \ {c} : caller'[d] = caller[d]
        BY <3>2 DEF TypeInv, CallersOK, Caller
      <4>3. \A d \in Callers \ {c} : caller[d].child # p
        BY <3>2 DEF TypeInv, CallersOK
      <4>4. proc'[p] = "booting" /\ \A q \in Pids \ {p} : proc'[q] = proc[q]
        BY <3>2 DEF TypeInv, OnePort
      <4>5. \A d \in Callers : caller'[d].child \in Pids => proc'[caller'[d].child] # "unborn"
        BY <4>2, <4>3, <4>4 DEF TypeInv, CallersOK
      <4> QED
        BY <4>1, <4>2, <4>3, <4>5 DEF TypeInv, CallersOK, Caller, Waiting
    <3> QED
      BY <1>5, <3>1, <3>2 DEF StartSpawn
  <2> QED
    BY <2>1, <2>2, <2>3 DEF TypeInv
<1>6. CASE StartPoll(c)
  <2>1. FileNamesSpawned'
    BY <1>6 DEF StartPoll, Live, TypeInv, FileNamesSpawned, OnePort, States
  <2>2. OnePort'
    BY <1>6 DEF StartPoll, Live, TypeInv, OnePort, States
  <2>3. CallersOK'
    BY <1>6 DEF StartPoll, Live, Goto, TypeInv, OnePort, CallersOK, Caller, Pcs, Waiting, States
  <2> QED
    BY <2>1, <2>2, <2>3 DEF TypeInv
<1>7. CASE StartReady(c)
  <2>1. FileNamesSpawned'
    BY <1>7 DEF StartReady, Live, TypeInv, FileNamesSpawned, OnePort, States
  <2>2. OnePort'
    BY <1>7 DEF StartReady, Live, TypeInv, OnePort, States
  <2>3. CallersOK'
    <3>1. CASE Return(c)
      BY <1>7, <3>1 DEF StartReady, Goto, Return, Idle, TypeInv, CallersOK, Caller, Pcs, Waiting
    <3>2. CASE Goto(c, "unclaim")
      BY <1>7, <3>2 DEF StartReady, Goto, Return, Idle, TypeInv, CallersOK, Caller, Pcs, Waiting
    <3>3. CASE Goto(c, "poll")
      BY <1>7, <3>3 DEF StartReady, Goto, Return, Idle, TypeInv, CallersOK, Caller, Pcs, Waiting
    <3> QED
      BY <1>7, <3>1, <3>2, <3>3 DEF StartReady
  <2> QED
    BY <2>1, <2>2, <2>3 DEF TypeInv
<1>8. CASE StartUnclaim(c)
  <2>1. FileNamesSpawned'
    BY <1>8 DEF StartUnclaim, Live, TypeInv, FileNamesSpawned, OnePort, States
  <2>2. OnePort'
    BY <1>8 DEF StartUnclaim, Live, TypeInv, OnePort, States
  <2>3. CallersOK'
    BY <1>8
    DEF StartUnclaim, Live, Goto, Return, Idle, TypeInv, OnePort, CallersOK, Caller, Pcs,
      Waiting, States
  <2> QED
    BY <2>1, <2>2, <2>3 DEF TypeInv
<1>9. CASE StartKill(c)
  <2>1. FileNamesSpawned'
    BY <1>9 DEF StartKill, Signal, Live, TypeInv, FileNamesSpawned, OnePort, States
  <2>2. OnePort'
    BY <1>9 DEF StartKill, Signal, Live, TypeInv, OnePort, States
  <2>3. CallersOK'
    BY <1>9
    DEF StartKill, Signal, Live, Return, Idle, TypeInv, OnePort, CallersOK, Caller, Pcs,
      Waiting, States
  <2> QED
    BY <2>1, <2>2, <2>3 DEF TypeInv
<1>10. CASE StopRead(c)
  <2>1. FileNamesSpawned'
    BY <1>10 DEF StopRead, Begin, Live, TypeInv, FileNamesSpawned, OnePort, States
  <2>2. OnePort'
    BY <1>10 DEF StopRead, Begin, Live, TypeInv, OnePort, States
  <2>3. CallersOK'
    BY <1>10
    DEF StopRead, Begin, Live, Return, Idle, ReadPid, TypeInv, OnePort, CallersOK, Caller, Pcs,
      Waiting, States
  <2> QED
    BY <2>1, <2>2, <2>3 DEF TypeInv
<1>11. CASE StopKill(c)
  <2>1. FileNamesSpawned'
    BY <1>11 DEF StopKill, Signal, Live, TypeInv, FileNamesSpawned, OnePort, States
  <2>2. OnePort'
    BY <1>11 DEF StopKill, Signal, Live, TypeInv, OnePort, States
  <2>3. CallersOK'
    BY <1>11
    DEF StopKill, Signal, Live, Goto, TypeInv, OnePort, CallersOK, Caller, Pcs, Waiting, States
  <2> QED
    BY <2>1, <2>2, <2>3 DEF TypeInv
<1>12. CASE StopRemove(c)
  <2>1. FileNamesSpawned'
    BY <1>12 DEF StopRemove, Live, TypeInv, FileNamesSpawned, OnePort, States
  <2>2. OnePort'
    BY <1>12 DEF StopRemove, Live, TypeInv, OnePort, States
  <2>3. CallersOK'
    BY <1>12
    DEF StopRemove, Live, Return, Idle, TypeInv, OnePort, CallersOK, Caller, Pcs, Waiting,
      States
  <2> QED
    BY <2>1, <2>2, <2>3 DEF TypeInv
<1>13. CASE HealthRead(c)
  <2>1. FileNamesSpawned'
    BY <1>13 DEF HealthRead, Begin, Live, TypeInv, FileNamesSpawned, OnePort, States
  <2>2. OnePort'
    BY <1>13 DEF HealthRead, Begin, Live, TypeInv, OnePort, States
  <2>3. CallersOK'
    BY <1>13
    DEF HealthRead, Begin, Live, Return, Idle, ReadPid, TypeInv, OnePort, CallersOK, Caller,
      Pcs, Waiting, States
  <2> QED
    BY <2>1, <2>2, <2>3 DEF TypeInv
<1>14. CASE StatsRead(c)
  <2>1. FileNamesSpawned'
    BY <1>14 DEF StatsRead, Begin, Live, TypeInv, FileNamesSpawned, OnePort, States
  <2>2. OnePort'
    BY <1>14 DEF StatsRead, Begin, Live, TypeInv, OnePort, States
  <2>3. CallersOK'
    BY <1>14
    DEF StatsRead, Begin, Live, ReadPid, TypeInv, OnePort, CallersOK, Caller, Pcs, Waiting,
      States
  <2> QED
    BY <2>1, <2>2, <2>3 DEF TypeInv
<1>15. CASE QueryAlive(c)
  <2>1. FileNamesSpawned'
    BY <1>15 DEF QueryAlive, Live, TypeInv, FileNamesSpawned, OnePort, States
  <2>2. OnePort'
    BY <1>15 DEF QueryAlive, Live, TypeInv, OnePort, States
  <2>3. CallersOK'
    BY <1>15
    DEF QueryAlive, Live, Goto, Return, Idle, TypeInv, OnePort, CallersOK, Caller, Pcs, Waiting,
      States
  <2> QED
    BY <2>1, <2>2, <2>3 DEF TypeInv
<1>16. CASE QueryRemove(c)
  <2>1. FileNamesSpawned'
    BY <1>16 DEF QueryRemove, Live, TypeInv, FileNamesSpawned, OnePort, States
  <2>2. OnePort'
    BY <1>16 DEF QueryRemove, Live, TypeInv, OnePort, States
  <2>3. CallersOK'
    BY <1>16
    DEF QueryRemove, Live, Return, Idle, TypeInv, OnePort, CallersOK, Caller, Pcs, Waiting,
      States
  <2> QED
    BY <2>1, <2>2, <2>3 DEF TypeInv
<1>17. CASE CallerDies(c)
  <2>1. FileNamesSpawned'
    BY <1>17 DEF CallerDies, Live, TypeInv, FileNamesSpawned, OnePort, States
  <2>2. OnePort'
    BY <1>17 DEF CallerDies, Live, TypeInv, OnePort, States
  <2>3. CallersOK'
    BY <1>17
    DEF CallerDies, Live, Return, Idle, TypeInv, OnePort, CallersOK, Caller, Pcs, Waiting,
      States
  <2> QED
    BY <2>1, <2>2, <2>3 DEF TypeInv
<1> QED
  BY <1>1, <1>2, <1>3, <1>4, <1>5, <1>6, <1>7, <1>8, <1>9, <1>10, <1>11, <1>12, <1>13, <1>14, <1>15, <1>16, <1>17

LEMMA TypeDaemon ==
  ASSUME TypeInv, NEW p \in Pids, Register(p) \/ Refuse(p) \/ Bind(p) \/ Crash(p) \/ Reap(p)
  PROVE  TypeInv'
<1> USE PidsApart DEF ghostVars, At, Become
<1>1. CASE Register(p)
  BY <1>1
  DEF Register, Serving, Live, TypeInv, FileNamesSpawned, OnePort, CallersOK, States, Caller
<1>2. CASE Refuse(p)
  BY <1>2
  DEF Refuse, Serving, Live, TypeInv, FileNamesSpawned, OnePort, CallersOK, States, Caller
<1>3. CASE Bind(p)
  BY <1>3 DEF Bind, Serving, Live, TypeInv, FileNamesSpawned, OnePort, CallersOK, States, Caller
<1>4. CASE Crash(p)
  BY <1>4
  DEF Crash, Serving, Live, TypeInv, FileNamesSpawned, OnePort, CallersOK, States, Caller
<1>5. CASE Reap(p)
  BY <1>5 DEF Reap, Serving, Live, TypeInv, FileNamesSpawned, OnePort, CallersOK, States, Caller
<1> QED
  BY <1>1, <1>2, <1>3, <1>4, <1>5

LEMMA TypeInit == Init => TypeInv
BY PidsApart DEF Init, Idle, TypeInv, FileNamesSpawned, OnePort, CallersOK, Caller, Pcs, Waiting, States

LEMMA TypeStutter == TypeInv /\ UNCHANGED vars => TypeInv'
BY DEF vars, TypeInv, FileNamesSpawned, OnePort, CallersOK, Caller

LEMMA TypeNext == TypeInv /\ [Next]_vars => TypeInv'
BY TypeCaller, TypeDaemon, TypeStutter DEF Next

LEMMA TypeInvSuffices == TypeInv => TypeOK
<1> SUFFICES ASSUME TypeInv PROVE TypeOK
  OBVIOUS
<1>1. Cardinality(Serving) <= 1
  <2>1. CASE Serving = {}
    BY <2>1, FS_EmptySet
  <2>2. CASE Serving # {}
    <3>1. PICK p : p \in Serving
      BY <2>2
    <3>2. Serving = {p}
      BY <3>1 DEF TypeInv, OnePort, Serving
    <3>3. Cardinality({p}) = 1
      BY FS_Singleton
    <3> QED
      BY <3>2, <3>3
  <2> QED
    BY <2>1, <2>2
<1> QED
  BY <1>1 DEF TypeInv, TypeOK, FileNamesSpawned, OnePort, CallersOK, Caller, At

\* Whatever callers and daemons do, and whenever they die, one daemon at most has
\* the port, and no two starts share a child.
THEOREM DaemonTypeCorrect == Spec => []TypeOK
<1>1. Init => TypeInv
  BY TypeInit
<1>2. TypeInv /\ [Next]_vars => TypeInv'
  BY TypeNext
<1>3. TypeInv => TypeOK
  BY TypeInvSuffices
<1> QED
  BY <1>1, <1>2, <1>3, PTL DEF Spec

-----------------------------------------------------------------------------
(* No orphans *)

LEMMA QuietCaller ==
  ASSUME TypeInv, Quiet, Undisturbed, Undisturbed', NEW c \in Callers,
         \/ StartRead(c) \/ StartAlive(c) \/ StartProbe(c) \/ StartClaim(c) \/ StartSpawn(c)
         \/ StartPoll(c) \/ StartReady(c) \/ StartUnclaim(c) \/ StartKill(c)
         \/ StopRead(c) \/ StopKill(c) \/ StopRemove(c)
         \/ HealthRead(c) \/ StatsRead(c) \/ QueryAlive(c) \/ QueryRemove(c)
         \/ CallerDies(c)
  PROVE  Quiet'
<1> USE PidsApart DEF ghostVars, At, Live, OnItsWay
<1>0. caller \in [Callers -> Caller] /\ proc \in [Pids -> States]
  BY DEF TypeInv, CallersOK, OnePort
<1>1. CASE StartRead(c)
  <2>1. OneDaemon'
    BY <1>1, <1>0 DEF StartRead, Begin, Quiet, OneDaemon
  <2>2. Findable'
    BY <1>1, <1>0 DEF StartRead, Begin, Quiet, Findable, Caller
  <2>3. StartAlone'
    BY <1>1, <1>0
    DEF StartRead, Begin, Quiet, StartAlone, Busy, InStart, StartPcs, Waiting, Caller
  <2>4. ReadingsHold'
    BY <1>1, <1>0
    DEF StartRead, Begin, ReadPid, Quiet, ReadingsHold, Waiting, Clear, Reading, Caller
  <2> QED
    BY <2>1, <2>2, <2>3, <2>4 DEF Quiet
<1>2. CASE StartAlive(c)
  <2>1. OneDaemon'
    BY <1>2, <1>0 DEF StartAlive, Quiet, OneDaemon
  <2>2. Findable'
    BY <1>2, <1>0 DEF StartAlive, Goto, Quiet, Findable, Caller
  <2>3. StartAlone'
    BY <1>2, <1>0
    DEF StartAlive, Goto, Quiet, StartAlone, Busy, InStart, StartPcs, Waiting, Caller
  <2>4. ReadingsHold'
    BY <1>2, <1>0
    DEF StartAlive, Goto, Exists, Quiet, ReadingsHold, Waiting, Clear, Reading, Caller
  <2> QED
    BY <2>1, <2>2, <2>3, <2>4 DEF Quiet
<1>3. CASE StartProbe(c)
  <2>1. OneDaemon'
    BY <1>3, <1>0 DEF StartProbe, Quiet, OneDaemon
  <2>2. Findable'
    BY <1>3, <1>0 DEF StartProbe, Goto, Return, Idle, Quiet, Findable, Caller
  <2>3. StartAlone'
    BY <1>3, <1>0
    DEF StartProbe, Goto, Return, Idle, Quiet, StartAlone, Busy, InStart, StartPcs, Waiting,
      Caller
  <2>4. ReadingsHold'
    <3>1. proc' = proc /\ file' = file
      BY <1>3 DEF StartProbe
    <3>2. CASE Return(c)
      BY <1>0, <3>1, <3>2 DEF Return, Idle, Quiet, ReadingsHold, Waiting, Clear, Reading, Caller
    <3>3. CASE Goto(c, "load") /\ Serving = {}
      <4>1. \A p \in Pids : ~Live(p)
        BY <1>0, <1>3, <3>3 DEF StartProbe, Serving, Quiet, StartAlone, Busy, Waiting
      <4> QED
        BY <1>0, <3>1, <3>3, <4>1 DEF Goto, Quiet, ReadingsHold, Waiting, Clear, Reading, Caller
    <3> QED
      BY <1>3, <3>2, <3>3 DEF StartProbe, AlreadyRunning, Undisturbed
  <2> QED
    BY <2>1, <2>2, <2>3, <2>4 DEF Quiet
<1>4. CASE StartClaim(c)
  <2>1. OneDaemon'
    BY <1>4, <1>0 DEF StartClaim, Quiet, OneDaemon
  <2>2. Findable'
    BY <1>4, <1>0
    DEF StartClaim, Goto, Return, Idle, Quiet, Findable, StartAlone, ReadingsHold, Busy,
      InStart, StartPcs, Waiting, Clear, Reading, Caller, States
  <2>3. StartAlone'
    BY <1>4, <1>0
    DEF StartClaim, Goto, Return, Idle, Quiet, StartAlone, Busy, InStart, StartPcs, Waiting,
      Caller
  <2>4. ReadingsHold'
    BY <1>4, <1>0
    DEF StartClaim, Goto, Return, Idle, Quiet, StartAlone, ReadingsHold, Busy, InStart,
      StartPcs, Waiting, Clear, Reading, Caller, States
  <2> QED
    BY <2>1, <2>2, <2>3, <2>4 DEF Quiet
<1>5. CASE StartSpawn(c)
  <2>1. OneDaemon'
    BY <1>5, <1>0
    DEF StartSpawn, Quiet, OneDaemon, StartAlone, ReadingsHold, Busy, InStart, StartPcs,
      Waiting, Clear, Reading, States
  <2>2. Findable'
    BY <1>5, <1>0 DEF StartSpawn, Goto, Quiet, Findable, Caller
  <2>3. StartAlone'
    BY <1>5, <1>0
    DEF StartSpawn, Goto, Quiet, StartAlone, Busy, InStart, StartPcs, Waiting, Caller
  <2>4. ReadingsHold'
    BY <1>5, <1>0
    DEF StartSpawn, Goto, Quiet, StartAlone, ReadingsHold, Busy, InStart, StartPcs, Waiting,
      Clear, Reading, Caller, States
  <2> QED
    BY <2>1, <2>2, <2>3, <2>4 DEF Quiet
<1>6. CASE StartPoll(c)
  <2>1. OneDaemon'
    BY <1>6, <1>0 DEF StartPoll, Quiet, OneDaemon
  <2>2. Findable'
    BY <1>6, <1>0 DEF StartPoll, Goto, Quiet, Findable, Caller
  <2>3. StartAlone'
    BY <1>6, <1>0
    DEF StartPoll, Goto, Quiet, StartAlone, Busy, InStart, StartPcs, Waiting, Caller
  <2>4. ReadingsHold'
    BY <1>6, <1>0 DEF StartPoll, Goto, Quiet, ReadingsHold, Waiting, Clear, Reading, Caller
  <2> QED
    BY <2>1, <2>2, <2>3, <2>4 DEF Quiet
<1>7. CASE StartReady(c)
  <2>1. OneDaemon'
    BY <1>7, <1>0 DEF StartReady, Quiet, OneDaemon
  <2>2. Findable'
    BY <1>7, <1>0 DEF StartReady, Goto, Return, Idle, Quiet, Findable, Caller
  <2>3. StartAlone'
    BY <1>7, <1>0
    DEF StartReady, Goto, Return, Idle, Quiet, StartAlone, Busy, InStart, StartPcs, Waiting,
      Caller
  <2>4. ReadingsHold'
    BY <1>7, <1>0
    DEF StartReady, Goto, Return, Idle, Quiet, ReadingsHold, Waiting, Clear, Reading, Caller
  <2> QED
    BY <2>1, <2>2, <2>3, <2>4 DEF Quiet
<1>8. CASE StartUnclaim(c)
  <2>1. OneDaemon'
    BY <1>8, <1>0 DEF StartUnclaim, Quiet, OneDaemon
  <2>2. Findable'
    BY <1>8, <1>0
    DEF StartUnclaim, Goto, Return, Idle, Quiet, Findable, ReadingsHold, Waiting, Caller, States
  <2>3. StartAlone'
    BY <1>8, <1>0
    DEF StartUnclaim, Goto, Return, Idle, Quiet, StartAlone, Busy, InStart, StartPcs, Waiting,
      Caller
  <2>4. ReadingsHold'
    BY <1>8, <1>0
    DEF StartUnclaim, Goto, Return, Idle, Quiet, StartAlone, ReadingsHold, Busy, InStart,
      StartPcs, Waiting, Clear, Reading, Caller, States
  <2> QED
    BY <2>1, <2>2, <2>3, <2>4 DEF Quiet
<1>9. CASE StartKill(c)
  <2>1. OneDaemon'
    BY <1>9, <1>0
    DEF StartKill, Signal, Quiet, OneDaemon, StartAlone, ReadingsHold, Busy, Waiting, States
  <2>2. Findable'
    BY <1>9, <1>0 DEF StartKill, Signal, Return, Idle, Quiet, Findable, Caller
  <2>3. StartAlone'
    BY <1>9, <1>0
    DEF StartKill, Signal, Return, Idle, Quiet, StartAlone, Busy, InStart, StartPcs, Waiting,
      Caller
  <2>4. ReadingsHold'
    BY <1>9, <1>0
    DEF StartKill, Signal, Return, Idle, Quiet, ReadingsHold, Waiting, Clear, Reading, Caller
  <2> QED
    BY <2>1, <2>2, <2>3, <2>4 DEF Quiet
<1>10. CASE StopRead(c)
  <2>1. OneDaemon'
    BY <1>10, <1>0 DEF StopRead, Begin, Quiet, OneDaemon
  <2>2. Findable'
    BY <1>10, <1>0 DEF StopRead, Begin, Return, Idle, Quiet, Findable, Caller
  <2>3. StartAlone'
    <3>1. (\A d \in Callers : ~InStart(d)) /\ (\A p \in Pids : ~OnItsWay(p)) /\ proc' = proc
      BY <1>10 DEF StopRead, Begin, Undisturbed
    <3>2. caller'[c].pc \in {"idle", "stop_kill"} /\ \A d \in Callers \ {c} : caller'[d] = caller[d]
      BY <1>0, <1>10 DEF StopRead, Return, Idle, Caller
    <3>3. \A d \in Callers : ~InStart(d)'
      BY <3>1, <3>2 DEF InStart, StartPcs
    <3> QED
      BY <3>1, <3>3 DEF StartAlone
  <2>4. ReadingsHold'
    <3>1. (\A d \in Callers : ~InStart(d)) /\ proc' = proc /\ file' = file
      BY <1>10 DEF StopRead, Begin, Undisturbed
    <3>2. \A p \in Pids : ~OnItsWay(p)
      BY <1>10 DEF StopRead, Begin, Undisturbed
    <3>3. \A p \in Pids : Live(p) => ReadPid = p
      BY <3>1, <3>2 DEF Quiet, Findable, InStart, StartPcs, ReadPid
    <3>4. CASE Return(c)
      BY <1>0, <3>1, <3>4 DEF Return, Idle, Quiet, ReadingsHold, Waiting, Clear, Reading, Caller
    <3>5. CASE caller' = [caller EXCEPT ![c].pc = "stop_kill", ![c].pid = ReadPid]
      <4>1. /\ caller'[c].pc = "stop_kill" /\ caller'[c].pid = ReadPid
            /\ \A d \in Callers \ {c} : caller'[d] = caller[d]
        BY <1>0, <3>5 DEF Caller
      <4> QED
        BY <3>1, <3>3, <4>1 DEF Quiet, ReadingsHold, Waiting, Clear, Reading
    <3> QED
      BY <1>10, <3>4, <3>5 DEF StopRead
  <2> QED
    BY <2>1, <2>2, <2>3, <2>4 DEF Quiet
<1>11. CASE StopKill(c)
  <2>1. OneDaemon'
    BY <1>11, <1>0
    DEF StopKill, Signal, Quiet, OneDaemon, StartAlone, ReadingsHold, Busy, Waiting, States
  <2>2. Findable'
    BY <1>11, <1>0 DEF StopKill, Signal, Goto, Quiet, Findable, Caller
  <2>3. StartAlone'
    BY <1>11, <1>0
    DEF StopKill, Signal, Goto, Quiet, StartAlone, Busy, InStart, StartPcs, Waiting, Caller
  <2>4. ReadingsHold'
    BY <1>11, <1>0
    DEF StopKill, Signal, Goto, Quiet, ReadingsHold, Waiting, Clear, Reading, Caller
  <2> QED
    BY <2>1, <2>2, <2>3, <2>4 DEF Quiet
<1>12. CASE StopRemove(c)
  <2>1. OneDaemon'
    BY <1>12, <1>0 DEF StopRemove, Quiet, OneDaemon
  <2>2. Findable'
    BY <1>12, <1>0
    DEF StopRemove, Return, Idle, Quiet, Findable, StartAlone, ReadingsHold, Busy, InStart,
      StartPcs, Waiting, Clear, Reading, Caller, States
  <2>3. StartAlone'
    BY <1>12, <1>0
    DEF StopRemove, Return, Idle, Quiet, StartAlone, Busy, InStart, StartPcs, Waiting, Caller
  <2>4. ReadingsHold'
    BY <1>12, <1>0
    DEF StopRemove, Return, Idle, Quiet, StartAlone, ReadingsHold, Busy, InStart, StartPcs,
      Waiting, Clear, Reading, Caller, States
  <2> QED
    BY <2>1, <2>2, <2>3, <2>4 DEF Quiet
<1>13. CASE HealthRead(c)
  <2>1. OneDaemon'
    BY <1>13, <1>0 DEF HealthRead, Begin, Quiet, OneDaemon
  <2>2. Findable'
    BY <1>13, <1>0 DEF HealthRead, Begin, Return, Idle, Quiet, Findable, Caller
  <2>3. StartAlone'
    <3>1. (\A d \in Callers : ~InStart(d)) /\ (\A p \in Pids : ~OnItsWay(p)) /\ proc' = proc
      BY <1>13 DEF HealthRead, Begin, Undisturbed
    <3>2. caller'[c].pc \in {"idle", "query_alive"} /\ \A d \in Callers \ {c} : caller'[d] = caller[d]
      BY <1>0, <1>13 DEF HealthRead, Return, Idle, Caller
    <3>3. \A d \in Callers : ~InStart(d)'
      BY <3>1, <3>2 DEF InStart, StartPcs
    <3> QED
      BY <3>1, <3>3 DEF StartAlone
  <2>4. ReadingsHold'
    <3>1. (\A d \in Callers : ~InStart(d)) /\ proc' = proc /\ file' = file
      BY <1>13 DEF HealthRead, Begin, Undisturbed
    <3>2. \A p \in Pids : ~OnItsWay(p)
      BY <1>13 DEF HealthRead, Begin, Undisturbed
    <3>3. \A p \in Pids : Live(p) => ReadPid = p
      BY <3>1, <3>2 DEF Quiet, Findable, InStart, StartPcs, ReadPid
    <3>4. CASE Return(c)
      BY <1>0, <3>1, <3>4 DEF Return, Idle, Quiet, ReadingsHold, Waiting, Clear, Reading, Caller
    <3>5. CASE caller' = [caller EXCEPT ![c].pc = "query_alive", ![c].pid = ReadPid]
      <4>1. /\ caller'[c].pc = "query_alive" /\ caller'[c].pid = ReadPid
            /\ \A d \in Callers \ {c} : caller'[d] = caller[d]
        BY <1>0, <3>5 DEF Caller
      <4> QED
        BY <3>1, <3>3, <4>1 DEF Quiet, ReadingsHold, Waiting, Clear, Reading
    <3> QED
      BY <1>13, <3>4, <3>5 DEF HealthRead
  <2> QED
    BY <2>1, <2>2, <2>3, <2>4 DEF Quiet
<1>14. CASE StatsRead(c)
  <2>1. OneDaemon'
    BY <1>14, <1>0 DEF StatsRead, Begin, Quiet, OneDaemon
  <2>2. Findable'
    BY <1>14, <1>0 DEF StatsRead, Begin, Quiet, Findable, Caller
  <2>3. StartAlone'
    BY <1>14, <1>0
    DEF StatsRead, Begin, Quiet, StartAlone, Busy, InStart, StartPcs, Waiting, Caller
  <2>4. ReadingsHold'
    BY <1>14, <1>0
    DEF StatsRead, Begin, ReadPid, Quiet, ReadingsHold, Waiting, Clear, Reading, Caller
  <2> QED
    BY <2>1, <2>2, <2>3, <2>4 DEF Quiet
<1>15. CASE QueryAlive(c)
  <2>1. OneDaemon'
    BY <1>15, <1>0 DEF QueryAlive, Quiet, OneDaemon
  <2>2. Findable'
    BY <1>15, <1>0 DEF QueryAlive, Goto, Return, Idle, Quiet, Findable, Caller
  <2>3. StartAlone'
    BY <1>15, <1>0
    DEF QueryAlive, Goto, Return, Idle, Quiet, StartAlone, Busy, InStart, StartPcs, Waiting,
      Caller
  <2>4. ReadingsHold'
    BY <1>15, <1>0
    DEF QueryAlive, Goto, Return, Idle, Exists, Quiet, ReadingsHold, Waiting, Clear, Reading,
      Caller
  <2> QED
    BY <2>1, <2>2, <2>3, <2>4 DEF Quiet
<1>16. CASE QueryRemove(c)
  <2>1. OneDaemon'
    BY <1>16, <1>0 DEF QueryRemove, Quiet, OneDaemon
  <2>2. Findable'
    BY <1>16, <1>0
    DEF QueryRemove, Return, Idle, Quiet, Findable, StartAlone, ReadingsHold, Busy, InStart,
      StartPcs, Waiting, Clear, Reading, Caller, States
  <2>3. StartAlone'
    BY <1>16, <1>0
    DEF QueryRemove, Return, Idle, Quiet, StartAlone, Busy, InStart, StartPcs, Waiting, Caller
  <2>4. ReadingsHold'
    BY <1>16, <1>0
    DEF QueryRemove, Return, Idle, Quiet, StartAlone, ReadingsHold, Busy, InStart, StartPcs,
      Waiting, Clear, Reading, Caller, States
  <2> QED
    BY <2>1, <2>2, <2>3, <2>4 DEF Quiet
<1>17. CASE CallerDies(c)
  <2>1. OneDaemon'
    BY <1>17, <1>0 DEF CallerDies, Quiet, OneDaemon
  <2>2. Findable'
    <3>1. ~At(c, "kill") /\ proc' = proc /\ file' = file
      BY <1>17 DEF CallerDies, Undisturbed
    <3>2. \A d \in Callers \ {c} : caller'[d] = caller[d]
      BY <1>0, <1>17 DEF CallerDies, Return
    <3> QED
      BY <3>1, <3>2 DEF Quiet, Findable
  <2>3. StartAlone'
    BY <1>17, <1>0
    DEF CallerDies, Return, Idle, Quiet, StartAlone, Busy, InStart, StartPcs, Waiting, Caller
  <2>4. ReadingsHold'
    BY <1>17, <1>0
    DEF CallerDies, Return, Idle, Quiet, ReadingsHold, Waiting, Clear, Reading, Caller
  <2> QED
    BY <2>1, <2>2, <2>3, <2>4 DEF Quiet
<1> QED
  BY <1>1, <1>2, <1>3, <1>4, <1>5, <1>6, <1>7, <1>8, <1>9, <1>10, <1>11, <1>12, <1>13, <1>14, <1>15, <1>16, <1>17

LEMMA QuietDaemon ==
  ASSUME TypeInv, Quiet, Undisturbed, NEW p \in Pids,
         Register(p) \/ Refuse(p) \/ Bind(p) \/ Crash(p) \/ Reap(p)
  PROVE  Quiet'
<1> USE PidsApart DEF ghostVars, At, Live, OnItsWay, Become
<1>0. caller \in [Callers -> Caller] /\ proc \in [Pids -> States]
  BY DEF TypeInv, CallersOK, OnePort
<1>1. CASE Register(p)
  <2>1. OneDaemon' /\ Findable'
    BY <1>1, <1>0 DEF Register, Quiet, OneDaemon, Findable, States
  <2>2. StartAlone'
    BY <1>1, <1>0 DEF Register, Quiet, StartAlone, Busy, InStart, States
  <2>3. ReadingsHold'
    BY <1>1, <1>0 DEF Register, Quiet, StartAlone, ReadingsHold, Busy, Waiting, States, Caller
  <2> QED
    BY <2>1, <2>2, <2>3 DEF Quiet
<1>2. CASE Refuse(p)
  <2>1. OneDaemon' /\ Findable'
    BY <1>2, <1>0 DEF Refuse, Quiet, OneDaemon, Findable, States
  <2>2. StartAlone'
    BY <1>2, <1>0 DEF Refuse, Quiet, StartAlone, Busy, InStart, States
  <2>3. ReadingsHold'
    BY <1>2, <1>0 DEF Refuse, Quiet, StartAlone, ReadingsHold, Busy, Waiting, States, Caller
  <2> QED
    BY <2>1, <2>2, <2>3 DEF Quiet
<1>3. CASE Bind(p)
  <2>1. OneDaemon' /\ Findable'
    BY <1>3, <1>0 DEF Bind, Serving, Quiet, OneDaemon, Findable, States
  <2>2. StartAlone'
    BY <1>3, <1>0 DEF Bind, Quiet, StartAlone, Busy, InStart, States
  <2>3. ReadingsHold'
    BY <1>3, <1>0 DEF Bind, Quiet, StartAlone, ReadingsHold, Busy, Waiting, States, Caller
  <2> QED
    BY <2>1, <2>2, <2>3 DEF Quiet
<1>4. CASE Crash(p)
  <2>1. OneDaemon' /\ Findable'
    BY <1>4, <1>0 DEF Crash, Quiet, OneDaemon, Findable, States
  <2>2. StartAlone'
    BY <1>4, <1>0 DEF Crash, Quiet, StartAlone, Busy, InStart, States
  <2>3. ReadingsHold'
    BY <1>4, <1>0 DEF Crash, Quiet, StartAlone, ReadingsHold, Busy, Waiting, States, Caller
  <2> QED
    BY <2>1, <2>2, <2>3 DEF Quiet
<1>5. CASE Reap(p)
  <2>1. OneDaemon' /\ Findable'
    BY <1>5, <1>0 DEF Reap, Quiet, OneDaemon, Findable, States
  <2>2. StartAlone'
    BY <1>5, <1>0 DEF Reap, Quiet, StartAlone, Busy, InStart, States
  <2>3. ReadingsHold'
    BY <1>5, <1>0 DEF Reap, Quiet, StartAlone, ReadingsHold, Busy, Waiting, States, Caller
  <2> QED
    BY <2>1, <2>2, <2>3 DEF Quiet
<1> QED
  BY <1>1, <1>2, <1>3, <1>4, <1>5

LEMMA QuietInit == Init => Quiet
BY PidsApart DEF Init, Idle, Quiet, OneDaemon, Findable, StartAlone, ReadingsHold,
  Live, OnItsWay, Busy, InStart, StartPcs, At, Reading, Clear, Waiting

LEMMA QuietStutter == Quiet /\ UNCHANGED vars => Quiet'
BY DEF vars, Quiet, OneDaemon, Findable, StartAlone, ReadingsHold,
  Live, OnItsWay, Busy, InStart, At

\* What disturbed the daemons once is never forgotten, nor is a death.
LEMMA Remembered ==
  ASSUME [Next]_vars
  PROVE  (Undisturbed' => Undisturbed) /\ (deaths \in Nat => deaths' \in Nat)
<1> USE DEF ghostVars, Undisturbed
<1>1. CASE UNCHANGED vars
  BY <1>1 DEF vars
<1>2. ASSUME NEW p \in Pids, Register(p) \/ Refuse(p) \/ Bind(p) \/ Crash(p) \/ Reap(p)
      PROVE  (Undisturbed' => Undisturbed) /\ (deaths \in Nat => deaths' \in Nat)
  BY <1>2 DEF Register, Refuse, Bind, Crash, Reap
<1>3. ASSUME NEW c \in Callers,
             \/ StartRead(c) \/ StopRead(c) \/ HealthRead(c) \/ StatsRead(c)
             \/ StartAlive(c) \/ StartProbe(c) \/ StartClaim(c)
      PROVE  (Undisturbed' => Undisturbed) /\ (deaths \in Nat => deaths' \in Nat)
  <2>1. CASE StartRead(c) \/ StopRead(c) \/ HealthRead(c) \/ StatsRead(c)
    <3>1. overlap => overlap'
      BY <2>1, Zenon DEF Begin, StartRead, StopRead, HealthRead, StatsRead
    <3>2. slow' = slow /\ abandoned' = abandoned /\ deaths' = deaths
      BY <2>1 DEF Begin, StartRead, StopRead, HealthRead, StatsRead
    <3> QED
      BY <3>1, <3>2, Zenon
  <2>2. CASE StartAlive(c) \/ StartClaim(c)
    BY <2>2 DEF StartAlive, StartClaim
  <2>3. CASE StartProbe(c)
    <3>1. slow => slow'
      <4>1. CASE UNCHANGED slow
        BY <4>1
      <4>2. CASE slow' = (slow \/ AlreadyRunning)
        BY <4>2, Zenon
      <4> QED
        BY <2>3, <4>1, <4>2 DEF StartProbe
    <3>2. overlap' = overlap /\ abandoned' = abandoned /\ deaths' = deaths
      BY <2>3 DEF StartProbe
    <3> QED
      BY <3>1, <3>2, Zenon
  <2> QED
    BY <1>3, <2>1, <2>2, <2>3
<1>4. ASSUME NEW c \in Callers,
             \/ StartSpawn(c) \/ StartPoll(c) \/ StartReady(c) \/ StartUnclaim(c) \/ StartKill(c)
             \/ StopKill(c) \/ StopRemove(c) \/ QueryAlive(c) \/ QueryRemove(c) \/ CallerDies(c)
      PROVE  (Undisturbed' => Undisturbed) /\ (deaths \in Nat => deaths' \in Nat)
  <2>1. CASE CallerDies(c)
    <3>1. Undisturbed' => Undisturbed
      BY <2>1, Zenon DEF CallerDies
    <3>2. deaths \in Nat => deaths' \in Nat
      BY <2>1 DEF CallerDies
    <3> QED
      BY <3>1, <3>2
  <2>2. CASE ~CallerDies(c)
    BY <1>4, <2>2 DEF StartSpawn, StartPoll, StartReady, StartUnclaim, StartKill,
      StopKill, StopRemove, QueryAlive, QueryRemove
  <2> QED
    BY <2>1, <2>2
<1> QED
  BY <1>1, <1>2, <1>3, <1>4 DEF Next

LEMMA InvInit == Init => Inv
BY TypeInit, QuietInit DEF Inv, Init

LEMMA InvNext == Inv /\ [Next]_vars => Inv'
<1> SUFFICES ASSUME Inv, [Next]_vars PROVE Inv'
  OBVIOUS
<1>1. TypeInv'
  BY TypeNext DEF Inv
<1>2. ASSUME Undisturbed' PROVE Quiet'
  <2>1. Undisturbed /\ Quiet
    BY <1>2, Remembered DEF Inv
  <2> QED
    BY <1>2, <2>1, QuietCaller, QuietDaemon, QuietStutter DEF Next, Inv
<1>3. deaths' \in Nat
  BY Remembered DEF Inv
<1> QED
  BY <1>1, <1>2, <1>3 DEF Inv

\* A daemon that has the port is in the pid file, for any number of callers and
\* of daemons, and at every moment one of them may die: stop finds it.
THEOREM NoOrphans == Spec => []NoOrphan
<1>1. Inv => NoOrphan
  BY DEF Inv, TypeInv, Quiet, Findable, NoOrphan, Serving
<1> QED
  BY <1>1, InvInit, InvNext, PTL DEF Spec

\* A start that returns success leaves the caller its own child, on the port and
\* in the file, whoever answered the poll.
THEOREM StartIsTruthful == Spec => StartTruthful
<1> DEFINE Truth(c) ==
      Undisturbed /\ At(c, "ready") /\ caller'[c].pc = "idle" /\ deaths' = deaths
        => proc'[caller[c].child] = "serving" /\ file' = caller[c].child
<1>1. ASSUME Inv, [Next]_vars, NEW c \in Callers, Undisturbed, At(c, "ready"),
             caller'[c].pc = "idle", deaths' = deaths
      PROVE  proc'[caller[c].child] = "serving" /\ file' = caller[c].child
  <2>1. caller \in [Callers -> Caller] /\ Quiet
    BY <1>1 DEF Inv, TypeInv, CallersOK
  <2>2. StartReady(c)
    <3>1. deaths' # deaths + 1 /\ caller'[c] # caller[c]
      BY <1>1 DEF Inv, At
    <3>2. PICK d \in Callers :
            \/ StartRead(d) \/ StartAlive(d) \/ StartProbe(d) \/ StartClaim(d) \/ StartSpawn(d)
            \/ StartPoll(d) \/ StartReady(d) \/ StartUnclaim(d) \/ StartKill(d)
            \/ StopRead(d) \/ StopKill(d) \/ StopRemove(d)
            \/ HealthRead(d) \/ StatsRead(d) \/ QueryAlive(d) \/ QueryRemove(d)
            \/ CallerDies(d)
      BY <1>1, <3>1 DEF Next, vars, Register, Refuse, Bind, Crash, Reap
    <3>3. ~CallerDies(d)
      BY <3>1 DEF CallerDies
    <3>4. d = c
      <4>1. SUFFICES ASSUME d # c PROVE caller'[c] = caller[c]
        BY <3>1
      <4>2. CASE StartRead(d) \/ StopRead(d) \/ HealthRead(d) \/ StatsRead(d)
        BY <2>1, <4>1, <4>2 DEF StartRead, StopRead, HealthRead, StatsRead, Return
      <4>3. CASE StartAlive(d) \/ StartProbe(d) \/ StartClaim(d) \/ StartSpawn(d) \/ StartPoll(d)
        BY <2>1, <4>1, <4>3
        DEF StartAlive, StartProbe, StartClaim, StartSpawn, StartPoll, Goto, Return
      <4>4. CASE StartReady(d) \/ StartUnclaim(d) \/ StartKill(d) \/ StopKill(d) \/ StopRemove(d)
                 \/ QueryAlive(d) \/ QueryRemove(d)
        BY <2>1, <4>1, <4>4 DEF StartReady, StartUnclaim, StartKill, StopKill, StopRemove,
          QueryAlive, QueryRemove, Goto, Return
      <4> QED
        BY <3>2, <3>3, <4>2, <4>3, <4>4
    <3> QED
      BY <1>1, <3>2, <3>3, <3>4 DEF At, Begin, StartRead, StartAlive, StartProbe, StartClaim,
        StartSpawn, StartPoll, StartUnclaim, StartKill, StopRead, StopKill, StopRemove,
        HealthRead, StatsRead, QueryAlive, QueryRemove
  <2>3. Serving # {} /\ proc' = proc /\ file' = file
    BY <1>1, <2>1, <2>2 DEF StartReady, Goto, Caller
  <2>4. PICK p \in Pids : proc[p] = "serving"
    BY <2>3 DEF Serving
  <2> QED
    BY <1>1, <2>1, <2>3, <2>4 DEF Quiet, ReadingsHold, Live, At, Waiting
<1>2. Inv /\ [Next]_vars => [\A c \in Callers : Truth(c)]_vars
  BY <1>1
<1> QED
  BY <1>2, InvInit, InvNext, PTL DEF Spec, StartTruthful

\* When stop returns, no daemon is left and none is on its way.
THEOREM StopIsThorough == Spec => StopStops
<1> DEFINE Stopped(c) ==
      Undisturbed' /\ deaths' = deaths
        /\ ((StopRead(c) /\ caller'[c].pc = "idle") \/ StopRemove(c))
        => \A p \in Pids : proc'[p] \notin {"booting", "named", "serving"}
<1>1. ASSUME Inv, [Next]_vars, NEW c \in Callers, Undisturbed', StopRemove(c), NEW p \in Pids
      PROVE  proc'[p] \notin {"booting", "named", "serving"}
  <2>1. Quiet
    BY <1>1, Remembered DEF Inv
  <2> QED
    BY <1>1, <2>1 DEF Quiet, ReadingsHold, Clear, StopRemove, At, Live
<1>2. ASSUME Inv, [Next]_vars, NEW c \in Callers, Undisturbed', StopRead(c), caller'[c].pc = "idle",
             NEW p \in Pids
      PROVE  proc'[p] \notin {"booting", "named", "serving"}
  <2>1. Quiet /\ caller \in [Callers -> Caller]
    BY <1>2, Remembered DEF Inv, TypeInv, CallersOK
  <2>2. ReadPid = NoPid
    BY <1>2, <2>1 DEF StopRead, Caller
  <2>3. (\A d \in Callers : ~InStart(d)) /\ (\A q \in Pids : ~OnItsWay(q)) /\ proc' = proc
    BY <1>2 DEF StopRead, Begin, Undisturbed
  <2> QED
    BY <2>1, <2>2, <2>3, PidsApart
    DEF Quiet, Findable, ReadPid, At, InStart, StartPcs, OnItsWay
<1>3. Inv /\ [Next]_vars => [\A c \in Callers : Stopped(c)]_vars
  BY <1>1, <1>2
<1> QED
  BY <1>3, InvInit, InvNext, PTL DEF Spec, StopStops
=============================================================================
