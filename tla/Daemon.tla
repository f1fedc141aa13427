------------------------------- MODULE Daemon -------------------------------
(***************************************************************************)
(* The proxy daemon and the calls that start, stop and query it            *)
(* (nimaproxy/src/lib.rs, FFI, and main.rs): processes that share nothing  *)
(* but a pid file and a port.  A starter claims the file, spawns a child   *)
(* and polls until the child has named itself in the file and somebody     *)
(* answers on the port; the child names itself before it has the port.     *)
(*                                                                         *)
(* Every access to the file, every signal and every request is a step of   *)
(* its own.  Processes and callers may die at any moment.  One             *)
(* configuration, hence one port; pids are not used again; the disk and    *)
(* the environment do not fail.                                            *)
(***************************************************************************)
EXTENDS Naturals, FiniteSets

CONSTANTS
  Callers,    \* processes that call the FFI
  Pids,       \* bound: the children that can ever be spawned
  MaxCalls,   \* bound: calls in all
  MaxDeaths   \* bound: callers and daemons that die on their own

ASSUME DaemonAssumption ==
  MaxCalls \in Nat /\ MaxDeaths \in Nat /\ {"none", "starting"} \cap Pids = {}

VARIABLES
  file,       \* the pid file: "none", "starting" or the pid that is in it
  proc,       \* per pid: what its process is doing
  caller,     \* per caller: where it is, the pid it read and the one it spawned
  calls,      \* calls begun
  deaths,     \* callers and daemons that died on their own
  overlap,    \* a call of start ran beside another call, or beside a child on its way
  slow,       \* a serving daemon did not answer start's probe in time
  abandoned   \* a starter died after it removed the file, before it killed its child

ghostVars == <<overlap, slow, abandoned>>
vars == <<file, proc, caller, calls, deaths, ghostVars>>

NoPid == "none"

States == {"unborn", "booting", "named", "serving", "zombie", "gone"}
Pcs == {"idle", "alive", "probe", "load", "spawn", "poll", "ready", "unclaim", "kill",
        "stop_kill", "stop_remove", "query_alive", "query_remove"}

Exists(p) == proc[p] \notin {"unborn", "gone"}          \* kill(p, 0), zombies included
Live(p) == proc[p] \in {"booting", "named", "serving"}
OnItsWay(p) == proc[p] \in {"booting", "named"}
Serving == {p \in Pids : proc[p] = "serving"}

Idle == [pc |-> "idle", pid |-> NoPid, child |-> NoPid]

Init ==
  /\ file = "none" /\ proc = [p \in Pids |-> "unborn"]
  /\ caller = [c \in Callers |-> Idle]
  /\ calls = 0 /\ deaths = 0
  /\ overlap = FALSE /\ slow = FALSE /\ abandoned = FALSE

At(c, pc) == caller[c].pc = pc
Goto(c, pc) == caller' = [caller EXCEPT ![c].pc = pc]
Return(c) == caller' = [caller EXCEPT ![c] = Idle]
Signal(p) == proc' = [proc EXCEPT ![p] = IF Live(p) THEN "zombie" ELSE @]

StartPcs == {"alive", "probe", "load", "spawn", "poll", "ready", "unclaim", "kill"}
Busy(c) == ~At(c, "idle")
InStart(c) == caller[c].pc \in StartPcs

\* The pid the file names, none when it is missing or says "starting".
ReadPid == IF file \in Pids THEN file ELSE NoPid

Begin(c, beside) ==
  /\ At(c, "idle") /\ calls < MaxCalls
  /\ calls' = calls + 1
  /\ overlap' = (overlap \/ beside \/ \E p \in Pids : OnItsWay(p))
  /\ UNCHANGED <<file, proc, deaths, slow, abandoned>>

-----------------------------------------------------------------------------
(* proxy_start_with_pid_file *)

StartRead(c) ==
  /\ Begin(c, \E d \in Callers : Busy(d))
  /\ caller' = [caller EXCEPT ![c].pid = ReadPid,
                              ![c].pc = IF ReadPid = NoPid THEN "load" ELSE "alive"]

StartAlive(c) ==
  /\ At(c, "alive")
  /\ Goto(c, IF Exists(caller[c].pid) THEN "probe" ELSE "load")
  /\ UNCHANGED <<file, proc, calls, deaths, ghostVars>>

\* /health answers on the port the file names, within 200 ms.
AlreadyRunning == Serving # {}

StartProbe(c) ==
  /\ At(c, "probe")
  /\ \/ AlreadyRunning /\ Return(c) /\ UNCHANGED slow
     \/ Goto(c, "load") /\ slow' = (slow \/ AlreadyRunning)
  /\ UNCHANGED <<file, proc, calls, deaths, overlap, abandoned>>

StartClaim(c) ==
  /\ At(c, "load")
  /\ \/ Return(c) /\ UNCHANGED file                            \* the config is refused
     \/ Goto(c, "spawn") /\ file' = "starting"
  /\ UNCHANGED <<proc, calls, deaths, ghostVars>>

StartSpawn(c) ==
  /\ At(c, "spawn")
  /\ \/ Goto(c, "unclaim") /\ UNCHANGED proc                   \* posix_spawn fails
     \/ \E p \in Pids :
          /\ proc[p] = "unborn" /\ proc' = [proc EXCEPT ![p] = "booting"]
          /\ caller' = [caller EXCEPT ![c].pc = "poll", ![c].child = p]
  /\ UNCHANGED <<file, calls, deaths, ghostVars>>

\* Until its five seconds are over the starter looks for its child's own pid.
StartPoll(c) ==
  /\ At(c, "poll")
  /\ \/ file = caller[c].child /\ Goto(c, "ready")
     \/ Goto(c, "unclaim")
  /\ UNCHANGED <<file, proc, calls, deaths, ghostVars>>

\* Mutant: the child's name in the file is taken for its readiness.
StartReadyWhenNamed(c) ==
  /\ At(c, "ready") /\ Return(c)
  /\ UNCHANGED <<file, proc, calls, deaths, ghostVars>>

\* Then for an answer on the port, whoever gives it.
StartReady(c) ==
  /\ At(c, "ready")
  /\ \/ Serving # {} /\ Return(c)
     \/ Goto(c, "unclaim")
     \/ file # caller[c].child /\ Goto(c, "poll")
  /\ UNCHANGED <<file, proc, calls, deaths, ghostVars>>

StartUnclaim(c) ==
  /\ At(c, "unclaim")
  /\ file' = "none"
  /\ IF caller[c].child = NoPid THEN Return(c) ELSE Goto(c, "kill")
  /\ UNCHANGED <<proc, calls, deaths, ghostVars>>

\* Mutant: the child of a failed start is left to itself.
StartKillForgotten(c) ==
  /\ At(c, "kill")
  /\ Return(c)
  /\ UNCHANGED <<file, proc, calls, deaths, ghostVars>>

StartKill(c) ==
  /\ At(c, "kill")
  /\ Signal(caller[c].child) /\ Return(c)
  /\ UNCHANGED <<file, calls, deaths, ghostVars>>

-----------------------------------------------------------------------------
(* proxy_stop *)

\* Mutant: the whole of "pid:port" is parsed as a number, which it is not.
StopReadWhole(c) ==
  /\ Begin(c, \E d \in Callers : InStart(d))
  /\ Return(c)

StopRead(c) ==
  /\ Begin(c, \E d \in Callers : InStart(d))
  /\ IF ReadPid = NoPid THEN Return(c)
     ELSE caller' = [caller EXCEPT ![c].pc = "stop_kill", ![c].pid = ReadPid]

StopKill(c) ==
  /\ At(c, "stop_kill")
  /\ Signal(caller[c].pid) /\ Goto(c, "stop_remove")
  /\ UNCHANGED <<file, calls, deaths, ghostVars>>

StopRemove(c) ==
  /\ At(c, "stop_remove")
  /\ file' = "none" /\ Return(c)
  /\ UNCHANGED <<proc, calls, deaths, ghostVars>>

-----------------------------------------------------------------------------
(* proxy_health and proxy_stats: the file of a dead daemon is cleared away *)

HealthRead(c) ==
  /\ Begin(c, \E d \in Callers : InStart(d))
  /\ IF ReadPid = NoPid THEN Return(c)
     ELSE caller' = [caller EXCEPT ![c].pc = "query_alive", ![c].pid = ReadPid]

\* proxy_stats takes what is no number for a dead daemon: "starting" too.
StatsRead(c) ==
  /\ Begin(c, \E d \in Callers : InStart(d))
  /\ caller' = [caller EXCEPT ![c].pid = ReadPid,
                              ![c].pc = IF ReadPid = NoPid THEN "query_remove" ELSE "query_alive"]

QueryAlive(c) ==
  /\ At(c, "query_alive")
  /\ IF Exists(caller[c].pid) THEN Return(c) ELSE Goto(c, "query_remove")
  /\ UNCHANGED <<file, proc, calls, deaths, ghostVars>>

QueryRemove(c) ==
  /\ At(c, "query_remove")
  /\ file' = "none" /\ Return(c)
  /\ UNCHANGED <<proc, calls, deaths, ghostVars>>

-----------------------------------------------------------------------------
(* main: the daemon *)

Become(p, state) == proc' = [proc EXCEPT ![p] = state]

\* "pid:port" is written before the catalog is fetched and before the port is
\* taken.
Register(p) ==
  /\ proc[p] = "booting" /\ Become(p, "named") /\ file' = p
  /\ UNCHANGED <<caller, calls, deaths, ghostVars>>

\* No usable key, or timeouts that contradict each other.
Refuse(p) ==
  /\ proc[p] = "booting" /\ Become(p, "zombie")
  /\ UNCHANGED <<file, caller, calls, deaths, ghostVars>>

\* Mutant: the port is shared.
BindShared(p) ==
  /\ proc[p] = "named"
  /\ Become(p, "serving")
  /\ UNCHANGED <<file, caller, calls, deaths, ghostVars>>

\* A daemon that does not get the port exits and leaves the file as it is.
Bind(p) ==
  /\ proc[p] = "named"
  /\ Become(p, IF Serving = {} THEN "serving" ELSE "zombie")
  /\ UNCHANGED <<file, caller, calls, deaths, ghostVars>>

-----------------------------------------------------------------------------
(* What happens to processes *)

Crash(p) ==
  /\ Live(p) /\ deaths < MaxDeaths
  /\ Become(p, "zombie") /\ deaths' = deaths + 1
  /\ UNCHANGED <<file, caller, calls, ghostVars>>

\* The parent waits for it, or is itself gone.
Reap(p) ==
  /\ proc[p] = "zombie" /\ Become(p, "gone")
  /\ UNCHANGED <<file, caller, calls, deaths, ghostVars>>

CallerDies(c) ==
  /\ Busy(c) /\ deaths < MaxDeaths
  /\ deaths' = deaths + 1 /\ Return(c)
  /\ abandoned' = (abandoned \/ At(c, "kill"))
  /\ UNCHANGED <<file, proc, calls, overlap, slow>>

-----------------------------------------------------------------------------

Next ==
  \/ \E c \in Callers :
       \/ StartRead(c) \/ StartAlive(c) \/ StartProbe(c) \/ StartClaim(c) \/ StartSpawn(c)
       \/ StartPoll(c) \/ StartReady(c) \/ StartUnclaim(c) \/ StartKill(c)
       \/ StopRead(c) \/ StopKill(c) \/ StopRemove(c)
       \/ HealthRead(c) \/ StatsRead(c) \/ QueryAlive(c) \/ QueryRemove(c)
       \/ CallerDies(c)
  \/ \E p \in Pids : Register(p) \/ Refuse(p) \/ Bind(p) \/ Crash(p) \/ Reap(p)

Spec == Init /\ [][Next]_vars

-----------------------------------------------------------------------------
(* Properties *)

\* At most one daemon has the port, a starter's child is its own, and the file
\* names only what was spawned.
TypeOK ==
  /\ file \in {"none", "starting"} \cup Pids
  /\ file \in Pids => proc[file] \notin {"unborn", "booting"}
  /\ proc \in [Pids -> States] /\ Cardinality(Serving) <= 1
  /\ caller \in [Callers -> [pc : Pcs, pid : Pids \cup {NoPid}, child : Pids \cup {NoPid}]]
  /\ \A c, d \in Callers : caller[c].child \in Pids /\ caller[c].child = caller[d].child => c = d
  /\ \A c \in Callers : At(c, "kill") => caller[c].child \in Pids

Undisturbed == ~overlap /\ ~slow /\ ~abandoned

\* No orphans: a daemon that has the port is named by the file, so stop can
\* find it, through starts that time out, children that register after their
\* starter gave up or died, and crashes; as long as no start runs beside
\* another call, and a serving daemon answers start's probe.
NoOrphan ==
  Undisturbed =>
    \A p \in Serving : \/ file = p
                       \/ \E c \in Callers : At(c, "kill") /\ caller[c].child = p

\* A start that returns 0 has its own child on the port and in the file.
StartTruthful ==
  [][\A c \in Callers :
       Undisturbed /\ At(c, "ready") /\ caller'[c].pc = "idle" /\ deaths' = deaths
         => proc'[caller[c].child] = "serving" /\ file' = caller[c].child]_vars

\* When stop has returned no daemon is left, and none is on its way.
StopStops ==
  [][\A c \in Callers :
       Undisturbed' /\ deaths' = deaths
         /\ ((StopRead(c) /\ caller'[c].pc = "idle") \/ StopRemove(c))
         => \A p \in Pids : proc'[p] \notin {"booting", "named", "serving"}]_vars
=============================================================================
