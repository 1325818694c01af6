------------------------------ MODULE HomiStart ------------------------------
(***************************************************************************)
(* How the HOMI daemon comes up: MCP servers that find no daemon start one *)
(* (call and autostart, kernel.ts), a service manager keeps one running,   *)
(* and every daemon that starts asks for the singleton (acquire_singleton, *)
(* bind_unix and shutdown, homi.py).  The files are autostart.lock of the  *)
(* starters, and daemon.lock, daemon.pid and homi.sock of the daemons.     *)
(* Each look at one of these files or at a process, and each change of     *)
(* them, is a step of its own, but for two: whatever is at its path is     *)
(* unlinked with the bind, and a starter removes its autostart.lock with   *)
(* the look that ends its wait.                                            *)
(*                                                                         *)
(* A daemon answers from its bind until it closes.  waitForSocket gives up *)
(* (after 5 or 6 s) only when no daemon is on its way.  Requests after the *)
(* connection, HOMI_AUTOSTART=0 and the reuse of pids are left out.        *)
(*                                                                         *)
(* slips is no state of the code: it notes in which of three ways a daemon *)
(* went past a lock that was not stale, or past none.                      *)
(***************************************************************************)
EXTENDS Naturals

CONSTANTS Client,     \* processes that call the daemon
          Daemon,     \* daemon processes, each started once
          Nobody,     \* no file
          MaxDeaths,  \* bound on daemons that are killed
          MaxKills    \* bound on callers that are killed

ASSUME StartAssumption == Nobody \notin Daemon /\ MaxDeaths \in Nat /\ MaxKills \in Nat

VARIABLES autolock,   \* autostart.lock exists
          holder,     \* which callers made it
          at,         \* where each caller is
          sock,       \* whose socket is at the path of homi.sock
          pidfile,    \* whose pid is in daemon.pid
          lockdir,    \* who made daemon.lock; the code sees whether there is one
          up,         \* where each daemon is
          attempt,    \* of acquire_singleton
          oldpid,     \* the pid it has read from daemon.pid
          slips,      \* "blind", "late", "third": see Ps and Reclaim
          deaths, kills

callVars == <<autolock, holder, at>>
daemonVars == <<sock, pidfile, lockdir, attempt, oldpid, slips>>
startVars == <<callVars, daemonVars, up, deaths, kills>>

Starting == {"mkdir", "look", "pid", "kill", "ps", "reclaim", "open", "write", "bind"}
Serving == {"run"}
Stopping == {"stopPid", "stopLock", "exit"}
Alive(d) == up[d] \in Starting \cup Serving \cup Stopping
Answers == sock # Nobody /\ up[sock] \in Serving    \* a connection to homi.sock succeeds

StartInit ==
    /\ autolock = FALSE /\ holder = {} /\ at = [c \in Client |-> "idle"]
    /\ sock = Nobody /\ pidfile = Nobody /\ lockdir = Nobody
    /\ up = [d \in Daemon |-> "none"] /\ attempt = [d \in Daemon |-> 1]
    /\ oldpid = [d \in Daemon |-> Nobody] /\ slips = {}
    /\ deaths = 0 /\ kills = 0
-----------------------------------------------------------------------------
(* The daemon *)

Goes(d, s) == up' = [up EXCEPT ![d] = s]
Launch(d) == up[d] = "none" /\ Goes(d, "mkdir") /\ UNCHANGED daemonVars

Mkdir(d) ==
    /\ up[d] = "mkdir"
    /\ \/ lockdir = Nobody /\ lockdir' = d /\ Goes(d, "open")
       \/ lockdir # Nobody /\ Goes(d, "look") /\ UNCHANGED lockdir
    /\ UNCHANGED <<sock, pidfile, attempt, oldpid, slips>>

Look(d) == \* a socket that answers decides
    /\ up[d] = "look" /\ Goes(d, IF Answers THEN "out" ELSE "pid")
    /\ UNCHANGED daemonVars

\* Mutant: a lock without a pid file is taken for a stale one.
ReadPidReclaims(d) ==
    /\ up[d] = "pid" /\ oldpid' = [oldpid EXCEPT ![d] = pidfile]
    /\ Goes(d, IF pidfile = Nobody THEN "reclaim" ELSE "kill")
    /\ UNCHANGED <<sock, pidfile, lockdir, attempt, slips>>
ReadPid(d) ==
    /\ up[d] = "pid" /\ oldpid' = [oldpid EXCEPT ![d] = pidfile]
    /\ \/ pidfile # Nobody /\ Goes(d, "kill") /\ UNCHANGED attempt
       \/ \* another daemon is between its mkdir and its pid file
          /\ pidfile = Nobody /\ attempt[d] < 3
          /\ attempt' = [attempt EXCEPT ![d] = @ + 1] /\ Goes(d, "mkdir")
       \/ pidfile = Nobody /\ attempt[d] = 3 /\ Goes(d, "out") /\ UNCHANGED attempt
    /\ UNCHANGED <<sock, pidfile, lockdir, slips>>

KillZero(d) == \* os.kill(oldpid, 0): whoever it is may have ended since
    /\ up[d] = "kill" /\ Goes(d, IF Alive(oldpid[d]) THEN "ps" ELSE "reclaim")
    /\ UNCHANGED daemonVars

Ps(d) == \* ps names a homi; when it fails the lock of a living daemon counts as stale
    /\ up[d] = "ps" /\ UNCHANGED <<sock, pidfile, lockdir, attempt, oldpid>>
    /\ \/ Alive(oldpid[d]) /\ Goes(d, "out") /\ UNCHANGED slips
       \/ Alive(oldpid[d]) /\ Goes(d, "reclaim") /\ slips' = slips \cup {"blind"}
       \/ ~Alive(oldpid[d]) /\ Goes(d, "reclaim") /\ UNCHANGED slips

\* "late": by now it is the lock of another than the one whose pid was read.
\* "third": the last attempt ends the loop, and nobody makes the directory.
Slip(d) == {s \in {"late", "third"} :
               IF s = "late" THEN oldpid[d] # Nobody /\ lockdir \notin {Nobody, oldpid[d]}
                             ELSE attempt[d] = 3}
Reclaim(d) ==
    /\ up[d] = "reclaim" /\ lockdir' = Nobody /\ slips' = slips \cup Slip(d)
    /\ oldpid' = [oldpid EXCEPT ![d] = Nobody]
    /\ \/ attempt[d] = 1 /\ attempt' = [attempt EXCEPT ![d] = 2] /\ Goes(d, "mkdir")
       \/ attempt[d] = 2 /\ Goes(d, "out") /\ UNCHANGED attempt
       \/ attempt[d] = 3 /\ Goes(d, "open") /\ UNCHANGED attempt
    /\ UNCHANGED <<sock, pidfile>>

WritePid(d) == \* an empty file is no pid
    /\ \/ up[d] = "open" /\ pidfile' = Nobody /\ Goes(d, "write")
       \/ up[d] = "write" /\ pidfile' = d /\ Goes(d, "bind")
    /\ UNCHANGED <<sock, lockdir, attempt, oldpid, slips>>
Bind(d) == \* whatever is at the path is unlinked first
    /\ up[d] = "bind" /\ sock' = d /\ Goes(d, "run")
    /\ UNCHANGED <<pidfile, lockdir, attempt, oldpid, slips>>

Stop(d) == \* shutdown: SIGTERM or the operation stop
    /\ \/ up[d] = "run" /\ sock' = Nobody /\ Goes(d, "stopPid") /\ UNCHANGED <<pidfile, lockdir>>
       \/ up[d] = "stopPid" /\ pidfile' = Nobody /\ Goes(d, "stopLock") /\ UNCHANGED <<sock, lockdir>>
       \/ up[d] = "stopLock" /\ lockdir' = Nobody /\ Goes(d, "exit") /\ UNCHANGED <<sock, pidfile>>
       \/ up[d] = "exit" /\ Goes(d, "gone") /\ UNCHANGED <<sock, pidfile, lockdir>>
    /\ UNCHANGED <<attempt, oldpid, slips>>

DaemonStep(d) ==
    /\ \/ Mkdir(d) \/ Look(d) \/ ReadPid(d) \/ KillZero(d) \/ Ps(d) \/ Reclaim(d)
       \/ WritePid(d) \/ Bind(d) \/ Stop(d)
    /\ UNCHANGED <<callVars, deaths, kills>>
DaemonDies(d) == \* every file stays
    /\ Alive(d) /\ deaths < MaxDeaths /\ deaths' = deaths + 1 /\ Goes(d, "gone")
    /\ UNCHANGED <<callVars, daemonVars, kills>>
ServiceStarts(d) == \* KeepAlive, RunAtLoad
    Launch(d) /\ UNCHANGED <<callVars, deaths, kills>>
-----------------------------------------------------------------------------
(* A caller *)

OnTheWay == \E d \in Daemon : up[d] \in Starting
Moves(c, s) == at' = [at EXCEPT ![c] = s]
Quiet == UNCHANGED <<daemonVars, up, deaths, kills>>

Call(c) == /\ at[c] = "idle" /\ Moves(c, IF Answers THEN "served" ELSE "lock")
           /\ UNCHANGED <<autolock, holder>> /\ Quiet

Lock(c) == \* openSync(lock, "wx")
    /\ at[c] = "lock"
    /\ \/ /\ ~autolock /\ autolock' = TRUE /\ holder' = holder \cup {c} /\ Moves(c, "spawn")
       \/ autolock /\ Moves(c, "await") /\ UNCHANGED <<autolock, holder>>
    /\ Quiet

\* Mutant: a lock that stays is the end of the call.
AwaitFails(c) ==
    /\ at[c] = "await" /\ UNCHANGED <<autolock, holder>> /\ Quiet
    /\ \/ Answers /\ Moves(c, "connect")
       \/ ~Answers /\ ~OnTheWay /\ Moves(c, "failed")
Await(c) == \* someone else is starting a daemon, or died while doing so
    /\ at[c] = "await" /\ UNCHANGED <<autolock, holder>> /\ Quiet
    /\ \/ Answers /\ Moves(c, "connect")
       \/ ~Answers /\ ~OnTheWay /\ Moves(c, "take")

Take(c) == \* whoever's lock it is by now
    at[c] = "take" /\ autolock' = FALSE /\ Moves(c, "spawn") /\ UNCHANGED holder /\ Quiet

Spawn(c) == \E d \in Daemon : /\ at[c] = "spawn" /\ Launch(d) /\ Moves(c, "watch")
                              /\ UNCHANGED <<autolock, holder, deaths, kills>>

Leave(c, s) == \* finally
    /\ autolock' = (autolock /\ c \notin holder) /\ holder' = holder \ {c} /\ Moves(c, s)
Watch(c) ==
    /\ at[c] = "watch" /\ Quiet
    /\ \/ Answers /\ Leave(c, "connect")
       \/ ~Answers /\ ~OnTheWay /\ Leave(c, "failed")

Connect(c) == /\ at[c] = "connect" /\ Moves(c, IF Answers THEN "served" ELSE "failed")
              /\ UNCHANGED <<autolock, holder>> /\ Quiet

CallStep(c) == Call(c) \/ Lock(c) \/ Await(c) \/ Take(c) \/ Spawn(c) \/ Watch(c) \/ Connect(c)
CallerDies(c) == \* its lock stays
    /\ at[c] \notin {"idle", "served", "failed", "dead"} /\ kills < MaxKills /\ kills' = kills + 1
    /\ Moves(c, "dead") /\ UNCHANGED <<autolock, holder, daemonVars, up, deaths>>

StartNext ==
    \/ \E d \in Daemon : DaemonStep(d) \/ DaemonDies(d) \/ ServiceStarts(d)
    \/ \E c \in Client : CallStep(c) \/ CallerDies(c)
StartSpec == StartInit /\ [][StartNext]_startVars
-----------------------------------------------------------------------------
(* Until a daemon slips past a lock, at most one is past the singleton,   *)
(* and the one that serves has its own socket at the path, through every  *)
(* kill, stop and reclaim: two faces, one kernel (kernel.ts:98-101,       *)
(* homi.py:347-351). Unless ps failed, no daemon slips before another has *)
(* ended.                                                                 *)
Past(d) == up[d] \in ({"open", "write", "bind"} \cup Serving \cup Stopping) \ {"exit"}
Singleton ==
    /\ slips = {} => /\ \A d, e \in Daemon : Past(d) /\ Past(e) => d = e
                     /\ \A d \in Daemon : up[d] \in Serving => sock = d
    /\ slips # {} => "blind" \in slips \/ \E d \in Daemon : up[d] = "gone"

(* A call is refused only because a daemon was killed or stopped: neither a *)
(* starter that died with the lock nor two that race keep a caller from its *)
(* daemon (kernel.ts:98-113).                                               *)
Refused == {c \in Client : at[c] = "failed"}
RefusedForAReason ==
    Refused # {} => \E d \in Daemon : up[d] \in Stopping \cup {"gone"}
=============================================================================
