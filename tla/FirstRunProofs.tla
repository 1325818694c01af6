---------------------------- MODULE FirstRunProofs ----------------------------
(***************************************************************************)
(* The first run as a whole implements the start of the daemon: the guide, *)
(* its child process and the service manager touch its files only by the   *)
(* steps of HomiStart.  What is proved of either part holds of the whole.  *)
(***************************************************************************)
EXTENDS FirstRun, TLAPS

-----------------------------------------------------------------------------
(***************************************************************************)
(* The singleton of the daemon and the reason of every refused call, for   *)
(* any number of callers and daemons, and for any number of kills.         *)
(*                                                                         *)
(* Whoever is past acquire_singleton made daemon.lock, until a daemon has  *)
(* slipped past it.  A pid that was read is that of a daemon that had      *)
(* bound or was about to, and which may have ended since: one that decides *)
(* to reclaim, with ps answering, knows that it has.  So only the lock of  *)
(* the one whose pid it read is free to be taken, and taking another's is  *)
(* "late".                                                                 *)
(*                                                                         *)
(* For refusals it is enough that nothing was killed or stopped yet: one   *)
(* that met the lock or made it then has somebody past the singleton       *)
(* before it, slips or not.                                                *)
(***************************************************************************)

Phase == {"none", "out", "gone"} \cup Starting \cup Serving \cup Stopping
Place == {"idle", "lock", "await", "take", "spawn", "watch", "connect", "served", "failed", "dead"}
StartTyped ==
    /\ up \in [Daemon -> Phase] /\ at \in [Client -> Place]
    /\ pidfile \in Daemon \cup {Nobody} /\ sock \in Daemon \cup {Nobody} /\ lockdir \in Daemon \cup {Nobody}
    /\ oldpid \in [Daemon -> Daemon \cup {Nobody}]

\* One that wrote its pid.
Wrote(d) == up[d] \in {"bind", "gone"} \cup Serving \cup Stopping
PidWasWritten == pidfile # Nobody => Wrote(pidfile)
OldPidWasWritten == \A d \in Daemon : oldpid[d] # Nobody => Wrote(oldpid[d])
Tested == \A d \in Daemon : up[d] \in {"kill", "ps", "reclaim"} => oldpid[d] # Nobody
Pids == PidWasWritten /\ OldPidWasWritten /\ Tested

OwnerIsGone == "blind" \notin slips => \A d \in Daemon : up[d] = "reclaim" => up[oldpid[d]] = "gone"
SlipsHaveReason == slips # {} => "blind" \in slips \/ \E d \in Daemon : up[d] = "gone"
LockIsOwn == \A d \in Daemon : Past(d) => lockdir = d
SocketIsOwn == \A d \in Daemon : up[d] \in Serving => sock = d
Locking == OwnerIsGone /\ SlipsHaveReason /\ (slips = {} => LockIsOwn /\ SocketIsOwn)

\* Nobody was killed, and nobody stops or has stopped.
Calm == \A d \in Daemon : up[d] \notin Stopping \cup {"gone"}
MetTheLock == {"look", "pid", "kill", "ps", "reclaim", "out"}
SomeonePassed == lockdir # Nobody \/ (\E d \in Daemon : up[d] \in MetTheLock) => \E d \in Daemon : Past(d)
ServingAnswers == (\E d \in Daemon : up[d] \in Serving) => Answers
Started == (\E c \in Client : at[c] \in {"watch", "connect"}) => \E d \in Daemon : up[d] # "none"
Bound == (\E c \in Client : at[c] = "connect") => \E d \in Daemon : up[d] \in Serving
NoneRefused == \A c \in Client : at[c] # "failed"
WhileCalm == SomeonePassed /\ ServingAnswers /\ Started /\ Bound /\ NoneRefused

StartInvariant == StartTyped /\ Pids /\ Locking /\ (Calm => WhileCalm)

\* What one daemon does, and what the callers see of it.
DaemonMoves(d) ==
    \/ Mkdir(d) \/ Look(d) \/ ReadPid(d) \/ KillZero(d) \/ Ps(d) \/ Reclaim(d)
    \/ WritePid(d) \/ Bind(d) \/ Stop(d)
Ending(d) == Alive(d) /\ Goes(d, "gone") /\ UNCHANGED daemonVars
DaemonFrame == UNCHANGED <<daemonVars, up>>
-----------------------------------------------------------------------------
LEMMA Initially == StartInit => StartInvariant
<1> SUFFICES ASSUME StartInit PROVE StartInvariant
  OBVIOUS
<1>1. StartTyped
  BY StartAssumption DEF StartInit, StartTyped, Phase, Place
<1>2. Pids /\ Locking
  BY DEF StartInit, Pids, PidWasWritten, OldPidWasWritten, Tested, Locking, OwnerIsGone, SlipsHaveReason,
         LockIsOwn, SocketIsOwn, Past, Serving, Stopping
<1>3. WhileCalm
  BY DEF StartInit, WhileCalm, SomeonePassed, MetTheLock, ServingAnswers, Started, Bound, NoneRefused, Serving
<1> QED
  BY <1>1, <1>2, <1>3 DEF StartInvariant

\* Everything about the daemons alone is kept by every step of theirs.
LEMMA MovesKeepTypes ==
  ASSUME StartTyped, NEW d \in Daemon, DaemonMoves(d) \/ Launch(d) \/ Ending(d), UNCHANGED at
  PROVE  StartTyped'
  BY StartAssumption
  DEF StartTyped, DaemonMoves, Launch, Ending, Goes, Mkdir, Look, ReadPid, KillZero, Ps, Reclaim, WritePid, Bind,
      Stop, daemonVars, Phase, Starting, Serving, Stopping

\* A pid, once written, stays that of one that wrote it.
LEMMA MovesKeepPids ==
  ASSUME StartTyped, Pids, NEW d \in Daemon, DaemonMoves(d) \/ Launch(d) \/ Ending(d)
  PROVE  Pids'
<1>1. ASSUME NEW e \in Daemon, Wrote(e) PROVE Wrote(e)'
  BY <1>1
  DEF StartTyped, Wrote, DaemonMoves, Launch, Ending, Goes, Mkdir, Look, ReadPid, KillZero, Ps, Reclaim, WritePid,
      Bind, Stop, Serving, Stopping
<1>2. PidWasWritten'
  BY <1>1, StartAssumption
  DEF StartTyped, Pids, PidWasWritten, Wrote, DaemonMoves, Launch, Ending, Goes, Mkdir, Look, ReadPid, KillZero, Ps,
      Reclaim, WritePid, Bind, Stop, daemonVars
<1>3. OldPidWasWritten'
  BY <1>1, StartAssumption
  DEF StartTyped, Pids, PidWasWritten, OldPidWasWritten, DaemonMoves, Launch, Ending, Mkdir, Look, ReadPid, KillZero,
      Ps, Reclaim, WritePid, Bind, Stop, daemonVars
<1>4. Tested'
  BY DEF StartTyped, Pids, Tested, DaemonMoves, Launch, Ending, Goes, Mkdir, Look, ReadPid, KillZero, Ps, Reclaim,
         WritePid, Bind, Stop, daemonVars, Starting, Serving, Stopping
<1> QED
  BY <1>2, <1>3, <1>4 DEF Pids

\* One that reclaims has tested an owner that is gone, unless ps failed.
LEMMA MovesKeepReasons ==
  ASSUME StartTyped, Pids, Locking, NEW d \in Daemon, DaemonMoves(d) \/ Launch(d) \/ Ending(d)
  PROVE  OwnerIsGone' /\ SlipsHaveReason'
<1>1. ASSUME NEW e \in Daemon, up[e] = "gone" PROVE up'[e] = "gone"
  BY <1>1
  DEF StartTyped, DaemonMoves, Launch, Ending, Alive, Goes, Mkdir, Look, ReadPid, KillZero, Ps, Reclaim, WritePid,
      Bind, Stop, Starting, Serving, Stopping
<1>2. ASSUME NEW e \in Daemon, Wrote(e), ~Alive(e) PROVE up[e] = "gone"
  BY <1>2 DEF Wrote, Alive, Starting, Serving, Stopping
<1>3. OwnerIsGone'
  <2>1. CASE KillZero(d) \/ Ps(d)
    BY <2>1, <1>1, <1>2
    DEF StartTyped, Pids, OldPidWasWritten, Tested, Locking, OwnerIsGone, KillZero, Ps, Goes, daemonVars
  <2> QED
    BY <2>1, <1>1
    DEF StartTyped, Pids, Tested, Locking, OwnerIsGone, DaemonMoves, Launch, Ending, Goes, Mkdir, Look, ReadPid,
        Reclaim, WritePid, Bind, Stop, daemonVars
<1>4. SlipsHaveReason'
  <2>1. CASE Reclaim(d)
    <3>1. "blind" \notin slips => oldpid[d] \in Daemon /\ up[oldpid[d]] = "gone"
      BY <2>1 DEF StartTyped, Pids, Tested, Locking, OwnerIsGone, Reclaim
    <3> QED
      BY <2>1, <3>1, <1>1 DEF SlipsHaveReason, Reclaim
  <2> QED
    BY <2>1, <1>1
    DEF Locking, SlipsHaveReason, DaemonMoves, Launch, Ending, Mkdir, Look, ReadPid, KillZero, Ps, WritePid, Bind,
        Stop, daemonVars
<1> QED
  BY <1>3, <1>4

\* As long as nobody slips, a reclaimed lock is that of a daemon that is gone.
LEMMA MovesKeepLock ==
  ASSUME StartTyped, Pids, Locking, NEW d \in Daemon, DaemonMoves(d) \/ Launch(d) \/ Ending(d), slips' = {}
  PROVE  LockIsOwn' /\ SocketIsOwn'
<1>1. slips = {}
  BY DEF DaemonMoves, Launch, Ending, Mkdir, Look, ReadPid, KillZero, Ps, Reclaim, WritePid, Bind, Stop, daemonVars
<1>2. LockIsOwn /\ SocketIsOwn
  BY <1>1 DEF Locking
<1>3. CASE Reclaim(d)
  <2>1. oldpid[d] \in Daemon /\ up[oldpid[d]] = "gone"
    BY <1>1, <1>3 DEF StartTyped, Pids, Tested, Locking, OwnerIsGone, Reclaim
  <2>2. lockdir \in {Nobody, oldpid[d]} /\ attempt[d] # 3
    BY <1>3, <2>1, StartAssumption DEF Reclaim, Slip
  <2>3. \A e \in Daemon : ~Past(e)
    BY <1>2, <2>1, <2>2, StartAssumption DEF LockIsOwn, Past, Serving, Stopping
  <2> QED
    BY <1>2, <1>3, <2>2, <2>3
    DEF StartTyped, LockIsOwn, SocketIsOwn, Reclaim, Goes, Past, Serving, Stopping
<1>4. CASE ~Reclaim(d)
  BY <1>2, <1>4, StartAssumption
  DEF StartTyped, LockIsOwn, SocketIsOwn, Past, DaemonMoves, Launch, Ending, Alive, Goes, Mkdir, Look, ReadPid,
      KillZero, Ps, WritePid, Bind, Stop, daemonVars, Starting, Serving, Stopping
<1> QED
  BY <1>3, <1>4

\* While nothing ends, whoever met the lock has somebody past it, and who serves answers.
LEMMA MovesKeepFollower ==
  ASSUME StartTyped, Calm, WhileCalm, Calm', NEW d \in Daemon, DaemonMoves(d) \/ Launch(d)
  PROVE  SomeonePassed' /\ ServingAnswers'
<1>1. ASSUME NEW e \in Daemon, Past(e) PROVE Past(e)'
  BY <1>1
  DEF StartTyped, Calm, Past, DaemonMoves, Launch, Goes, Mkdir, Look, ReadPid, KillZero, Ps, Reclaim, WritePid, Bind,
      Stop, Serving, Stopping
<1>2. SomeonePassed'
  <2>1. CASE \E e \in Daemon : Past(e)
    BY <2>1, <1>1 DEF SomeonePassed
  <2>2. CASE \A e \in Daemon : ~Past(e)
    <3>1. lockdir = Nobody /\ \A e \in Daemon : up[e] \notin MetTheLock
      BY <2>2 DEF WhileCalm, SomeonePassed
    <3>2. CASE Mkdir(d)
      BY <3>1, <3>2 DEF StartTyped, SomeonePassed, Mkdir, Goes, Past
    <3>3. CASE Launch(d)
      BY <3>1, <3>3 DEF StartTyped, SomeonePassed, MetTheLock, Launch, Goes, daemonVars
    <3> QED
      BY <2>2, <3>1, <3>2, <3>3
      DEF Calm, Past, MetTheLock, DaemonMoves, Look, ReadPid, KillZero, Ps, Reclaim, WritePid, Bind, Stop,
          Serving, Stopping
  <2> QED
    BY <2>1, <2>2
<1>3. ServingAnswers'
  BY StartAssumption
  DEF StartTyped, Calm, WhileCalm, ServingAnswers, Answers, DaemonMoves, Launch, Goes, Mkdir, Look, ReadPid, KillZero,
      Ps, Reclaim, WritePid, Bind, Stop, daemonVars, Serving, Stopping
<1> QED
  BY <1>2, <1>3

\* One that was started is followed by one that is under way or answers.
LEMMA Followed ==
  ASSUME StartTyped, Calm, SomeonePassed, ServingAnswers, \E d \in Daemon : up[d] # "none"
  PROVE  OnTheWay \/ Answers
<1>1. \E d \in Daemon : up[d] \in Starting \cup Serving
  BY DEF StartTyped, Calm, SomeonePassed, MetTheLock, Past, Phase, Starting, Serving, Stopping
<1> QED
  BY <1>1 DEF OnTheWay, ServingAnswers
-----------------------------------------------------------------------------
LEMMA DaemonKeeps ==
  ASSUME StartInvariant, NEW d \in Daemon, DaemonMoves(d) \/ Launch(d) \/ Ending(d), UNCHANGED at
  PROVE  StartInvariant'
<1>1. StartTyped /\ StartTyped' /\ Pids /\ Pids' /\ Locking /\ Locking'
  BY MovesKeepTypes, MovesKeepPids, MovesKeepReasons, MovesKeepLock DEF StartInvariant, Locking
<1>2. Calm' => Calm /\ ~Ending(d)
  BY <1>1 DEF Calm, StartTyped, DaemonMoves, Launch, Ending, Alive, Goes, Mkdir, Look, ReadPid, KillZero, Ps, Reclaim,
              WritePid, Bind, Stop, Phase, Starting, Serving, Stopping
<1>3. ASSUME Calm' PROVE WhileCalm'
  <2>1. Calm /\ WhileCalm /\ (DaemonMoves(d) \/ Launch(d))
    BY <1>2, <1>3 DEF StartInvariant
  <2>2. SomeonePassed' /\ ServingAnswers'
    BY <1>1, <1>3, <2>1, MovesKeepFollower
  <2>3. Started' /\ NoneRefused'
    <3>1. ASSUME NEW e \in Daemon, up[e] # "none" PROVE up'[e] # "none"
      BY <1>1, <2>1, <3>1 DEF StartTyped, DaemonMoves, Launch, Goes, Mkdir, Look, ReadPid, KillZero, Ps, Reclaim,
                              WritePid, Bind, Stop
    <3> QED
      BY <2>1, <3>1 DEF WhileCalm, Started, NoneRefused
  <2>4. Bound'
    <3>1. ASSUME NEW e \in Daemon, up[e] \in Serving PROVE up'[e] \in Serving
      BY <1>1, <1>3, <2>1, <3>1 DEF Calm, StartTyped, DaemonMoves, Launch, Goes, Mkdir, Look, ReadPid, KillZero, Ps,
                                    Reclaim, WritePid, Bind, Stop, Serving, Stopping
    <3> QED
      BY <2>1, <3>1 DEF Bound, WhileCalm
  <2> QED
    BY <2>2, <2>3, <2>4 DEF WhileCalm
<1> QED
  BY <1>1, <1>3 DEF StartInvariant

\* Who sees the daemons as they are.
LEMMA FrameKeeps ==
  ASSUME Pids, Locking, DaemonFrame
  PROVE  Pids' /\ Locking' /\ (Calm' <=> Calm)
<1>1. Pids'
  BY DEF DaemonFrame, daemonVars, Pids, PidWasWritten, OldPidWasWritten, Tested, Wrote
<1>2. Locking'
  BY DEF DaemonFrame, daemonVars, Locking, OwnerIsGone, SlipsHaveReason, LockIsOwn, SocketIsOwn, Past
<1> QED
  BY <1>1, <1>2 DEF DaemonFrame, Calm

\* A caller that launches nothing.
LEMMA CallerKeeps ==
  ASSUME StartInvariant, NEW c \in Client, DaemonFrame,
         Call(c) \/ Lock(c) \/ Await(c) \/ Take(c) \/ Watch(c) \/ Connect(c) \/ CallerDies(c)
  PROVE  StartInvariant'
<1>1. StartTyped /\ StartTyped'
  BY DEF StartInvariant, StartTyped, DaemonFrame, daemonVars, Call, Lock, Await, Take, Watch, Leave, Connect,
         CallerDies, Moves, Place
<1>2. Pids' /\ Locking' /\ (Calm' <=> Calm)
  BY FrameKeeps DEF StartInvariant
<1>3. ASSUME Calm PROVE WhileCalm'
  <2>1. WhileCalm
    BY <1>3 DEF StartInvariant
  <2>2. SomeonePassed' /\ ServingAnswers'
    BY <2>1 DEF WhileCalm, SomeonePassed, ServingAnswers, Answers, Past, DaemonFrame, daemonVars
  <2>3. Answers <=> \E d \in Daemon : up[d] \in Serving
    BY <1>1, <2>1, StartAssumption DEF Answers, StartTyped, WhileCalm, ServingAnswers
  <2>4. Started'
    BY <1>1, <2>1, <2>3
    DEF WhileCalm, Started, DaemonFrame, StartTyped, Call, Lock, Await, Take, Watch, Leave, Connect, CallerDies,
        Moves, Place, Serving
  <2>5. Bound'
    BY <1>1, <2>1, <2>3
    DEF WhileCalm, Bound, DaemonFrame, StartTyped, Call, Lock, Await, Take, Watch, Leave, Connect, CallerDies,
        Moves, Place, Serving
  <2>6. NoneRefused'
    <3>1. ASSUME at[c] = "watch", ~Answers, ~OnTheWay PROVE FALSE
      BY <1>1, <1>3, <2>1, <3>1, Followed DEF WhileCalm, Started
    <3>2. ASSUME at[c] = "connect", ~Answers PROVE FALSE
      BY <2>1, <2>3, <3>2 DEF WhileCalm, Bound
    <3> QED
      BY <1>1, <2>1, <3>1, <3>2
      DEF WhileCalm, NoneRefused, StartTyped, Call, Lock, Await, Take, Watch, Leave, Connect, CallerDies, Moves, Place
  <2> QED
    BY <2>2, <2>4, <2>5, <2>6 DEF WhileCalm
<1> QED
  BY <1>1, <1>2, <1>3 DEF StartInvariant

LEMMA SpawnKeeps ==
  ASSUME StartInvariant, NEW c \in Client, Spawn(c) PROVE StartInvariant'
<1>1. PICK d \in Daemon : at[c] = "spawn" /\ Launch(d) /\ Moves(c, "watch")
  BY DEF Spawn
<1>2. StartTyped /\ StartTyped'
  BY <1>1, StartAssumption
  DEF StartInvariant, StartTyped, Launch, Goes, Moves, daemonVars, Phase, Place, Starting
<1>3. Pids' /\ Locking'
  BY <1>1, <1>2, MovesKeepPids, MovesKeepReasons, MovesKeepLock DEF StartInvariant, Locking
<1>4. Calm' => Calm
  BY <1>1, <1>2 DEF Calm, StartTyped, Launch, Goes, Phase, Starting, Serving, Stopping
<1>5. ASSUME Calm' PROVE WhileCalm'
  <2>1. Calm /\ WhileCalm
    BY <1>4, <1>5 DEF StartInvariant
  <2>2. SomeonePassed' /\ ServingAnswers'
    BY <1>1, <1>2, <1>5, <2>1, MovesKeepFollower
  <2>3. Started'
    BY <1>1, <1>2 DEF Started, Launch, Goes, StartTyped
  <2>4. Bound'
    <3>1. ASSUME NEW e \in Daemon, up[e] \in Serving PROVE up'[e] \in Serving
      BY <1>1, <1>2, <3>1 DEF Launch, Goes, StartTyped, Serving
    <3>2. ASSUME NEW b \in Client, at'[b] = "connect" PROVE at[b] = "connect"
      BY <1>1, <1>2, <3>2 DEF Moves, StartTyped
    <3> QED
      BY <2>1, <3>1, <3>2 DEF Bound, WhileCalm
  <2>5. NoneRefused'
    BY <1>1, <1>2, <2>1 DEF NoneRefused, WhileCalm, Moves, StartTyped
  <2> QED
    BY <2>2, <2>3, <2>4, <2>5 DEF WhileCalm
<1> QED
  BY <1>2, <1>3, <1>5 DEF StartInvariant

LEMMA StutterKeeps == StartInvariant /\ UNCHANGED startVars => StartInvariant'
<1> SUFFICES ASSUME StartInvariant, UNCHANGED startVars PROVE StartInvariant'
  OBVIOUS
<1>1. DaemonFrame /\ UNCHANGED at
  BY DEF startVars, DaemonFrame, callVars
<1>2. StartTyped' /\ Pids' /\ Locking' /\ (Calm' <=> Calm)
  BY <1>1, FrameKeeps DEF StartInvariant, StartTyped, DaemonFrame, daemonVars
<1>3. WhileCalm' <=> WhileCalm
  BY <1>1 DEF WhileCalm, SomeonePassed, ServingAnswers, Answers, Started, Bound, NoneRefused, Past, DaemonFrame,
              daemonVars
<1> QED
  BY <1>2, <1>3 DEF StartInvariant

LEMMA NextKeeps == StartInvariant /\ [StartNext]_startVars => StartInvariant'
<1> SUFFICES ASSUME StartInvariant, [StartNext]_startVars PROVE StartInvariant'
  OBVIOUS
<1>1. ASSUME NEW d \in Daemon, DaemonStep(d) \/ ServiceStarts(d) \/ DaemonDies(d) PROVE StartInvariant'
  BY <1>1, DaemonKeeps DEF DaemonStep, ServiceStarts, DaemonDies, DaemonMoves, Ending, callVars
<1>2. ASSUME NEW c \in Client, Spawn(c) PROVE StartInvariant'
  BY <1>2, SpawnKeeps
<1>3. ASSUME NEW c \in Client, Call(c) \/ Lock(c) \/ Await(c) \/ Take(c) \/ Watch(c) \/ Connect(c) \/ CallerDies(c)
      PROVE  StartInvariant'
  <2>1. DaemonFrame
    BY <1>3 DEF DaemonFrame, Call, Lock, Await, Take, Watch, Connect, CallerDies, Quiet
  <2> QED
    BY <1>3, <2>1, CallerKeeps
<1>4. CASE UNCHANGED startVars
  BY <1>4, StutterKeeps
<1> QED
  BY <1>1, <1>2, <1>3, <1>4 DEF StartNext, CallStep
-----------------------------------------------------------------------------
(* What the files of the starters and of the daemons say, however the       *)
(* reads, tests and changes of them interleave: whose lock it is, whose pid *)
(* was read, and who follows a start (kernel.ts:93-127, homi.py:325-377,    *)
(* 3243-3281).                                                              *)
THEOREM FilesTellTheTruth == StartSpec => []StartInvariant
  BY Initially, NextKeeps, PTL DEF StartSpec

(* However many callers and the service manager start, stop and kill how    *)
(* many daemons at once, two are past acquire_singleton only after one      *)
(* reclaimed the lock of another than the one whose pid it had read, went   *)
(* on without a lock, or ps failed; the first two take a daemon that has    *)
(* ended (homi.py:340-375). Until then the one that serves is the one its   *)
(* socket reaches.                                                          *)
THEOREM OneKernel == StartSpec => []Singleton
<1>1. StartInvariant => Singleton
  <2>1. ASSUME StartInvariant, slips = {}, NEW d \in Daemon, NEW e \in Daemon, Past(d), Past(e) PROVE d = e
    BY <2>1 DEF StartInvariant, Locking, LockIsOwn
  <2> QED
    BY <2>1 DEF StartInvariant, Locking, SlipsHaveReason, SocketIsOwn, Singleton
<1> QED
  BY <1>1, FilesTellTheTruth, PTL

(* Every refused call has a daemon that was killed or stopped behind it;     *)
(* callers that die with autostart.lock, at any step, are never the reason.  *)
THEOREM NoCallRefusedForNothing == StartSpec => []RefusedForAReason
<1>1. StartInvariant => RefusedForAReason
  BY DEF StartInvariant, WhileCalm, NoneRefused, Calm, RefusedForAReason, Refused
<1> QED
  BY <1>1, FilesTellTheTruth, PTL

-----------------------------------------------------------------------------
(***************************************************************************)
(* What a run of the guide changed and how it reports its end, for every   *)
(* set of tools, every order of the plan, all options and answers, and any *)
(* number of changes by others.                                            *)
(*                                                                         *)
(* Where a run is says what it may have changed: nothing before the first  *)
(* consent, packages before the setup of the core, and from there on every *)
(* choice it has passed.                                                   *)
(***************************************************************************)

Unagreed == {"ask", "plan", "model", "bus", "preview", "consent"}
Packaging == {"install", "preview2", "consent2", "setup"}
Behind == {"profile", "applyBus", "applyModel", "login"}
Stages == Unagreed \cup Packaging \cup Behind \cup {"end"}

NothingYet == stage \in Unagreed => done = {}
PackagesOnly == stage \in Packaging => done \subseteq {"packages"}
PlanShown == stage \in Stages \ {"ask", "plan", "end"} => "plan" \in shown
PlanAgreed == stage \in Packaging \cup Behind => "plan" \in agreed
ShownIsAgreed == stage = "install" => shown \subseteq agreed
ProfileShown == stage = "consent2" /\ opt.profile => "profile" \in shown
ProfileAgreed == stage \in {"setup"} \cup Behind /\ opt.profile => "profile" \in agreed
Agreements == PlanShown /\ PlanAgreed /\ ShownIsAgreed /\ ProfileShown /\ ProfileAgreed

CoreDone == stage \in Behind => "core" \in done /\ (opt.service => "service" \in done)
ChoicesDone ==
    /\ stage \in {"applyBus", "applyModel", "login"} /\ opt.profile => "profile" \in done
    /\ stage \in {"applyModel", "login"} /\ opt.bus # "keep" => "bus" \in done
    /\ stage = "login" /\ opt.model => "model" \in done
Progress == NothingYet /\ PackagesOnly /\ CoreDone /\ ChoicesDone

\* A run reports its end once.
SaidAtEnd == stage \in Stages /\ (stage # "end" => said = "")

ObInvariant == SaidAtEnd /\ Agreements /\ Progress /\ ReportTrue /\ Consented

\* The steps before the core is set up, and the others.
Asking == Ask \/ Plan \/ PrepareModel \/ PrepareBus \/ FirstPreview \/ FirstConsent
Preparing == Install \/ Verify \/ SecondPreview \/ SecondConsent
Choosing == Setup \/ InstallProfile \/ ApplyBus \/ ApplyModel \/ Login
-----------------------------------------------------------------------------
LEMMA AskingKeepsAgreements == ObInvariant /\ Asking => (SaidAtEnd /\ Agreements)'
  BY DEF ObInvariant, SaidAtEnd, Agreements, PlanShown, PlanAgreed, ShownIsAgreed, ProfileShown, ProfileAgreed,
         Asking, Ask, Plan, PrepareModel, PrepareBus, FirstPreview, Preview, FirstConsent, Consent, To, Ends, Still,
         Unagreed, Packaging, Behind, Stages

LEMMA AskingKeepsProgress == ObInvariant /\ Asking => (Progress /\ ReportTrue /\ Consented)'
  BY DEF ObInvariant, SaidAtEnd, Progress, NothingYet, PackagesOnly, CoreDone, ChoicesDone, ReportTrue, Consented,
         Asking, Ask, Plan, PrepareModel, PrepareBus, FirstPreview, Preview, FirstConsent, Consent, To, Ends, Still,
         Unagreed, Packaging, Behind, Stages

LEMMA PreparingKeepsAgreements == ObInvariant /\ Preparing => (SaidAtEnd /\ Agreements)'
  BY DEF ObInvariant, SaidAtEnd, Agreements, PlanShown, PlanAgreed, ShownIsAgreed, ProfileShown, ProfileAgreed,
         Preparing, Install, Verify, Previewed, SecondPreview, Preview, SecondConsent, Consent, To, Ends, Still,
         Unagreed, Packaging, Behind, Stages

LEMMA PreparingKeepsProgress == ObInvariant /\ Preparing => (Progress /\ ReportTrue /\ Consented)'
  BY DEF ObInvariant, SaidAtEnd, Progress, NothingYet, PackagesOnly, CoreDone, ChoicesDone, ReportTrue, Consented,
         Agreements, PlanShown, PlanAgreed,
         Preparing, Install, Verify, Previewed, SecondPreview, Preview, SecondConsent, Consent, To, Ends, Still,
         Unagreed, Packaging, Behind, Stages

LEMMA ChoosingKeepsAgreements == ObInvariant /\ Choosing => (SaidAtEnd /\ Agreements)'
  BY DEF ObInvariant, SaidAtEnd, Agreements, PlanShown, PlanAgreed, ShownIsAgreed, ProfileShown, ProfileAgreed,
         Choosing, Setup, InstallProfile, ApplyBus, ApplyModel, Login, Change, Beside, To, Ends, Still,
         Unagreed, Packaging, Behind, Stages

LEMMA ChoosingKeepsProgress == ObInvariant /\ Choosing => Progress'
  BY DEF ObInvariant, SaidAtEnd, Progress, NothingYet, PackagesOnly, CoreDone, ChoicesDone,
         Choosing, Setup, InstallProfile, ApplyBus, ApplyModel, Login, Change, Beside, To, Ends, Still,
         Unagreed, Packaging, Behind, Stages

LEMMA ChoosingReports == ObInvariant /\ Choosing => (ReportTrue /\ Consented)'
<1> SUFFICES ASSUME ObInvariant, Choosing PROVE (ReportTrue /\ Consented)'
  OBVIOUS
<1>1. ReportTrue'
  BY DEF ObInvariant, SaidAtEnd, Progress, NothingYet, PackagesOnly, CoreDone, ChoicesDone, ReportTrue, Chosen,
         Choosing, Setup, InstallProfile, ApplyBus, ApplyModel, Login, Change, Beside, To, Ends, Still,
         Unagreed, Packaging, Behind, Stages
<1>2. Consented'
  BY DEF ObInvariant, Consented, Agreements, PlanAgreed, ProfileAgreed, Progress, PackagesOnly,
         Choosing, Setup, InstallProfile, ApplyBus, ApplyModel, Login, Change, Beside, To, Ends, Still,
         Unagreed, Packaging, Behind, Stages
<1> QED
  BY <1>1, <1>2

LEMMA OthersKeep == ObInvariant /\ (Drifts \/ UNCHANGED obVars) => ObInvariant'
<1>1. Drifts \/ UNCHANGED obVars => UNCHANGED <<opt, stage, shown, agreed, done, said>>
  BY DEF Drifts, obVars
<1>2. ObInvariant /\ UNCHANGED <<opt, stage, shown, agreed, done, said>> => ObInvariant'
  BY ZenonT(60) DEF ObInvariant, SaidAtEnd, Agreements, PlanShown, PlanAgreed, ShownIsAgreed, ProfileShown, ProfileAgreed,
         Progress, NothingYet, PackagesOnly, CoreDone, ChoicesDone, ReportTrue, Chosen, Consented
<1> QED
  BY <1>1, <1>2

LEMMA ObStep == ObInvariant /\ [ObNext]_obVars => ObInvariant'
<1>1. ObInvariant /\ Asking => ObInvariant'
  BY AskingKeepsAgreements, AskingKeepsProgress DEF ObInvariant
<1>2. ObInvariant /\ Preparing => ObInvariant'
  BY PreparingKeepsAgreements, PreparingKeepsProgress DEF ObInvariant
<1>3. ObInvariant /\ Choosing => ObInvariant'
  BY ChoosingKeepsAgreements, ChoosingKeepsProgress, ChoosingReports DEF ObInvariant
<1> QED
  BY <1>1, <1>2, <1>3, OthersKeep DEF ObNext, Asking, Preparing, Choosing

LEMMA ObBegins == ObInit => ObInvariant
  BY DEF ObInit, ObInvariant, SaidAtEnd, Agreements, PlanShown, PlanAgreed, ShownIsAgreed, ProfileShown,
         ProfileAgreed, Progress, NothingYet, PackagesOnly, CoreDone, ChoicesDone, ReportTrue, Chosen, Consented,
         Unagreed, Packaging, Behind, Stages

(* Where a run is says what it has changed and been agreed to.               *)
THEOREM GuideInvariant == ObSpec => []ObInvariant
  BY ObBegins, ObStep, PTL DEF ObSpec

(* A run never says less or more of its end than it did: the catch blocks of *)
(* executeOnboarding (onboarding.mjs:274-322) promise what is true.          *)
THEOREM ReportsAreTrue == ObSpec => []ReportTrue
<1>1. ObInvariant => ReportTrue
  BY DEF ObInvariant
<1> QED
  BY <1>1, GuideInvariant, PTL

(* Nothing changes that was not shown before the last consent: the second    *)
(* preview has a consent of its own (onboarding.mjs:284-287).                *)
THEOREM ChangesAreConsented == ObSpec => []Consented
<1>1. ObInvariant => Consented
  BY DEF ObInvariant
<1> QED
  BY <1>1, GuideInvariant, PTL

-----------------------------------------------------------------------------
(* The whole. *)

LEMMA FirstBegins == FirstInit => StartInit /\ ObInvariant
  BY ObBegins DEF FirstInit

LEMMA FirstStepStarts == [FirstNext]_vars => [StartNext]_startVars
<1>1. Onboard \/ Exits => UNCHANGED startVars
  BY DEF Onboard, Exits
<1>2. Calls => StartNext
  BY DEF Calls, StartNext
<1>3. Daemons => StartNext
  BY DEF Daemons, StartNext
<1> QED
  BY <1>1, <1>2, <1>3 DEF FirstNext, vars

\* The guide's own variables are gone with its process.
GuideGone == stage = "gone" /\ said = "" /\ done = {}
GuideTrue == IF stage = "gone" THEN GuideGone ELSE ObInvariant

LEMMA FirstStepGuides == GuideTrue /\ [FirstNext]_vars => GuideTrue'
<1> SUFFICES ASSUME GuideTrue, [FirstNext]_vars PROVE GuideTrue'
  OBVIOUS
<1>1. CASE Exits
  BY <1>1 DEF Exits, GuideTrue, GuideGone
<1>2. CASE UNCHANGED obVars
  <2>1. stage' = stage /\ said' = said /\ done' = done
    BY <1>2 DEF obVars
  <2> QED
    BY <1>2, <2>1, OthersKeep DEF GuideTrue, GuideGone
<1>3. CASE Onboard /\ stage = "gone"
  <2>1. Drifts
    BY <1>3 DEF Onboard, ObNext, Ask, Plan, PrepareModel, PrepareBus, FirstPreview, FirstConsent, Install, Verify,
                SecondPreview, SecondConsent, Consent, Setup, InstallProfile, ApplyBus, ApplyModel, Login
  <2> QED
    BY <1>3, <2>1 DEF Drifts, GuideTrue, GuideGone
<1>4. CASE Onboard /\ stage # "gone"
  <2>1. ObInvariant'
    BY <1>4, ObStep DEF Onboard, GuideTrue
  <2>2. stage' # "gone"
    BY <2>1 DEF ObInvariant, SaidAtEnd, Stages, Unagreed, Packaging, Behind
  <2> QED
    BY <2>1, <2>2 DEF GuideTrue
<1> QED
  BY <1>1, <1>2, <1>3, <1>4 DEF FirstNext, vars
-----------------------------------------------------------------------------
(* Every behaviour of the first run is one of the start of the daemon        *)
(* (cli.ts:48-66 leaves the daemon's files to kernel.ts and homi.py).        *)
THEOREM FirstRunStarts == FirstSpec => StartSpec
  BY FirstBegins, FirstStepStarts, PTL DEF FirstSpec, StartSpec

(* One kernel behind every face during and after a first run, but for the   *)
(* same three ways past the lock (kernel.ts:98, homi.py:347) ...            *)
THEOREM FirstRunOneKernel == FirstSpec => []Singleton
  BY FirstRunStarts, OneKernel, PTL

(* ... and no call of the command or of a session refused without a daemon   *)
(* that was killed or stopped.                                               *)
THEOREM FirstRunRefusals == FirstSpec => []RefusedForAReason
  BY FirstRunStarts, NoCallRefusedForNothing, PTL

(* The guide's reports stay true, and what it changes consented, in a run    *)
(* whose daemons and sessions are already at work.                           *)
THEOREM FirstRunReports == FirstSpec => [](ReportTrue /\ Consented)
<1>1. FirstInit => GuideTrue
  BY FirstBegins DEF GuideTrue, ObInvariant, SaidAtEnd, Stages, Unagreed, Packaging, Behind
<1>2. GuideTrue => ReportTrue /\ Consented
  BY DEF GuideTrue, GuideGone, ObInvariant, ReportTrue, Consented
<1> QED
  BY <1>1, <1>2, FirstStepGuides, PTL DEF FirstSpec
=============================================================================
