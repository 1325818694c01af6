--------------------------- MODULE HomiSetupProofs ---------------------------
(***************************************************************************)
(* Proofs about setup, rollback and uninstall, for any number of commands, *)
(* releases, clients' registrations, failures and kills.                   *)
(*                                                                         *)
(* First the lock: every step of a command is a step of InstallLock or     *)
(* leaves the lock alone, so what is proved of the lock holds of the       *)
(* installer.                                                              *)
(*                                                                         *)
(* Then the types, whatever the operator does: the shape of the ledger, of *)
(* the installation and of a command's notes, and which steps each command *)
(* has.  On the way every step is described as a move, of the installation *)
(* and of the notes of the command that takes it: a dozen facts where the  *)
(* action has EXCEPT upon EXCEPT.                                          *)
(*                                                                         *)
(* Last, what a command knows of the installation in each of its steps,    *)
(* said in ten parts, and the first five of them proved to be kept.        *)
(* HomiSetupStateProofs has the other five and what follows from all.      *)
(***************************************************************************)
EXTENDS HomiSetup, TLAPS

-----------------------------------------------------------------------------
(***************************************************************************)
(* The installation lock, for any number of processes, any supply of       *)
(* inodes and any operator.  The argument: a directory that a live process *)
(* made is either still at the path or was renamed, and no inode is used   *)
(* twice, so two live processes never made "the same" directory.           *)
(***************************************************************************)

USE DEF Live

\* Where the directory of each live process is, and that they are different.
Whereabouts ==
    /\ \A p \in Proc : at[p] \in Live =>
          mine[p] \in Inode /\ (mine[p] \in aside \/ (lock # Free /\ lock.ino = mine[p]))
    /\ lock # Free => lock.ino \notin aside
    /\ \A p, q \in Proc : at[p] \in Live /\ at[q] \in Live /\ p # q => mine[p] # mine[q]

\* With a careful operator, the directory of a live process is at the path.
InPlace == Careful => \A p \in Proc : at[p] \in Live => lock # Free /\ lock.ino = mine[p]

LockInv == LockTypeOK /\ Whereabouts /\ InPlace

LEMMA LockInitInv == LockInit => LockInv
  BY LockAssumption DEF LockInit, LockInv, LockTypeOK, Whereabouts, InPlace

LEMMA LockTypeStep == LockTypeOK /\ [LockNext]_lockVars => LockTypeOK'
<1> SUFFICES ASSUME LockTypeOK, [LockNext]_lockVars PROVE LockTypeOK'
  OBVIOUS
<1> USE LockAssumption DEF LockTypeOK
<1>1. ASSUME NEW p \in Proc, Make(p) PROVE LockTypeOK'
  BY <1>1 DEF Make
<1>2. ASSUME NEW p \in Proc, Refuse(p) PROVE LockTypeOK'
  BY <1>2 DEF Refuse
<1>3. ASSUME NEW p \in Proc, Record(p) PROVE LockTypeOK'
  BY <1>3 DEF Record
<1>4. ASSUME NEW p \in Proc, RecordFails(p) \/ Finish(p) \/ Die(p) PROVE LockTypeOK'
  BY <1>4 DEF RecordFails, Finish, Die
<1>5. ASSUME NEW p \in Proc, Leave(p) PROVE LockTypeOK'
  BY <1>5 DEF Leave
<1>6. CASE SetAside
  BY <1>6 DEF SetAside
<1>7. CASE UNCHANGED lockVars
  BY <1>7 DEF lockVars
<1> QED
  BY <1>1, <1>2, <1>3, <1>4, <1>5, <1>6, <1>7 DEF LockNext

LEMMA LockStep == LockInv /\ [LockNext]_lockVars => LockInv'
<1> SUFFICES ASSUME LockInv, [LockNext]_lockVars PROVE LockInv'
  OBVIOUS
<1> USE LockAssumption DEF LockInv
<1>t. LockTypeOK'
  BY LockTypeStep
<1>1. ASSUME NEW p \in Proc, Make(p) PROVE Whereabouts' /\ InPlace'
  <2>1. PICK i \in Inode \ aside : /\ lock' = [ino |-> i, owner |-> Nobody]
                                   /\ mine' = [mine EXCEPT ![p] = i]
    BY <1>1 DEF Make
  <2>2. lock' # Free /\ lock'.ino = i /\ lock = Free /\ aside' = aside
    BY <2>1, <1>1 DEF Make
  <2>3. \A q \in Proc : q # p => mine'[q] = mine[q] /\ at'[q] = at[q]
    BY <2>1, <1>1 DEF Make, LockTypeOK
  <2>4. mine'[p] = i
    BY <2>1 DEF LockTypeOK
  <2>5. \A q \in Proc : at[q] \in Live => mine[q] \in aside
    BY <2>2 DEF Whereabouts
  <2>6. Whereabouts'
    BY <2>1, <2>2, <2>3, <2>4, <2>5 DEF Whereabouts
  <2>7. InPlace'
    BY <2>2, <2>3, <2>4 DEF InPlace
  <2> QED BY <2>6, <2>7
<1>2. ASSUME NEW p \in Proc, Refuse(p) PROVE Whereabouts' /\ InPlace'
  BY <1>2 DEF Refuse, Whereabouts, InPlace, LockTypeOK
<1>3. ASSUME NEW p \in Proc, Record(p) PROVE Whereabouts' /\ InPlace'
  <2>1. lock' # Free /\ lock'.ino = lock.ino /\ aside' = aside /\ mine' = mine /\ lock # Free
    BY <1>3 DEF Record, LockTypeOK
  <2>2. \A q \in Proc : at'[q] \in Live => at[q] \in Live
    BY <1>3 DEF Record, LockTypeOK
  <2> QED BY <2>1, <2>2 DEF Whereabouts, InPlace
<1>4. ASSUME NEW p \in Proc, RecordFails(p) \/ Finish(p) \/ Die(p)
      PROVE Whereabouts' /\ InPlace'
  <2>1. \A q \in Proc : at'[q] \in Live => at[q] \in Live
    BY <1>4 DEF RecordFails, Finish, Die, LockTypeOK
  <2>2. UNCHANGED <<lock, aside, mine>>
    BY <1>4 DEF RecordFails, Finish, Die
  <2> QED BY <2>1, <2>2 DEF Whereabouts, InPlace
<1>5. ASSUME NEW p \in Proc, Leave(p) PROVE Whereabouts' /\ InPlace'
  <2>1. at[p] \in Live /\ at'[p] = "gone" /\ \A q \in Proc : q # p => at'[q] = at[q]
    BY <1>5 DEF Leave, LockTypeOK
  <2>2. UNCHANGED <<aside, mine>>
    BY <1>5 DEF Leave
  <2>3. CASE Removes(p)
    <3>1. lock' = Free /\ lock # Free /\ lock.ino = mine[p]
      BY <2>3, <1>5 DEF Leave, Removes
    <3>2. \A q \in Proc : q # p /\ at[q] \in Live => mine[q] # lock.ino
      BY <2>1, <3>1 DEF Whereabouts
    <3> QED BY <2>1, <2>2, <3>1, <3>2 DEF Whereabouts, InPlace
  <2>4. CASE ~Removes(p)
    <3>1. lock' = lock
      BY <2>4, <1>5 DEF Leave
    <3> QED BY <2>1, <2>2, <3>1 DEF Whereabouts, InPlace
  <2> QED BY <2>3, <2>4
<1>6. ASSUME SetAside PROVE Whereabouts' /\ InPlace'
  <2>1. /\ lock # Free /\ lock' = Free /\ aside' = aside \cup {lock.ino}
        /\ UNCHANGED <<at, mine>> /\ (Careful => \A p \in Proc : at[p] \notin Live)
    BY <1>6 DEF SetAside
  <2>2. Whereabouts'
    BY <2>1 DEF Whereabouts
  <2>3. InPlace'
    BY <2>1 DEF InPlace
  <2> QED BY <2>2, <2>3
<1>7. ASSUME UNCHANGED lockVars PROVE Whereabouts' /\ InPlace'
  BY <1>7 DEF lockVars, Whereabouts, InPlace
<1> QED
  BY <1>t, <1>1, <1>2, <1>3, <1>4, <1>5, <1>6, <1>7 DEF LockNext

\* The lock's state invariant, of which mutual exclusion is a consequence.
THEOREM LockInvariant == LockSpec => []LockInv
  BY LockInitInv, LockStep, PTL DEF LockSpec

(* Two installers never work at the same time when the operator renames only *)
(* locks of dead installers (lifecycle.mjs:88-93).                           *)
THEOREM LockExcludes == LockSpec => []MutualExclusion
<1>1. LockInv => MutualExclusion
  BY DEF LockInv, Whereabouts, InPlace, MutualExclusion
<1> QED BY LockInvariant, <1>1, PTL

(* A process that leaves never removes the directory of another, whatever    *)
(* the operator did (lifecycle.mjs:103-108).                                 *)
THEOREM LockLeavesOthers == LockSpec => OnlyItsOwn
<1>1. LockInv /\ [LockNext]_lockVars =>
      [\A p, q \in Proc : Leave(p) /\ p # q /\ Holds(q) => lock' = lock]_lockVars
  <2> SUFFICES ASSUME LockInv, NEW p \in Proc, NEW q \in Proc, Leave(p), p # q, Holds(q)
               PROVE lock' = lock
    OBVIOUS
  <2>1. at[p] \in Live /\ at[q] \in Live /\ lock.ino = mine[q]
    BY DEF Leave, Holds
  <2>2. ~Removes(p)
    BY <2>1 DEF Removes, LockInv, Whereabouts
  <2> QED BY <2>2 DEF Leave
<1> QED BY LockInvariant, <1>1, PTL DEF LockSpec, OnlyItsOwn

-----------------------------------------------------------------------------
(* The commands take the lock by its steps. *)

\* The steps that take and leave the lock.
LockSteps(p) == AskSetup(p) \/ AskUninstall(p) \/ AskRollback(p) \/ Enter(p) \/ GiveUp(p)
                \/ End(p) \/ Kill(p)

LEMMA AskStep == ASSUME NEW p \in Proc, LockSteps(p) PROVE LockNext \/ UNCHANGED lockVars
<1>1. CASE AskSetup(p)
  BY <1>1 DEF AskSetup, Ask, LockNext
<1>2. CASE AskUninstall(p)
  BY <1>2 DEF AskUninstall, Ask, LockNext
<1>3. CASE AskRollback(p)
  BY <1>3 DEF AskRollback, LockNext
<1>4. CASE Enter(p)
  BY <1>4 DEF Enter, LockNext
<1>5. CASE GiveUp(p)
  BY <1>5 DEF GiveUp, LockNext
<1>6. CASE End(p)
  BY <1>6 DEF End, LockNext
<1>7. CASE Kill(p)
  BY <1>7 DEF Kill, LockNext
<1> QED
  BY <1>1, <1>2, <1>3, <1>4, <1>5, <1>6, <1>7 DEF LockSteps

LEMMA CommandStep == ASSUME NEW p \in Proc, Step(p) PROVE LockNext \/ UNCHANGED lockVars
<1>1. CASE LockSteps(p)
  BY <1>1, AskStep
<1>2. CASE ReadRollback(p) \/ Preflight(p) \/ stabilize(p) \/ OwnRelease(p) \/ buildIntegration(p)
           \/ OwnProjection(p) \/ switchCurrent(p) \/ Bins(p)
  BY <1>2 DEF ReadRollback, Preflight, stabilize, OwnRelease, buildIntegration,
              OwnProjection, switchCurrent, Bins
<1>3. CASE \E c \in Client : \/ ClientInstall(p, c) \/ ClientInstallFails(p, c)
                             \/ Restore(p, c) \/ RestoreFails(p, c)
                             \/ ClientUninstall(p, c) \/ DetachFails(p, c)
  BY <1>3 DEF ClientInstall, ClientInstallFails, Restore, RestoreFails, ClientUninstall,
              DetachFails
<1>4. CASE installService(p) \/ unloadService(p) \/ UnloadFails(p) \/ writeService(p)
           \/ loadService(p) \/ Answered(p) \/ StopAgain(p) \/ RestoreUnit(p) \/ Reload(p)
           \/ CatchFails(p)
  BY <1>4 DEF installService, unloadService, UnloadFails, writeService, loadService, Answered,
              StopAgain, RestoreUnit, Reload, CatchFails
<1>5. CASE Commit(p) \/ Undo(p) \/ restoreService(p) \/ RestoreServiceFails(p)
           \/ removeIntegration(p) \/ WriteLedger(p) \/ BeginUninstall(p) \/ uninstallService(p)
  BY <1>5 DEF Commit, Undo, restoreService, RestoreServiceFails, removeIntegration, WriteLedger,
              BeginUninstall, uninstallService
<1>6. CASE DropUnit(p) \/ DropUnitFails(p) \/ DetachRest(p) \/ RecordDetached(p) \/ Purge(p)
           \/ Erase(p) \/ Fails(p)
  BY <1>6 DEF DropUnit, DropUnitFails, DetachRest, RecordDetached, Purge, Erase, Fails
<1> QED
  BY <1>1, <1>2, <1>3, <1>4, <1>5, <1>6 DEF Step, LockSteps

LEMMA SetupStep == [Next]_vars => [LockNext]_lockVars
<1>1. ASSUME NEW p \in Proc, Step(p) PROVE [LockNext]_lockVars
  BY <1>1, CommandStep
<1>2. CASE Rename
  BY <1>2 DEF Rename, LockNext
<1>3. CASE Edit \/ DaemonDies \/ Autostart
  BY <1>3 DEF Edit, DaemonDies, Autostart
<1>4. CASE UNCHANGED vars
  BY <1>4 DEF vars
<1> QED
  BY <1>1, <1>2, <1>3, <1>4 DEF Next

(* The installer uses the lock as the lock requires: no command takes, owns  *)
(* or removes it otherwise (setup.mjs:436, 605; lifecycle.mjs:83-110).       *)
THEOREM SetupUsesLock == Spec => LockSpec
<1>1. Init => LockInit
  BY DEF Init
<1> QED
  BY <1>1, SetupStep, PTL DEF Spec, LockSpec

(* Two commands never change the installation at the same time, whatever     *)
(* fails or is killed, as long as the operator renames dead locks only.      *)
THEOREM SetupExcludes == Spec => []MutualExclusion
  BY SetupUsesLock, LockExcludes, PTL

HIDE DEF Live
-----------------------------------------------------------------------------
(* What a command in each of its steps knows of the installation.  A       *)
(* command works alone, so one invariant speaks of it and of the machine:  *)
(* Now is the command that holds the lock, or none.                        *)

Early    == {"stage", "own", "project", "ownproject", "switch"}
Forward  == {"claude", "codex", "bins", "service", "unload", "unit", "load", "answer", "commit"}
Catching == {"svc_stop", "svc_restore", "svc_reload"}
Undoing  == {"undo", "undo_service", "undo_claude", "undo_codex", "unproject"}
Removing == {"detach_claude", "detach_codex", "detach_service", "drop_unit", "detach_rest",
             "record", "purge", "erase"}
Ends     == {"done", "failed"}
Pcs      == {"none", "locked", "save"} \cup Early \cup Forward \cup Catching \cup Undoing
            \cup Removing \cup Ends
Thens    == {"none", "detach_codex", "detach_service", "detach_rest", "record", "purge", "done"}

Ledgers == [releases : SUBSET Release, current : Release \cup {None},
            previous : Release \cup {None}, links : BOOLEAN,
            clients : [Client -> {None} \cup Records], service : {None} \cup Services,
            projections : SUBSET Release]
Executables == {"none", "ours", "user"}
Views == {<<>>} \cup ([Client -> Registration] \X Executables \X Units \X Units \X ({None} \cup Daemons))
Commands ==
    [op : {"none", "setup", "rollback", "uninstall"}, pc : Pcs, dest : Release \cup {None},
     clients : SUBSET Client, service : BOOLEAN, purge : BOOLEAN, saved : Ledgers, then : Thens,
     from : Release \cup {None}, snap : [Client -> Registration], bin : Executables,
     made : BOOLEAN, changed : SUBSET Client, before : [unit : Units, active : BOOLEAN],
     record : {None} \cup Services, newService : BOOLEAN, failed : BOOLEAN, hurt : BOOLEAN,
     was : Views]

MachineTypes ==
    /\ current \in Release \cup {None} /\ staged \subseteq Release /\ projections \subseteq Release
    /\ bin \in Executables /\ reg \in [Client -> Registration]
    /\ unit \in Units /\ job \in Units /\ daemon \in {None} \cup Daemons
    /\ ledger \in Ledgers /\ had \in BOOLEAN
    /\ troubled \subseteq {"kill", "recovery", "stale", "halfstop"}

\* Which steps a command has, and what it has noted in them.
Course(m) ==
    /\ m.op \in {"none", "setup", "rollback", "uninstall"} /\ m.then \in Thens
    /\ m.op = "none" => m = Idle /\ m.pc = "none"
    /\ m.op = "setup" => m.pc \in {"locked"} \cup Early \cup Forward \cup Catching \cup
                                  (Undoing \ {"unproject"}) \cup Ends
    /\ m.op = "rollback" => m.pc \in {"none", "locked", "project", "switch"} \cup
                    (Forward \ {"bins"}) \cup Catching \cup (Undoing \ {"undo_service"}) \cup Ends
    /\ m.op = "uninstall" => m.pc \in {"locked", "save"} \cup Removing \cup Ends
    /\ m.op \in {"setup", "rollback"} => m.dest \in Release
    /\ m.op = "rollback" => m.dest = m.saved.previous
    /\ m.pc \in {"none", "locked", "stage", "own", "project"} => ~m.made
    /\ m.pc \in {"none", "locked"} => ~m.failed
    /\ m.pc \in {"project", "ownproject"} => m.clients # {}
    /\ m.changed \subseteq m.clients
    /\ m.pc \in {"none", "locked", "claude"} \cup Early => m.changed = {}
    /\ m.pc = "codex" => "codex" \notin m.changed
    /\ m.pc = "save" => m.then # "none"
    /\ m.pc \in {"purge", "erase"} \/ (m.pc = "save" /\ m.then = "purge") => m.purge
    /\ m.pc \in {"none", "locked", "claude", "codex", "bins", "service"} \cup Early => m.record = None
    /\ m.pc \in {"unload", "unit", "load", "answer"} => m.record # None
    /\ m.pc \in {"service", "unload", "unit", "load", "answer"} =>
          m.saved.service # None \/ (m.op = "setup" /\ m.service)
    /\ m.newService => m.record # None /\ m.pc \in {"commit"} \cup Undoing \cup Ends
    /\ m.pc = "undo_service" => m.newService
    /\ m.pc = "drop_unit" => m.saved.service # None

Placed(p) ==
    /\ Course(me[p])
    /\ at[p] \in {"gone", "dead"} => me[p] = Idle
    /\ at[p] = "new" => me[p].op \in {"none", "rollback"} /\ me[p].pc = "none"
    /\ at[p] = "made" => me[p].op # "none" /\ me[p].pc = "locked"
    /\ at[p] = "in" => me[p].op # "none" /\ me[p].pc # "none"
    /\ at[p] = "leave" => me[p] = Idle \/ (me[p].op # "none" /\ me[p].pc \in Ends)

CommandTypes == me \in [Proc -> Commands] /\ \A p \in Proc : Placed(p)

-----------------------------------------------------------------------------
(* What a step leaves of a command's notes. *)

Core(m, n) == /\ n.op = m.op /\ n.dest = m.dest /\ n.clients = m.clients
              /\ n.service = m.service /\ n.purge = m.purge /\ n.from = m.from
              /\ n.snap = m.snap /\ n.bin = m.bin /\ n.was = m.was
Tried(m, n) == n.made = m.made /\ n.changed = m.changed /\ n.failed = m.failed
Served(m, n) == n.before = m.before /\ n.record = m.record /\ n.newService = m.newService
Rest(m, n) == n.saved = m.saved /\ n.then = m.then /\ n.hurt = m.hurt
Moved(m, n, s) == Core(m, n) /\ Tried(m, n) /\ Served(m, n) /\ Rest(m, n) /\ n.pc = s

\* Commands whose notes are changed.
Paced(m, s) ==
    [m EXCEPT !.pc = s]
LEMMA NotePc ==
    ASSUME NEW m \in Commands, NEW s \in Pcs
    PROVE  LET n == Paced(m, s) IN
           n \in Commands /\ Moved(m, n, s)
  BY DEF Paced, Commands, Moved, Core, Tried, Served, Rest

Filed(m, l, s) ==
    [m EXCEPT !.saved = l, !.pc = s]
LEMMA NoteSaved ==
    ASSUME NEW m \in Commands, NEW s \in Pcs, NEW l \in Ledgers
    PROVE  LET n == Filed(m, l, s) IN
           /\ n \in Commands /\ Core(m, n) /\ Tried(m, n) /\ Served(m, n)
           /\ n.saved = l /\ n.pc = s /\ n.then = m.then /\ n.hurt = m.hurt
  BY DEF Filed, Commands, Core, Tried, Served

Saving(m, l, t) ==
    [m EXCEPT !.saved = l, !.pc = "save", !.then = t]
LEMMA NoteThen ==
    ASSUME NEW m \in Commands, NEW t \in Thens, NEW l \in Ledgers
    PROVE  LET n == Saving(m, l, t) IN
           /\ n \in Commands /\ Core(m, n) /\ Tried(m, n) /\ Served(m, n)
           /\ n.saved = l /\ n.pc = "save" /\ n.then = t /\ n.hurt = m.hurt
  BY DEF Saving, Commands, Core, Tried, Served, Pcs

Making(m, b, s) ==
    [m EXCEPT !.made = b, !.pc = s]
LEMMA NoteMade ==
    ASSUME NEW m \in Commands, NEW s \in Pcs, NEW b \in BOOLEAN
    PROVE  LET n == Making(m, b, s) IN
           /\ n \in Commands /\ Core(m, n) /\ Served(m, n) /\ Rest(m, n)
           /\ n.made = b /\ n.changed = m.changed /\ n.failed = m.failed /\ n.pc = s
  BY DEF Making, Commands, Core, Served, Rest

Changing(m, cs, s) ==
    [m EXCEPT !.changed = cs, !.pc = s]
LEMMA NoteChanged ==
    ASSUME NEW m \in Commands, NEW s \in Pcs, NEW cs \in SUBSET Client
    PROVE  LET n == Changing(m, cs, s) IN
           /\ n \in Commands /\ Core(m, n) /\ Served(m, n) /\ Rest(m, n)
           /\ n.made = m.made /\ n.changed = cs /\ n.failed = m.failed /\ n.pc = s
  BY DEF Changing, Commands, Core, Served, Rest

Failing(m, b, s) ==
    [m EXCEPT !.failed = b, !.pc = s]
LEMMA NoteFailed ==
    ASSUME NEW m \in Commands, NEW s \in Pcs, NEW b \in BOOLEAN
    PROVE  LET n == Failing(m, b, s) IN
           /\ n \in Commands /\ Core(m, n) /\ Served(m, n) /\ Rest(m, n)
           /\ n.made = m.made /\ n.changed = m.changed /\ n.failed = b /\ n.pc = s
  BY DEF Failing, Commands, Core, Served, Rest

Recording(m, r, s) ==
    [m EXCEPT !.pc = s, !.record = r]
LEMMA NoteRecord ==
    ASSUME NEW m \in Commands, NEW s \in Pcs, NEW r \in {None} \cup Services
    PROVE  LET n == Recording(m, r, s) IN
           /\ n \in Commands /\ Core(m, n) /\ Tried(m, n) /\ Rest(m, n)
           /\ n.before = m.before /\ n.newService = m.newService /\ n.record = r /\ n.pc = s
  BY DEF Recording, Commands, Core, Tried, Rest

Dropped(m, r, h, s) ==
    [m EXCEPT !.pc = s, !.record = r, !.hurt = h]
LEMMA NoteDropped ==
    ASSUME NEW m \in Commands, NEW s \in Pcs, NEW r \in {None} \cup Services, NEW h \in BOOLEAN
    PROVE  LET n == Dropped(m, r, h, s) IN
           /\ n \in Commands /\ Core(m, n) /\ Tried(m, n)
           /\ n.before = m.before /\ n.newService = m.newService /\ n.record = r
           /\ n.saved = m.saved /\ n.then = m.then /\ n.hurt = h /\ n.pc = s
  BY DEF Dropped, Commands, Core, Tried

Serving(m, b, r, s) ==
    [m EXCEPT !.pc = s, !.before = b, !.record = r]
LEMMA NoteBefore ==
    ASSUME NEW m \in Commands, NEW s \in Pcs, NEW r \in {None} \cup Services,
           NEW b \in [unit : Units, active : BOOLEAN]
    PROVE  LET n == Serving(m, b, r, s) IN
           /\ n \in Commands /\ Core(m, n) /\ Tried(m, n) /\ Rest(m, n)
           /\ n.before = b /\ n.newService = m.newService /\ n.record = r /\ n.pc = s
  BY DEF Serving, Commands, Core, Tried, Rest

Stopping(m, b, s) ==
    [m EXCEPT !.before = b, !.pc = s]
LEMMA NoteStopped ==
    ASSUME NEW m \in Commands, NEW s \in Pcs, NEW b \in [unit : Units, active : BOOLEAN]
    PROVE  LET n == Stopping(m, b, s) IN
           /\ n \in Commands /\ Core(m, n) /\ Tried(m, n) /\ Rest(m, n)
           /\ n.before = b /\ n.newService = m.newService /\ n.record = m.record /\ n.pc = s
  BY DEF Stopping, Commands, Core, Tried, Rest

Renewed(m, b, s) ==
    [m EXCEPT !.newService = b, !.pc = s]
LEMMA NoteNew ==
    ASSUME NEW m \in Commands, NEW s \in Pcs, NEW b \in BOOLEAN
    PROVE  LET n == Renewed(m, b, s) IN
           /\ n \in Commands /\ Core(m, n) /\ Tried(m, n) /\ Rest(m, n)
           /\ n.before = m.before /\ n.newService = b /\ n.record = m.record /\ n.pc = s
  BY DEF Renewed, Commands, Core, Tried, Rest

GivenUp(m, h, s) ==
    [m EXCEPT !.pc = s, !.hurt = h]
LEMMA NoteGivenUp ==
    ASSUME NEW m \in Commands, NEW s \in Pcs, NEW h \in BOOLEAN
    PROVE  LET n == GivenUp(m, h, s) IN
           /\ n \in Commands /\ Core(m, n) /\ Tried(m, n) /\ Served(m, n)
           /\ n.saved = m.saved /\ n.then = m.then /\ n.hurt = h /\ n.pc = s
  BY DEF GivenUp, Commands, Core, Tried, Served

Hurting(m, h) ==
    [m EXCEPT !.hurt = h]
LEMMA NoteHurt ==
    ASSUME NEW m \in Commands, NEW h \in BOOLEAN
    PROVE  LET n == Hurting(m, h) IN
           /\ n \in Commands /\ Core(m, n) /\ Tried(m, n) /\ Served(m, n)
           /\ n.saved = m.saved /\ n.then = m.then /\ n.hurt = h /\ n.pc = m.pc
  BY DEF Hurting, Commands, Core, Tried, Served

Viewing(m, l, cs, ptr, snap, b, w, s) ==
    [m EXCEPT !.saved = l, !.clients = cs, !.from = ptr, !.snap = snap, !.bin = b, !.was = w, !.pc = s]
LEMMA NoteView ==
    ASSUME NEW m \in Commands, NEW s \in Pcs, NEW l \in Ledgers, NEW cs \in SUBSET Client,
           NEW ptr \in Release \cup {None}, NEW snap \in [Client -> Registration],
           NEW b \in Executables, NEW w \in Views
    PROVE  LET n == Viewing(m, l, cs, ptr, snap, b, w, s) IN
           /\ n \in Commands /\ Tried(m, n) /\ Served(m, n)
           /\ n.op = m.op /\ n.dest = m.dest /\ n.service = m.service /\ n.purge = m.purge
           /\ n.then = m.then /\ n.hurt = m.hurt
           /\ n.saved = l /\ n.clients = cs /\ n.from = ptr /\ n.snap = snap /\ n.bin = b
           /\ n.was = w /\ n.pc = s
  BY DEF Viewing, Commands, Tried, Served

LEMMA IdleTypes == Idle \in Commands /\ NoLedger \in Ledgers /\ Absent \in Registration
<1>1. NoLedger \in Ledgers
  BY DEF NoLedger, Ledgers
<1>2. Absent \in Registration
  BY DEF Absent, Registration, Tables
<1>3. [c \in Client |-> Absent] \in [Client -> Registration]
  BY <1>2
<1> QED
  BY <1>1, <1>2, <1>3 DEF Idle, Commands, Pcs, Thens, Executables, Units, Views

LEMMA IdleCourse == Course(Idle)
  BY DEF Course, Idle, Thens, Early, Forward, Catching, Undoing, Removing, Ends

Asked(op, dest, cs, svc, purge) ==
    [Idle EXCEPT !.op = op, !.dest = dest, !.clients = cs, !.service = svc, !.purge = purge, !.pc = "locked"]
LEMMA AskedTypes ==
    ASSUME NEW op \in {"setup", "uninstall"}, NEW dest \in Release \cup {None},
           NEW cs \in SUBSET Client, NEW svc \in BOOLEAN, NEW purge \in BOOLEAN,
           op = "setup" => dest \in Release
    PROVE  LET n == Asked(op, dest, cs, svc, purge) IN
           n \in Commands /\ Course(n) /\ n.op = op /\ n.pc = "locked"
<1> DEFINE n == Asked(op, dest, cs, svc, purge)
<1>1. /\ n.op = op /\ n.dest = dest /\ n.pc = "locked" /\ n.changed = {} /\ ~n.newService
      /\ ~n.failed /\ ~n.made /\ n.record = None /\ n.then = "none"
  BY DEF Idle, Asked
<1>2. n \in Commands
  <2>1. CASE op = "setup"
    <3>1. Asked("setup", dest, cs, svc, purge) \in Commands
      BY IdleTypes DEF Commands, Pcs, Asked
    <3> QED BY <2>1, <3>1
  <2>2. CASE op = "uninstall"
    <3>1. Asked("uninstall", dest, cs, svc, purge) \in Commands
      BY IdleTypes, ZenonT(60) DEF Commands, Pcs, Asked
    <3> QED BY <2>2, <3>1
  <2> QED BY <2>1, <2>2
<1> HIDE DEF n
<1>3. Course(n)
  BY <1>1 DEF Course, Thens, Early, Forward, Catching, Undoing, Removing, Ends
<1> QED
  BY <1>1, <1>2, <1>3 DEF n

Reading(dest, l) ==
    [Idle EXCEPT !.op = "rollback", !.dest = dest, !.saved = l]
LEMMA ReadTypes ==
    ASSUME NEW dest \in Release, NEW l \in Ledgers, dest = l.previous
    PROVE  LET n == Reading(dest, l) IN
           n \in Commands /\ Course(n) /\ n.op = "rollback" /\ n.pc = "none"
<1> DEFINE n == Reading(dest, l)
<1>1. /\ n.op = "rollback" /\ n.dest = dest /\ n.pc = "none" /\ n.changed = {} /\ ~n.newService
      /\ ~n.failed /\ ~n.made /\ n.record = None /\ n.then = "none" /\ n.saved = l
  BY DEF Idle, Reading
<1>2. n \in Commands
  BY IdleTypes DEF Reading, Commands
<1> HIDE DEF n
<1>3. Course(n)
  BY <1>1 DEF Course, Thens, Early, Forward, Catching, Undoing, Removing, Ends
<1> QED
  BY <1>1, <1>2, <1>3 DEF n

-----------------------------------------------------------------------------
(* What each step notes. *)

\* A step of p changes the notes of p only.
Own(p) == me' \in [Proc -> Commands] /\ \A q \in Proc \ {p} : me'[q] = me[q]

LEMMA Writes ==
    ASSUME me \in [Proc -> Commands], NEW p \in Proc, NEW n \in Commands,
           me' = [me EXCEPT ![p] = n]
    PROVE  Own(p) /\ me'[p] = n
  BY DEF Own

LEMMA GoToNotes ==
    ASSUME me \in [Proc -> Commands], NEW p \in Proc, NEW s \in Pcs, GoTo(p, s)
    PROVE  Own(p) /\ Moved(me[p], me'[p], s)
<1>1. me' = [me EXCEPT ![p] = Paced(me[p], s)]
  BY DEF GoTo, Paced
<1> QED
  BY <1>1, NotePc, Writes

LEMMA SaveNotes ==
    ASSUME me \in [Proc -> Commands], NEW p \in Proc, NEW l \in Ledgers, NEW t \in Thens,
           Save(p, l, t)
    PROVE  /\ Own(p) /\ Core(me[p], me'[p]) /\ Tried(me[p], me'[p]) /\ Served(me[p], me'[p])
           /\ me'[p].saved = l /\ me'[p].pc = "save" /\ me'[p].then = t
           /\ me'[p].hurt = me[p].hurt
<1>1. me' = [me EXCEPT ![p] = Saving(me[p], l, t)]
  BY DEF Save, Saving
<1>2. Saving(me[p], l, t) \in Commands
  BY NoteThen
<1>3. Own(p) /\ me'[p] = Saving(me[p], l, t)
  BY <1>1, <1>2, Writes
<1> QED
  BY <1>3, NoteThen

LEMMA PreflightNotes ==
    ASSUME me \in [Proc -> Commands], MachineTypes, NEW p \in Proc, Preflight(p)
    PROVE  LET m == me[p]
               n == me'[p]
           IN  /\ Own(p) /\ Tried(m, n) /\ Served(m, n)
               /\ n.op = m.op /\ n.dest = m.dest /\ n.service = m.service /\ n.purge = m.purge
               /\ n.then = m.then /\ n.hurt = m.hurt
               /\ n.saved = IF m.op = "setup" THEN ledger ELSE m.saved
               /\ n.clients = IF m.op = "setup" THEN m.clients
                              ELSE {c \in Client : n.saved.clients[c] # None}
               /\ n.from = current /\ n.snap = reg /\ n.bin = bin
               /\ n.was = <<reg, bin, unit, job, daemon>>
               /\ n.pc = IF ~ClientsOwned(n.saved, n.clients) THEN "failed"
                         ELSE IF m.op = "setup" THEN "stage"
                         ELSE IF n.clients = {} THEN "switch" ELSE "project"
<1> DEFINE m == me[p]
           l == IF m.op = "setup" THEN ledger ELSE m.saved
           cs == IF m.op = "setup" THEN m.clients ELSE {c \in Client : l.clients[c] # None}
           w == <<reg, bin, unit, job, daemon>>
           s == IF ~ClientsOwned(l, cs) THEN "failed" ELSE IF m.op = "setup" THEN "stage"
                ELSE IF cs = {} THEN "switch" ELSE "project"
<1>1. reg = [c \in Client |-> IF c = "claude" THEN snapshotClaude ELSE snapshotCodex]
  BY DEF MachineTypes, snapshotClaude, snapshotCodex, Client
<1>2. me' = [me EXCEPT ![p] = Viewing(m, l, cs, current, reg, bin, w, s)]
  BY <1>1 DEF Preflight, Viewing
<1>3. l \in Ledgers
  BY DEF MachineTypes, Commands
<1>4. cs \in SUBSET Client
  BY DEF Commands
<1>5. w \in Views /\ s \in Pcs /\ current \in Release \cup {None} /\ bin \in Executables
      /\ reg \in [Client -> Registration]
  BY DEF MachineTypes, Views, Pcs, Early, Ends
<1> HIDE DEF l, cs, w, s
<1>7. Own(p) /\ me'[p] = Viewing(m, l, cs, current, reg, bin, w, s)
  BY <1>2, <1>3, <1>4, <1>5, NoteView, Writes
<1>8. LET n == me'[p]
      IN  /\ Tried(m, n) /\ Served(m, n)
          /\ n.op = m.op /\ n.dest = m.dest /\ n.service = m.service /\ n.purge = m.purge
          /\ n.then = m.then /\ n.hurt = m.hurt
          /\ n.saved = l /\ n.clients = cs /\ n.from = current /\ n.snap = reg /\ n.bin = bin
          /\ n.was = w /\ n.pc = s
  BY <1>7, <1>3, <1>4, <1>5, NoteView
<1> QED
  BY <1>7, <1>8 DEF l, cs, w, s

-----------------------------------------------------------------------------
(* Ledgers that are changed. *)

Releasing(l, r) == [l EXCEPT !.releases = @ \cup {r}]
AddsRelease(l, n, r) ==
    /\ n \in Ledgers /\ n.releases = l.releases \cup {r} /\ n.current = l.current
    /\ n.previous = l.previous /\ n.links = l.links /\ n.clients = l.clients
    /\ n.service = l.service /\ n.projections = l.projections
LEMMA LedgerRelease ==
    ASSUME NEW l \in Ledgers, NEW r \in Release
    PROVE  LET n == Releasing(l, r)
           IN  AddsRelease(l, n, r)
  BY DEF Releasing, Ledgers, AddsRelease

Projecting(l, r) == [l EXCEPT !.projections = @ \cup {r}]
AddsProjection(l, n, r) ==
    /\ n \in Ledgers /\ n.releases = l.releases /\ n.current = l.current
    /\ n.previous = l.previous /\ n.links = l.links /\ n.clients = l.clients
    /\ n.service = l.service /\ n.projections = l.projections \cup {r}
LEMMA LedgerProjection ==
    ASSUME NEW l \in Ledgers, NEW r \in Release
    PROVE  LET n == Projecting(l, r)
           IN  AddsProjection(l, n, r)
  BY DEF Projecting, Ledgers, AddsProjection

Without(l, c) == [l EXCEPT !.clients[c] = None]
DropsClient(l, n, c) ==
    /\ n \in Ledgers /\ n.releases = l.releases /\ n.current = l.current
    /\ n.previous = l.previous /\ n.links = l.links /\ n.service = l.service
    /\ n.projections = l.projections
    /\ n.clients[c] = None /\ \A d \in Client \ {c} : n.clients[d] = l.clients[d]
LEMMA LedgerWithout ==
    ASSUME NEW l \in Ledgers, NEW c \in Client
    PROVE  LET n == Without(l, c)
           IN  DropsClient(l, n, c)
  BY DEF Without, Ledgers, DropsClient

Unserviced(l) == [l EXCEPT !.service = None]
DropsService(l, n) ==
    /\ n \in Ledgers /\ n.releases = l.releases /\ n.current = l.current
    /\ n.previous = l.previous /\ n.links = l.links /\ n.clients = l.clients
    /\ n.service = None /\ n.projections = l.projections
LEMMA LedgerUnserviced ==
    ASSUME NEW l \in Ledgers
    PROVE  LET n == Unserviced(l)
           IN  DropsService(l, n)
  BY DEF Unserviced, Ledgers, DropsService

Unlinked(l, gone) == [l EXCEPT !.links = FALSE, !.projections = @ \ gone]
DropsLinks(l, n, gone) ==
    /\ n \in Ledgers /\ n.releases = l.releases /\ n.current = l.current
    /\ n.previous = l.previous /\ ~n.links /\ n.clients = l.clients
    /\ n.service = l.service /\ n.projections = l.projections \ gone
LEMMA LedgerUnlinked ==
    ASSUME NEW l \in Ledgers, NEW gone
    PROVE  LET n == Unlinked(l, gone)
           IN  DropsLinks(l, n, gone)
  BY DEF Unlinked, Ledgers, DropsLinks

Emptied(l) == [l EXCEPT !.current = None, !.previous = None, !.releases = {}]
Empties(l, n) ==
    /\ n \in Ledgers /\ n.current = None /\ n.previous = None /\ n.links = l.links
    /\ n.clients = l.clients /\ n.service = l.service /\ n.projections = l.projections
LEMMA LedgerEmptied ==
    ASSUME NEW l \in Ledgers
    PROVE  LET n == Emptied(l)
           IN  Empties(l, n)
  BY DEF Emptied, Ledgers, Empties

LEMMA RegisteredType ==
    ASSUME NEW m \in Commands, NEW c \in Client, m.dest \in Release
    PROVE  /\ Registered(c, m) \in Records
           /\ Registered(c, m).root = m.dest
           /\ Registered(c, m).original = IF m.saved.clients[c] # None
                                          THEN m.saved.clients[c].original ELSE m.snap[c]
<1>1. m.saved \in Ledgers /\ m.snap[c] \in Registration
  BY DEF Commands
<1>2. m.saved.clients[c] \in {None} \cup Records
  BY <1>1 DEF Ledgers
<1>3. Wanted(c, m.snap[c]) \in Tables
  BY <1>1 DEF Wanted, Registration, Tables
<1> QED
  BY <1>1, <1>2, <1>3 DEF Registered, Records

Commits(m, n) ==
    /\ n \in Ledgers /\ n.releases = m.saved.releases /\ n.current = m.dest
    /\ n.previous = IF m.op = "rollback" \/ (m.from # None /\ m.from # m.dest)
                    THEN m.from ELSE m.saved.previous
    /\ n.links = (m.saved.links \/ m.op = "setup")
    /\ \A c \in Client : n.clients[c] = IF c \in m.clients THEN Registered(c, m)
                                        ELSE m.saved.clients[c]
    /\ n.service = IF m.record # None THEN m.record ELSE m.saved.service
    /\ n.projections = IF m.clients = {} THEN m.saved.projections
                       ELSE m.saved.projections \cup {m.dest}
LEMMA LedgerCommitted ==
    ASSUME NEW m \in Commands, m.dest \in Release
    PROVE  Commits(m, Committed(m))
<1> DEFINE l == m.saved
           cl == [c \in Client |-> IF c \in m.clients THEN Registered(c, m) ELSE l.clients[c]]
<1>1. l \in Ledgers /\ m.record \in {None} \cup Services /\ m.from \in Release \cup {None}
  BY DEF Commands
<1>2. cl \in [Client -> {None} \cup Records]
  BY <1>1, RegisteredType DEF Ledgers
<1> QED
  BY <1>1, <1>2, ZenonT(60) DEF Committed, Ledgers, Commits

\* The projections an uninstall removes.
Unreferenced(l) == IF \A c \in Client : l.clients[c] = None
                   THEN {r \in l.projections : \A c \in Client : reg[c].market # r} ELSE {}

-----------------------------------------------------------------------------
(* The notes of the steps that change more than their place. *)

LEMMA OwnReleaseNotes ==
    ASSUME me \in [Proc -> Commands], MachineTypes, NEW p \in Proc, Course(me[p]), OwnRelease(p)
    PROVE  LET m == me[p]
               n == me'[p]
           IN  /\ Own(p) /\ Core(m, n) /\ Tried(m, n) /\ Served(m, n)
               /\ n.then = m.then /\ n.hurt = m.hurt /\ n.saved = Releasing(m.saved, m.dest)
               /\ n.pc = IF m.clients = {} THEN "switch" ELSE "project"
<1>1. me' = [me EXCEPT ![p] = Filed(me[p], Releasing(me[p].saved, me[p].dest),
          IF me[p].clients = {} THEN "switch" ELSE "project")]
  BY DEF OwnRelease, Filed, Releasing
<1>2. /\ Releasing(me[p].saved, me[p].dest) \in Ledgers
      /\ (IF me[p].clients = {} THEN "switch" ELSE "project") \in Pcs
  BY LedgerRelease DEF Course, Commands, OwnRelease, At, Pcs, Early, Removing, Forward, Ends,
     Undoing, Catching
<1>3. Filed(me[p], Releasing(me[p].saved, me[p].dest),
          IF me[p].clients = {} THEN "switch" ELSE "project") \in Commands
  BY <1>2, NoteSaved
<1>4. Own(p) /\ me'[p] = Filed(me[p], Releasing(me[p].saved, me[p].dest),
          IF me[p].clients = {} THEN "switch" ELSE "project")
  BY <1>1, <1>3, Writes
<1> QED
  BY <1>2, <1>4, NoteSaved

LEMMA buildIntegrationNotes ==
    ASSUME me \in [Proc -> Commands], MachineTypes, NEW p \in Proc, Course(me[p]),
           buildIntegration(p)
    PROVE  LET m == me[p]
               n == me'[p]
           IN  /\ Own(p) /\ Core(m, n) /\ Served(m, n) /\ Rest(m, n)
               /\ n.made = (m.dest \notin projections) /\ n.changed = m.changed /\ n.failed = m.failed
               /\ n.pc = IF m.op = "setup" THEN "ownproject" ELSE "switch"
<1> DEFINE b == me[p].dest \notin projections
           s == IF me[p].op = "setup" THEN "ownproject" ELSE "switch"
<1>1. me' = [me EXCEPT ![p] = Making(me[p], b, s)]
  BY DEF buildIntegration, Making
<1>2. b \in BOOLEAN /\ s \in Pcs
  BY DEF Pcs, Early
<1> HIDE DEF b, s
<1>3. Making(me[p], b, s) \in Commands
  BY <1>2, NoteMade
<1>4. Own(p) /\ me'[p] = Making(me[p], b, s)
  BY <1>1, <1>3, Writes
<1>5. LET m == me[p]
          n == me'[p]
      IN  /\ Core(m, n) /\ Served(m, n) /\ Rest(m, n) /\ n.made = b /\ n.changed = m.changed
          /\ n.failed = m.failed /\ n.pc = s
  BY <1>2, <1>4, NoteMade
<1> QED
  BY <1>4, <1>5 DEF b, s

LEMMA OwnProjectionNotes ==
    ASSUME me \in [Proc -> Commands], MachineTypes, NEW p \in Proc, Course(me[p]), OwnProjection(p)
    PROVE  LET m == me[p]
               n == me'[p]
           IN  /\ Own(p) /\ Core(m, n) /\ Tried(m, n) /\ Served(m, n)
               /\ n.then = m.then /\ n.hurt = m.hurt
               /\ n.saved = Projecting(m.saved, m.dest) /\ n.pc = "switch"
<1>1. me' = [me EXCEPT ![p] = Filed(me[p], Projecting(me[p].saved, me[p].dest), "switch")]
  BY DEF OwnProjection, Filed, Projecting
<1>2. Projecting(me[p].saved, me[p].dest) \in Ledgers /\ "switch" \in Pcs
  BY LedgerProjection DEF Course, Commands, OwnProjection, At, Pcs, Early, Removing, Forward, Ends,
     Undoing, Catching
<1>3. Filed(me[p], Projecting(me[p].saved, me[p].dest), "switch") \in Commands
  BY <1>2, NoteSaved
<1>4. Own(p) /\ me'[p] = Filed(me[p], Projecting(me[p].saved, me[p].dest), "switch")
  BY <1>1, <1>3, Writes
<1> QED
  BY <1>2, <1>4, NoteSaved

LEMMA ClientInstallNotes ==
    ASSUME me \in [Proc -> Commands], MachineTypes, NEW p \in Proc, Course(me[p]),
           NEW c \in Client, c \in me[p].clients, ClientInstall(p, c)
    PROVE  LET m == me[p]
               n == me'[p]
           IN  /\ Own(p) /\ Core(m, n) /\ Served(m, n) /\ Rest(m, n)
               /\ n.made = m.made /\ n.changed = m.changed \cup {c} /\ n.failed = m.failed
               /\ n.pc = IF Accepts(c, m.snap[c]) THEN AfterClient(c, m) ELSE "undo"
<1>1. me' = [me EXCEPT ![p] = Changing(me[p], me[p].changed \cup {c},
          IF Accepts(c, me[p].snap[c]) THEN AfterClient(c, me[p]) ELSE "undo")]
  BY DEF ClientInstall, Changing
<1>2. (
          IF Accepts(c, me[p].snap[c]) THEN AfterClient(c, me[p]) ELSE "undo") \in Pcs /\ me[p].changed \cup {c} \in SUBSET Client
  BY DEF Commands, AfterClient, Pcs, Forward, Undoing
<1>3. Changing(me[p], me[p].changed \cup {c},
          IF Accepts(c, me[p].snap[c]) THEN AfterClient(c, me[p]) ELSE "undo") \in Commands
  BY <1>2, NoteChanged
<1>4. Own(p) /\ me'[p] = Changing(me[p], me[p].changed \cup {c},
          IF Accepts(c, me[p].snap[c]) THEN AfterClient(c, me[p]) ELSE "undo")
  BY <1>1, <1>3, Writes
<1> QED
  BY <1>2, <1>4, NoteChanged

LEMMA InstallFailsNotes ==
    ASSUME me \in [Proc -> Commands], MachineTypes, NEW p \in Proc, Course(me[p]),
           NEW c \in Client, ClientInstallFails(p, c)
    PROVE  LET m == me[p]
               n == me'[p]
           IN  /\ Own(p) /\ Core(m, n) /\ Served(m, n) /\ Rest(m, n)
               /\ n.made = m.made /\ n.changed = m.changed \cup {c} /\ n.failed = m.failed /\ n.pc = "undo"
<1>1. me' = [me EXCEPT ![p] = Changing(me[p], me[p].changed \cup {c}, "undo")]
  BY DEF ClientInstallFails, Changing
<1>2. "undo" \in Pcs /\ me[p].changed \cup {c} \in SUBSET Client
  BY DEF Commands, Pcs, Undoing
<1>3. Changing(me[p], me[p].changed \cup {c}, "undo") \in Commands
  BY <1>2, NoteChanged
<1>4. Own(p) /\ me'[p] = Changing(me[p], me[p].changed \cup {c}, "undo")
  BY <1>1, <1>3, Writes
<1> QED
  BY <1>2, <1>4, NoteChanged

LEMMA RestoreNotes ==
    ASSUME me \in [Proc -> Commands], MachineTypes, NEW p \in Proc, Course(me[p]),
           NEW c \in Client, Restore(p, c)
    PROVE  LET m == me[p]
               n == me'[p]
           IN  /\ Own(p) /\ Core(m, n) /\ Served(m, n) /\ Rest(m, n)
               /\ n.made = m.made /\ n.changed = m.changed /\ n.pc = AfterUndo(c, m)
               /\ n.failed = (m.failed \/ (c \in m.changed /\ ~Restorable(c, m.snap[c])))
<1> DEFINE b == me[p].failed \/ (c \in me[p].changed /\ ~Restorable(c, me[p].snap[c]))
           s == AfterUndo(c, me[p])
<1>1. me' = [me EXCEPT ![p] = Failing(me[p], b, s)]
  BY DEF Restore, Failing
<1>2. b \in BOOLEAN /\ s \in Pcs
  BY DEF AfterUndo, Pcs, Undoing, Ends
<1> HIDE DEF b, s
<1>3. Failing(me[p], b, s) \in Commands
  BY <1>2, NoteFailed
<1>4. Own(p) /\ me'[p] = Failing(me[p], b, s)
  BY <1>1, <1>3, Writes
<1>5. LET m == me[p]
          n == me'[p]
      IN  /\ Core(m, n) /\ Served(m, n) /\ Rest(m, n) /\ n.made = m.made /\ n.changed = m.changed
          /\ n.failed = b /\ n.pc = s
  BY <1>2, <1>4, NoteFailed
<1> QED
  BY <1>4, <1>5 DEF b, s

LEMMA RestoreFailsNotes ==
    ASSUME me \in [Proc -> Commands], MachineTypes, NEW p \in Proc, Course(me[p]),
           NEW c \in Client, RestoreFails(p, c)
    PROVE  LET m == me[p]
               n == me'[p]
           IN  /\ Own(p) /\ Core(m, n) /\ Served(m, n) /\ Rest(m, n)
               /\ n.made = m.made /\ n.changed = m.changed /\ n.pc = AfterUndo(c, m) /\ n.failed
<1> DEFINE b == TRUE
           s == AfterUndo(c, me[p])
<1>1. me' = [me EXCEPT ![p] = Failing(me[p], b, s)]
  BY DEF RestoreFails, Failing
<1>2. b \in BOOLEAN /\ s \in Pcs
  BY DEF AfterUndo, Pcs, Undoing, Ends
<1> HIDE DEF b, s
<1>3. Failing(me[p], b, s) \in Commands
  BY <1>2, NoteFailed
<1>4. Own(p) /\ me'[p] = Failing(me[p], b, s)
  BY <1>1, <1>3, Writes
<1>5. LET m == me[p]
          n == me'[p]
      IN  /\ Core(m, n) /\ Served(m, n) /\ Rest(m, n) /\ n.made = m.made /\ n.changed = m.changed
          /\ n.failed = b /\ n.pc = s
  BY <1>2, <1>4, NoteFailed
<1> QED
  BY <1>4, <1>5 DEF b, s

LEMMA UnloadFailsNotes ==
    ASSUME me \in [Proc -> Commands], MachineTypes, NEW p \in Proc, Course(me[p]), UnloadFails(p)
    PROVE  LET m == me[p]
               n == me'[p]
           IN  /\ Own(p) /\ Core(m, n) /\ Tried(m, n) /\ n.before = m.before /\ n.newService = m.newService
               /\ n.record = None /\ n.saved = m.saved /\ n.then = m.then
               /\ n.hurt = (m.hurt \/ job' # job) /\ n.pc = "undo"
<1> DEFINE h == me[p].hurt \/ job' # job
           s == "undo"
<1>1. me' = [me EXCEPT ![p] = Dropped(me[p], None, h, s)]
  BY DEF UnloadFails, Dropped
<1>2. h \in BOOLEAN /\ s \in Pcs /\ None \in {None} \cup Services
  BY DEF Pcs, Undoing
<1> HIDE DEF h, s
<1>3. Dropped(me[p], None, h, s) \in Commands
  BY <1>2, NoteDropped
<1>4. Own(p) /\ me'[p] = Dropped(me[p], None, h, s)
  BY <1>1, <1>3, Writes
<1>5. LET m == me[p]
          n == me'[p]
      IN  /\ Core(m, n) /\ Tried(m, n) /\ n.before = m.before /\ n.newService = m.newService
          /\ n.record = None /\ n.saved = m.saved /\ n.then = m.then /\ n.hurt = h /\ n.pc = s
  BY <1>2, <1>4, NoteDropped
<1> QED
  BY <1>4, <1>5 DEF h, s

LEMMA CatchFailsNotes ==
    ASSUME me \in [Proc -> Commands], MachineTypes, NEW p \in Proc, Course(me[p]), CatchFails(p)
    PROVE  LET m == me[p]
               n == me'[p]
           IN  /\ Own(p) /\ Core(m, n) /\ Tried(m, n) /\ n.before = m.before /\ n.newService = m.newService
               /\ n.record = None /\ n.saved = m.saved /\ n.then = m.then /\ n.hurt /\ n.pc = "undo"
<1> DEFINE h == TRUE
           s == "undo"
<1>1. me' = [me EXCEPT ![p] = Dropped(me[p], None, h, s)]
  BY DEF CatchFails, Dropped
<1>2. h \in BOOLEAN /\ s \in Pcs /\ None \in {None} \cup Services
  BY DEF Pcs, Undoing
<1> HIDE DEF h, s
<1>3. Dropped(me[p], None, h, s) \in Commands
  BY <1>2, NoteDropped
<1>4. Own(p) /\ me'[p] = Dropped(me[p], None, h, s)
  BY <1>1, <1>3, Writes
<1>5. LET m == me[p]
          n == me'[p]
      IN  /\ Core(m, n) /\ Tried(m, n) /\ n.before = m.before /\ n.newService = m.newService
          /\ n.record = None /\ n.saved = m.saved /\ n.then = m.then /\ n.hurt = h /\ n.pc = s
  BY <1>2, <1>4, NoteDropped
<1> QED
  BY <1>4, <1>5 DEF h, s

LEMMA AnsweredNotes ==
    ASSUME me \in [Proc -> Commands], MachineTypes, NEW p \in Proc, Course(me[p]), Answered(p)
    PROVE  LET m == me[p]
               n == me'[p]
           IN  /\ Own(p) /\ Core(m, n) /\ Tried(m, n) /\ Rest(m, n)
               /\ n.before = m.before /\ n.record = m.record
               /\ n.newService = (daemon # None /\ daemon.src = m.dest)
               /\ n.pc = IF n.newService THEN "commit" ELSE "svc_stop"
<1> DEFINE b == daemon # None /\ daemon.src = me[p].dest
           s == IF daemon # None /\ daemon.src = me[p].dest THEN "commit" ELSE "svc_stop"
<1>1. me' = [me EXCEPT ![p] = Renewed(me[p], b, s)]
  BY DEF Answered, Renewed
<1>2. b \in BOOLEAN /\ s \in Pcs
  BY DEF Pcs, Forward, Catching
<1> HIDE DEF b, s
<1>3. Renewed(me[p], b, s) \in Commands
  BY <1>2, NoteNew
<1>4. Own(p) /\ me'[p] = Renewed(me[p], b, s)
  BY <1>1, <1>3, Writes
<1>5. LET m == me[p]
          n == me'[p]
      IN  /\ Core(m, n) /\ Tried(m, n) /\ Rest(m, n) /\ n.before = m.before /\ n.newService = b
          /\ n.record = m.record /\ n.pc = s
  BY <1>2, <1>4, NoteNew
<1> QED
  BY <1>4, <1>5 DEF b, s

LEMMA StopAgainNotes ==
    ASSUME me \in [Proc -> Commands], MachineTypes, NEW p \in Proc, Course(me[p]), StopAgain(p)
    PROVE  LET m == me[p]
               n == me'[p]
           IN  /\ Own(p) /\ Core(m, n) /\ Tried(m, n) /\ Rest(m, n)
               /\ n.before = m.before /\ n.newService = m.newService
               /\ n.record = None /\ n.pc = "svc_restore"
<1>1. me' = [me EXCEPT ![p] = Recording(me[p], None, "svc_restore")]
  BY DEF StopAgain, Recording
<1>2. "svc_restore" \in Pcs /\ None \in {None} \cup Services
  BY DEF Pcs, Catching
<1>3. Recording(me[p], None, "svc_restore") \in Commands
  BY <1>2, NoteRecord
<1>4. Own(p) /\ me'[p] = Recording(me[p], None, "svc_restore")
  BY <1>1, <1>3, Writes
<1> QED
  BY <1>2, <1>4, NoteRecord

LEMMA GivesUpNotes ==
    ASSUME me \in [Proc -> Commands], MachineTypes, NEW p \in Proc, Course(me[p]),
           RestoreServiceFails(p)
    PROVE  LET m == me[p]
               n == me'[p]
           IN  /\ Own(p) /\ Core(m, n) /\ Tried(m, n) /\ Served(m, n)
               /\ n.saved = m.saved /\ n.then = m.then /\ n.hurt /\ n.pc = "failed"
<1> DEFINE h == TRUE
           s == "failed"
<1>1. me' = [me EXCEPT ![p] = GivenUp(me[p], h, s)]
  BY DEF RestoreServiceFails, GivenUp
<1>2. h \in BOOLEAN /\ s \in Pcs
  BY DEF Pcs, Ends
<1> HIDE DEF h, s
<1>3. GivenUp(me[p], h, s) \in Commands
  BY <1>2, NoteGivenUp
<1>4. Own(p) /\ me'[p] = GivenUp(me[p], h, s)
  BY <1>1, <1>3, Writes
<1>5. LET m == me[p]
          n == me'[p]
      IN  /\ Core(m, n) /\ Tried(m, n) /\ Served(m, n)
          /\ n.saved = m.saved /\ n.then = m.then /\ n.hurt = h /\ n.pc = s
  BY <1>2, <1>4, NoteGivenUp
<1> QED
  BY <1>4, <1>5 DEF h, s

LEMMA BeginUninstallNotes ==
    ASSUME me \in [Proc -> Commands], MachineTypes, NEW p \in Proc, Course(me[p]), BeginUninstall(p)
    PROVE  LET m == me[p]
               n == me'[p]
           IN  /\ Own(p) /\ Core(m, n) /\ Tried(m, n) /\ Served(m, n)
               /\ n.saved = ledger /\ n.then = m.then /\ n.hurt = m.hurt /\ n.pc = "detach_claude"
<1>1. me' = [me EXCEPT ![p] = Filed(me[p], ledger, "detach_claude")]
  BY DEF BeginUninstall, Filed
<1>2. ledger \in Ledgers /\ "detach_claude" \in Pcs
  BY DEF MachineTypes, Pcs, Removing
<1>3. Filed(me[p], ledger, "detach_claude") \in Commands
  BY <1>2, NoteSaved
<1>4. Own(p) /\ me'[p] = Filed(me[p], ledger, "detach_claude")
  BY <1>1, <1>3, Writes
<1> QED
  BY <1>2, <1>4, NoteSaved

LEMMA StopsNotes ==
    ASSUME me \in [Proc -> Commands], MachineTypes, NEW p \in Proc, Course(me[p]),
           me[p].saved.service # None, unit \in {None, "homi"}, uninstallService(p)
    PROVE  LET m == me[p]
               n == me'[p]
           IN  /\ Own(p) /\ Core(m, n) /\ Tried(m, n) /\ Rest(m, n)
               /\ n.before = [unit |-> unit, active |-> job # None]
               /\ n.newService = m.newService /\ n.record = m.record /\ n.pc = "drop_unit"
<1> DEFINE b == [unit |-> unit, active |-> job # None]
           s == "drop_unit"
<1>1. me' = [me EXCEPT ![p] = Stopping(me[p], b, s)]
  BY DEF uninstallService, Stopping
<1>2. b \in [unit : Units, active : BOOLEAN] /\ s \in Pcs
  BY DEF MachineTypes, Pcs, Removing
<1> HIDE DEF b, s
<1>3. Stopping(me[p], b, s) \in Commands
  BY <1>2, NoteStopped
<1>4. Own(p) /\ me'[p] = Stopping(me[p], b, s)
  BY <1>1, <1>3, Writes
<1>5. LET m == me[p]
          n == me'[p]
      IN  /\ Core(m, n) /\ Tried(m, n) /\ Rest(m, n) /\ n.before = b /\ n.newService = m.newService
          /\ n.record = m.record /\ n.pc = s
  BY <1>2, <1>4, NoteStopped
<1> QED
  BY <1>4, <1>5 DEF b, s

LEMMA DetachRestNotes ==
    ASSUME me \in [Proc -> Commands], MachineTypes, NEW p \in Proc, Course(me[p]), DetachRest(p)
    PROVE  LET m == me[p]
               n == me'[p]
           IN  /\ Own(p) /\ Core(m, n) /\ Tried(m, n) /\ Served(m, n)
               /\ n.saved = Unlinked(m.saved, Unreferenced(m.saved))
               /\ n.then = m.then /\ n.hurt = m.hurt /\ n.pc = "record"
<1>1. me' = [me EXCEPT ![p] = Filed(me[p], Unlinked(me[p].saved, Unreferenced(me[p].saved)), "record")]
  BY DEF DetachRest, Filed, Unlinked, Unreferenced
<1>2. Unlinked(me[p].saved, Unreferenced(me[p].saved)) \in Ledgers /\ "record" \in Pcs
  BY LedgerUnlinked DEF DropsLinks, Commands, Pcs, Removing
<1>3. Filed(me[p], Unlinked(me[p].saved, Unreferenced(me[p].saved)), "record") \in Commands
  BY <1>2, NoteSaved
<1>4. Own(p) /\ me'[p] = Filed(me[p], Unlinked(me[p].saved, Unreferenced(me[p].saved)), "record")
  BY <1>1, <1>3, Writes
<1> QED
  BY <1>2, <1>4, NoteSaved

NewRecord(m) == [original |-> original(m), backup |-> unit, wasActive |-> job # None]
LEMMA installServiceNotes ==
    ASSUME me \in [Proc -> Commands], MachineTypes, NEW p \in Proc, Course(me[p]), 
           original(me[p]) \in {None} \cup Originals, installService(p)
    PROVE  LET m == me[p]
               n == me'[p]
           IN  /\ Own(p) /\ Core(m, n) /\ Tried(m, n) /\ Rest(m, n) /\ n.newService = m.newService
               /\ \/ /\ m.saved.service # None /\ unit \notin {None, "homi"}
                     /\ n.before = m.before /\ n.record = m.record /\ n.pc = "undo"
                  \/ /\ DaemonUnchanged(m)
                     /\ n.before = m.before /\ n.record = m.saved.service /\ n.pc = "commit"
                  \/ /\ m.saved.service # None => unit \in {None, "homi"}
                     /\ n.before = [unit |-> unit, active |-> job # None] /\ n.record = NewRecord(m)
                     /\ n.pc = "unload"
<1> DEFINE b == [unit |-> unit, active |-> job # None]
           r == NewRecord(me[p])
<1>1. \/ /\ me[p].saved.service # None /\ unit \notin {None, "homi"}
         /\ me' = [me EXCEPT ![p] = Paced(me[p], "undo")]
      \/ /\ DaemonUnchanged(me[p])
         /\ me' = [me EXCEPT ![p] = Recording(me[p], me[p].saved.service, "commit")]
      \/ /\ me[p].saved.service # None => unit \in {None, "homi"}
         /\ me' = [me EXCEPT ![p] = Serving(me[p], b, r, "unload")]
  BY DEF installService, Paced, Recording, Serving, NewRecord
<1>2. /\ me[p].saved.service \in {None} \cup Services /\ r \in Services
      /\ b \in [unit : Units, active : BOOLEAN]
      /\ "undo" \in Pcs /\ "commit" \in Pcs /\ "unload" \in Pcs
  BY DEF NewRecord, Services, MachineTypes, Commands, Ledgers, Pcs, Forward, Undoing
<1> HIDE DEF b, r
<1>3. CASE /\ me[p].saved.service # None /\ unit \notin {None, "homi"}
           /\ me' = [me EXCEPT ![p] = Paced(me[p], "undo")]
  <2>1. Paced(me[p], "undo") \in Commands
    BY <1>2, NotePc
  <2>2. Own(p) /\ me'[p] = Paced(me[p], "undo")
    BY <1>3, <2>1, Writes
  <2>3. Moved(me[p], me'[p], "undo")
    BY <1>2, <2>2, NotePc
  <2> QED
    BY <1>3, <2>2, <2>3 DEF Moved, Served
<1>4. CASE /\ DaemonUnchanged(me[p])
           /\ me' = [me EXCEPT ![p] = Recording(me[p], me[p].saved.service, "commit")]
  <2>1. Own(p) /\ me'[p] = Recording(me[p], me[p].saved.service, "commit")
    BY <1>2, <1>4, NoteRecord, Writes
  <2> QED
    BY <1>2, <1>4, <2>1, NoteRecord
<1>5. CASE /\ me[p].saved.service # None => unit \in {None, "homi"}
           /\ me' = [me EXCEPT ![p] = Serving(me[p], b, r, "unload")]
  <2>1. Own(p) /\ me'[p] = Serving(me[p], b, r, "unload")
    BY <1>2, <1>5, NoteBefore, Writes
  <2>2. LET m == me[p]
            n == me'[p]
        IN  /\ Core(m, n) /\ Tried(m, n) /\ Rest(m, n) /\ n.newService = m.newService
            /\ n.before = b /\ n.record = r /\ n.pc = "unload"
    BY <1>2, <2>1, NoteBefore
  <2> QED
    BY <1>5, <2>1, <2>2 DEF b, r
<1> QED
  BY <1>1, <1>3, <1>4, <1>5

-----------------------------------------------------------------------------
(* What each step does to the installation and to the notes of the command *)
(* that takes it: from m to n.                                             *)

installation == <<current, staged, projections, bin, ledger, unit, job, daemon, reg, had>>
Same == UNCHANGED <<installation, troubled>>

PreflightMoves(m, n) ==
    /\ m.pc = "locked" /\ m.op # "uninstall" /\ Tried(m, n) /\ Served(m, n)
    /\ n.op = m.op /\ n.dest = m.dest /\ n.service = m.service /\ n.purge = m.purge
    /\ n.then = m.then /\ n.hurt = m.hurt
    /\ n.from = current /\ n.snap = reg /\ n.bin = bin /\ n.was = <<reg, bin, unit, job, daemon>>
    /\ \/ /\ m.op = "setup" /\ n.saved = ledger /\ n.clients = m.clients
          /\ n.pc \in {"failed", "stage"}
       \/ /\ m.op = "rollback" /\ n.saved = m.saved
          /\ n.clients = {c \in Client : m.saved.clients[c] # None}
          /\ \/ n.pc = "failed"
             \/ n.clients = {} /\ n.pc = "switch"
             \/ n.clients # {} /\ n.pc = "project"
    /\ Same
StageMoves(m, n) ==
    /\ m.pc = "stage" /\ Moved(m, n, "own") /\ staged' = staged \cup {m.dest}
    /\ UNCHANGED <<current, projections, bin, ledger, unit, job, daemon, reg, had, troubled>>
OwnReleaseMoves(m, n) ==
    /\ m.pc = "own" /\ Core(m, n) /\ Tried(m, n) /\ Served(m, n) /\ n.then = m.then /\ n.hurt = m.hurt
    /\ AddsRelease(m.saved, n.saved, m.dest) /\ ledger' = n.saved
    /\ n.pc = IF m.clients = {} THEN "switch" ELSE "project"
    /\ UNCHANGED <<current, staged, projections, bin, unit, job, daemon, reg, had, troubled>>
BuildMoves(m, n) ==
    /\ m.pc = "project" /\ Core(m, n) /\ Served(m, n) /\ Rest(m, n)
    /\ (n.made => m.dest \notin projections) /\ n.changed = m.changed /\ n.failed = m.failed
    /\ n.pc = IF m.op = "setup" THEN "ownproject" ELSE "switch"
    /\ projections' = projections \cup {m.dest}
    /\ UNCHANGED <<current, staged, bin, ledger, unit, job, daemon, reg, had, troubled>>
OwnProjectionMoves(m, n) ==
    /\ m.pc = "ownproject" /\ Core(m, n) /\ Tried(m, n) /\ Served(m, n) /\ n.then = m.then
    /\ n.hurt = m.hurt /\ n.pc = "switch"
    /\ AddsProjection(m.saved, n.saved, m.dest) /\ ledger' = n.saved
    /\ UNCHANGED <<current, staged, projections, bin, unit, job, daemon, reg, had, troubled>>
SwitchMoves(m, n) ==
    /\ m.pc = "switch"
    /\ \/ /\ m.op = "setup" /\ bin = "user" /\ Moved(m, n, "failed") /\ current' = current
       \/ /\ ~(m.op = "setup" /\ bin = "user") /\ Moved(m, n, "claude") /\ current' = m.dest
    /\ UNCHANGED <<staged, projections, bin, ledger, unit, job, daemon, reg, had, troubled>>

PassMoves(m, n, c) == \* a client that was not asked for
    /\ m.pc = c /\ c \notin m.clients /\ Moved(m, n, AfterClient(c, m)) /\ Same
InstallMoves(m, n, c) ==
    /\ m.pc = c /\ c \in m.clients /\ Core(m, n) /\ Served(m, n) /\ Rest(m, n)
    /\ n.made = m.made /\ n.changed = m.changed \cup {c} /\ n.failed = m.failed
    /\ \/ /\ Accepts(c, m.snap[c]) /\ n.pc = AfterClient(c, m)
          /\ reg'[c].market = m.dest /\ reg'[c].on
       \/ ~Accepts(c, m.snap[c]) /\ n.pc = "undo" /\ reg'[c].market = m.dest
    /\ reg' \in [Client -> Registration] /\ \A d \in Client \ {c} : reg'[d] = reg[d]
    /\ UNCHANGED <<current, staged, projections, bin, ledger, unit, job, daemon, had, troubled>>
InstallFailsMoves(m, n, c) ==
    /\ m.pc = c /\ c \in m.clients /\ Core(m, n) /\ Served(m, n) /\ Rest(m, n)
    /\ n.made = m.made /\ n.changed = m.changed \cup {c} /\ n.failed = m.failed /\ n.pc = "undo"
    /\ reg' \in [Client -> Registration] /\ reg'[c].market \in {reg[c].market, m.dest}
    /\ \A d \in Client \ {c} : reg'[d] = reg[d]
    /\ UNCHANGED <<current, staged, projections, bin, ledger, unit, job, daemon, had, troubled>>
RestoreMoves(m, n, c) ==
    /\ m.pc = (IF c = "claude" THEN "undo_claude" ELSE "undo_codex")
    /\ Core(m, n) /\ Served(m, n) /\ Rest(m, n) /\ n.made = m.made /\ n.changed = m.changed
    /\ n.pc = AfterUndo(c, m)
    /\ reg' \in [Client -> Registration] /\ \A d \in Client \ {c} : reg'[d] = reg[d]
    /\ \/ /\ n.failed = m.failed /\ troubled' = troubled
          /\ reg'[c] = IF c \in m.changed THEN m.snap[c] ELSE reg[c]
       \/ /\ c \in m.changed /\ n.failed /\ troubled' = troubled \cup {"recovery"}
          /\ reg'[c] \in {reg[c], Absent}
    /\ UNCHANGED <<current, staged, projections, bin, ledger, unit, job, daemon, had>>
BinsMoves(m, n) ==
    /\ m.pc = "bins" /\ bin' = "ours"
    /\ Moved(m, n, IF m.service \/ m.saved.service # None THEN "service" ELSE "commit")
    /\ UNCHANGED <<current, staged, projections, ledger, unit, job, daemon, reg, had, troubled>>

ServiceMoves(m, n) ==
    /\ m.pc = "service" /\ Core(m, n) /\ Tried(m, n) /\ Rest(m, n) /\ n.newService = m.newService
    /\ \/ /\ m.saved.service # None /\ unit \notin {None, "homi"}
          /\ n.before = m.before /\ n.record = m.record /\ n.pc = "undo"
       \/ /\ m.saved.service # None /\ unit = "homi" /\ job # None /\ daemon # None /\ daemon.src = current
          /\ n.before = m.before /\ n.record = m.saved.service /\ n.pc = "commit"
       \/ /\ m.saved.service # None => unit \in {None, "homi"}
          /\ n.before = [unit |-> unit, active |-> job # None] /\ n.record \in Services
          /\ n.record.original = original(m) /\ n.record.backup = unit
          /\ n.record.wasActive = (job # None) /\ n.pc = "unload"
    /\ Same
UnloadMoves(m, n) ==
    /\ m.pc = "unload" /\ Moved(m, n, "unit") /\ job' = None /\ daemon' = None
    /\ UNCHANGED <<current, staged, projections, bin, ledger, unit, reg, had, troubled>>
UnloadFailsMoves(m, n) ==
    /\ m.pc = "unload" /\ Core(m, n) /\ Tried(m, n) /\ n.before = m.before
    /\ n.newService = m.newService /\ n.record = None /\ n.saved = m.saved /\ n.then = m.then
    /\ n.pc = "undo"
    /\ \/ n.hurt = m.hurt /\ UNCHANGED <<job, daemon, troubled>>
       \/ n.hurt /\ job' = None /\ daemon' = Stopped /\ troubled' = troubled \cup {"halfstop"}
    /\ UNCHANGED <<current, staged, projections, bin, ledger, unit, reg, had>>
WriteUnitMoves(m, n) ==
    /\ m.pc = "unit" /\ Moved(m, n, "load") /\ unit' = "homi"
    /\ UNCHANGED <<current, staged, projections, bin, ledger, job, daemon, reg, had, troubled>>
LoadMoves(m, n) ==
    /\ m.pc = "load"
    /\ \/ unit = None /\ Moved(m, n, "svc_stop") /\ UNCHANGED <<job, daemon>>
       \/ unit # None /\ Moved(m, n, "answer") /\ job' = unit /\ daemon' = Started(unit, daemon)
    /\ UNCHANGED <<current, staged, projections, bin, ledger, unit, reg, had, troubled>>
AnswerMoves(m, n) ==
    /\ m.pc = "answer" /\ Core(m, n) /\ Tried(m, n) /\ Rest(m, n) /\ n.before = m.before
    /\ n.record = m.record
    /\ \/ n.newService /\ daemon # None /\ daemon.src = m.dest /\ n.pc = "commit"
       \/ ~n.newService /\ n.pc = "svc_stop"
    /\ Same
StopAgainMoves(m, n) ==
    /\ m.pc = "svc_stop" /\ Core(m, n) /\ Tried(m, n) /\ Rest(m, n) /\ n.before = m.before
    /\ n.newService = m.newService /\ n.record = None /\ n.pc = "svc_restore"
    /\ job' = None /\ daemon' = Stopped
    /\ UNCHANGED <<current, staged, projections, bin, ledger, unit, reg, had, troubled>>
RestoreUnitMoves(m, n) ==
    /\ m.pc = "svc_restore" /\ current' = m.from /\ unit' = m.before.unit
    /\ Moved(m, n, IF m.before.unit # None /\ m.before.active THEN "svc_reload" ELSE "undo")
    /\ UNCHANGED <<staged, projections, bin, ledger, job, daemon, reg, had, troubled>>
ReloadMoves(m, n) ==
    /\ m.pc = "svc_reload" /\ unit # None /\ Moved(m, n, "undo")
    /\ job' = unit /\ daemon' = Started(unit, daemon)
    /\ UNCHANGED <<current, staged, projections, bin, ledger, unit, reg, had, troubled>>
CatchFailsMoves(m, n) ==
    /\ m.pc \in Catching /\ Core(m, n) /\ Tried(m, n) /\ n.before = m.before
    /\ n.newService = m.newService /\ n.record = None /\ n.saved = m.saved /\ n.then = m.then
    /\ n.hurt /\ n.pc = "undo" /\ troubled' = troubled \cup {"recovery"}
    /\ UNCHANGED installation

CommitMoves(m, n) ==
    /\ m.pc = "commit" /\ Moved(m, n, "done") /\ Commits(m, ledger')
    /\ UNCHANGED <<current, staged, projections, bin, unit, job, daemon, reg, had, troubled>>
UndoMoves(m, n) ==
    /\ m.pc = "undo" /\ current' = m.from /\ bin' = (IF m.op = "setup" THEN m.bin ELSE bin)
    /\ Moved(m, n, IF m.op = "setup" /\ m.newService THEN "undo_service" ELSE "undo_claude")
    /\ UNCHANGED <<staged, projections, ledger, unit, job, daemon, reg, had, troubled>>
RestoreServiceMoves(m, n) ==
    /\ m.pc = "undo_service" /\ Moved(m, n, "undo_claude") /\ unit' = m.record.backup
    /\ job' = IF unit' # None /\ m.record.wasActive THEN unit' ELSE None
    /\ daemon' = IF job' = None THEN Stopped ELSE Started(unit', Stopped)
    /\ UNCHANGED <<current, staged, projections, bin, ledger, reg, had, troubled>>
RestoreServiceFailsMoves(m, n) ==
    /\ m.pc = "undo_service" /\ Core(m, n) /\ Tried(m, n) /\ Served(m, n)
    /\ n.saved = m.saved /\ n.then = m.then /\ n.hurt /\ n.pc = "failed"
    /\ troubled' = troubled \cup {"recovery"} /\ UNCHANGED installation
UnprojectMoves(m, n) ==
    /\ m.pc = "unproject" /\ Moved(m, n, "failed")
    /\ projections' = IF m.made /\ ~m.failed THEN projections \ {m.dest} ELSE projections
    /\ UNCHANGED <<current, staged, bin, ledger, unit, job, daemon, reg, had, troubled>>

SaveMoves(m, n, t) == \* the notes once Save has been done
    /\ Core(m, n) /\ Tried(m, n) /\ Served(m, n) /\ n.hurt = m.hurt
    /\ n.pc = "save" /\ n.then = t
WriteLedgerMoves(m, n) ==
    /\ m.pc = "save" /\ Moved(m, n, m.then) /\ ledger' = m.saved
    /\ UNCHANGED <<current, staged, projections, bin, unit, job, daemon, reg, had, troubled>>
BeginUninstallMoves(m, n) ==
    /\ m.pc = "locked" /\ m.op = "uninstall" /\ Core(m, n) /\ Tried(m, n) /\ Served(m, n)
    /\ n.saved = ledger /\ n.then = m.then /\ n.hurt = m.hurt /\ n.pc = "detach_claude" /\ Same
DetachMoves(m, n, c) ==
    /\ m.pc = DetachPc(c) /\ reg' \in [Client -> Registration]
    /\ \/ /\ c \in m.clients => m.saved.clients[c] = None
          /\ Moved(m, n, AfterDetach(c, m)) /\ reg' = reg
       \/ /\ Moved(m, n, "failed") /\ reg' = reg
       \/ /\ c \in m.clients /\ m.saved.clients[c] # None /\ reg[c].market # m.saved.clients[c].root
          /\ DropsClient(m.saved, n.saved, c) /\ SaveMoves(m, n, AfterDetach(c, m)) /\ reg' = reg
       \/ /\ c \in m.clients /\ m.saved.clients[c] # None /\ Owns(c, m.saved.clients[c])
          /\ DropsClient(m.saved, n.saved, c) /\ SaveMoves(m, n, AfterDetach(c, m))
          /\ reg'[c] = m.saved.clients[c].original /\ \A d \in Client \ {c} : reg'[d] = reg[d]
    /\ UNCHANGED <<current, staged, projections, bin, ledger, unit, job, daemon, had, troubled>>
DetachFailsMoves(m, n, c) ==
    /\ m.pc = DetachPc(c) /\ Moved(m, n, "failed")
    /\ reg' \in [Client -> Registration] /\ reg'[c] = Absent
    /\ troubled' = troubled \cup {"recovery"} /\ \A d \in Client \ {c} : reg'[d] = reg[d]
    /\ UNCHANGED <<current, staged, projections, bin, ledger, unit, job, daemon, had>>
StopMoves(m, n) ==
    /\ m.pc = "detach_service"
    /\ \/ /\ m.saved.service = None \/ unit \notin {None, "homi"}
          /\ Moved(m, n, "detach_rest") /\ UNCHANGED <<job, daemon>>
       \/ /\ m.saved.service # None /\ unit \in {None, "homi"} /\ job' = None /\ daemon' = Stopped
          /\ Core(m, n) /\ Tried(m, n) /\ Rest(m, n)
          /\ n.before = [unit |-> unit, active |-> job # None] /\ n.newService = m.newService
          /\ n.record = m.record /\ n.pc = "drop_unit"
    /\ UNCHANGED <<current, staged, projections, bin, ledger, unit, reg, had, troubled>>
DropUnitMoves(m, n) ==
    /\ m.pc = "drop_unit" /\ DropsService(m.saved, n.saved) /\ SaveMoves(m, n, "detach_rest")
    /\ LET o == m.saved.service.original
       IN  /\ unit' = IF o = None THEN None ELSE o.unit
           /\ job' = IF o # None /\ o.active THEN unit' ELSE None
    /\ daemon' = IF job' = None THEN daemon ELSE Started(unit', daemon)
    /\ UNCHANGED <<current, staged, projections, bin, ledger, reg, had, troubled>>
DropUnitFailsMoves(m, n) ==
    /\ m.pc = "drop_unit" /\ Moved(m, n, "failed") /\ unit' = m.before.unit
    /\ job' = IF m.before.active /\ unit' # None THEN unit' ELSE None
    /\ daemon' = IF job' = None THEN daemon ELSE Started(unit', daemon)
    /\ UNCHANGED <<current, staged, projections, bin, ledger, reg, had, troubled>>
DetachRestMoves(m, n) ==
    /\ m.pc = "detach_rest" /\ Core(m, n) /\ Tried(m, n) /\ Served(m, n)
    /\ DropsLinks(m.saved, n.saved, Unreferenced(m.saved))
    /\ n.then = m.then /\ n.hurt = m.hurt /\ n.pc = "record"
    /\ bin' = IF bin = "ours" /\ m.saved.links THEN "none" ELSE bin
    /\ projections' = projections \ Unreferenced(m.saved)
    /\ UNCHANGED <<current, staged, ledger, unit, job, daemon, reg, had, troubled>>
RecordMoves(m, n) ==
    /\ m.pc = "record" /\ n.saved = m.saved /\ SaveMoves(m, n, IF m.purge THEN "purge" ELSE "done") /\ Same
PurgeMoves(m, n) ==
    /\ m.pc = "purge"
    /\ \/ MayPurge(m.saved) /\ Moved(m, n, "erase") /\ current' = None
       \/ Moved(m, n, "failed") /\ current' = current
    /\ UNCHANGED <<staged, projections, bin, ledger, unit, job, daemon, reg, had, troubled>>
EraseMoves(m, n) ==
    /\ m.pc = "erase"
    /\ \/ Empties(m.saved, n.saved) /\ SaveMoves(m, n, "done") /\ staged' = staged
       \/ n = m /\ \E r \in m.saved.releases : staged' = staged \ {r}
    /\ UNCHANGED <<current, projections, bin, ledger, unit, job, daemon, reg, had, troubled>>

ThrowPcs == {"stage", "own", "project", "ownproject", "switch", "bins", "service",
             "unit", "load", "answer", "commit", "save", "erase"}
ThrowMoves(m, n) ==
    /\ m.pc \in ThrowPcs /\ UNCHANGED installation
    /\ Moved(m, n, IF m.pc \in {"bins", "service", "commit"} THEN "undo"
                   ELSE IF m.pc \in {"unit", "load", "answer"} THEN "svc_stop" ELSE "failed")
    /\ troubled' = IF m.pc = "erase" \/ (m.pc = "save" /\ m.then = "done")
                   THEN troubled \cup {"recovery"} ELSE troubled

(* Between two commands, and from outside. *)

BeginMoves(m, n) == \* a command takes the lock
    /\ m = Idle /\ n.pc = "locked"
    /\ \/ n.op \in {"setup", "uninstall"} /\ troubled' = troubled
       \/ n.op = "rollback" /\ n.saved = ledger /\ troubled' = troubled
       \/ n.op = "rollback" /\ troubled' = troubled \cup {"stale"}
    /\ UNCHANGED installation
EndMoves(m, n) == \* its process leaves, or is killed
    /\ n = Idle /\ UNCHANGED installation
    /\ \/ m.pc \in {"none", "locked"} \cup Ends /\ troubled' = troubled
       \/ troubled' = troubled \cup {"kill"}

HurtMoves(m, n) == /\ Core(m, n) /\ Tried(m, n) /\ Served(m, n) /\ n.saved = m.saved
                   /\ n.then = m.then /\ n.pc = m.pc
                   /\ (m.op # "none" => n.hurt) /\ (m.op = "none" => n = m)
EditMoves(m, n) ==
    /\ HurtMoves(m, n) /\ reg' \in [Client -> Registration]
    /\ \/ /\ \E c \in Client : /\ reg[c].market \in Release /\ \A d \in Client \ {c} : reg'[d] = reg[d]
                               /\ reg'[c].market \in {reg[c].market, "user"}
          /\ UNCHANGED <<unit, bin>>
       \/ unit = "homi" /\ unit' \in {None, "edited"} /\ UNCHANGED <<reg, bin>>
       \/ bin = "ours" /\ bin' = "user" /\ UNCHANGED <<reg, unit>>
    /\ UNCHANGED <<current, staged, projections, ledger, job, daemon, had, troubled>>
DaemonDiesMoves(m, n) ==
    /\ HurtMoves(m, n) /\ daemon' = IF job = None THEN None ELSE Started(job, None)
    /\ UNCHANGED <<current, staged, projections, bin, ledger, unit, job, reg, had, troubled>>
AutostartMoves(m, n) ==
    /\ HurtMoves(m, n) /\ \E r \in Release : daemon' = [src |-> r, managed |-> FALSE]
    /\ UNCHANGED <<current, staged, projections, bin, ledger, unit, job, reg, had, troubled>>
RestMoves(m, n) == n = m /\ Same

Works(m, n) == \* the steps of a command at work
    \/ PreflightMoves(m, n) \/ StageMoves(m, n) \/ OwnReleaseMoves(m, n) \/ BuildMoves(m, n)
    \/ OwnProjectionMoves(m, n) \/ SwitchMoves(m, n) \/ BinsMoves(m, n)
    \/ \E c \in Client : \/ PassMoves(m, n, c) \/ InstallMoves(m, n, c) \/ InstallFailsMoves(m, n, c)
                         \/ RestoreMoves(m, n, c) \/ DetachMoves(m, n, c) \/ DetachFailsMoves(m, n, c)
    \/ ServiceMoves(m, n) \/ UnloadMoves(m, n) \/ UnloadFailsMoves(m, n) \/ WriteUnitMoves(m, n)
    \/ LoadMoves(m, n) \/ AnswerMoves(m, n) \/ StopAgainMoves(m, n) \/ RestoreUnitMoves(m, n)
    \/ ReloadMoves(m, n) \/ CatchFailsMoves(m, n) \/ CommitMoves(m, n) \/ UndoMoves(m, n)
    \/ RestoreServiceMoves(m, n) \/ RestoreServiceFailsMoves(m, n) \/ UnprojectMoves(m, n)
    \/ WriteLedgerMoves(m, n) \/ BeginUninstallMoves(m, n) \/ StopMoves(m, n) \/ DropUnitMoves(m, n)
    \/ DropUnitFailsMoves(m, n) \/ DetachRestMoves(m, n) \/ RecordMoves(m, n) \/ PurgeMoves(m, n)
    \/ EraseMoves(m, n) \/ ThrowMoves(m, n)
Outside(m, n) == EditMoves(m, n) \/ DaemonDiesMoves(m, n) \/ AutostartMoves(m, n)
Moves(m, n) == \/ Works(m, n) \/ BeginMoves(m, n) \/ EndMoves(m, n) \/ Outside(m, n) \/ RestMoves(m, n)

-----------------------------------------------------------------------------
(* Every move keeps the types of the installation and the course of the    *)
(* command.                                                                *)

LEMMA StopType == ASSUME MachineTypes PROVE Stopped \in {None} \cup Daemons
  BY DEF Stopped, MachineTypes

LEMMA StartType ==
    ASSUME MachineTypes, NEW u, NEW d \in {None} \cup Daemons
    PROVE  Started(u, d) \in Daemons
  BY DEF Started, MachineTypes, Daemons

LEMMA MachineTypesStep ==
    ASSUME MachineTypes, NEW m \in Commands, NEW n \in Commands, Course(m), Moves(m, n)
    PROVE  MachineTypes'
<1> USE DEF MachineTypes, Executables
<1>1. CASE PreflightMoves(m, n)
  BY <1>1 DEF PreflightMoves, Same, installation
<1>2. CASE StageMoves(m, n)
  BY <1>2 DEF StageMoves, Course, Pcs, Early, Forward, Catching, Undoing, Removing, Ends, Thens
<1>3. CASE OwnReleaseMoves(m, n)
  BY <1>3 DEF OwnReleaseMoves, AddsRelease
<1>4. CASE BuildMoves(m, n)
  BY <1>4 DEF BuildMoves, Course, Pcs, Early, Forward, Catching, Undoing, Removing, Ends, Thens
<1>5. CASE OwnProjectionMoves(m, n)
  BY <1>5 DEF OwnProjectionMoves, AddsProjection
<1>6. CASE SwitchMoves(m, n)
  BY <1>6 DEF SwitchMoves, Course, Pcs, Early, Forward, Catching, Undoing, Removing, Ends, Thens,
     Moved, Core
<1>7. CASE BinsMoves(m, n)
  BY <1>7 DEF BinsMoves
<1>8. ASSUME NEW c \in Client, PassMoves(m, n, c) PROVE MachineTypes'
  BY <1>8 DEF PassMoves, Same, installation, AfterClient
<1>9. ASSUME NEW c \in Client, InstallMoves(m, n, c) PROVE MachineTypes'
  BY <1>9 DEF InstallMoves, AfterClient
<1>10. ASSUME NEW c \in Client, InstallFailsMoves(m, n, c) PROVE MachineTypes'
  BY <1>10 DEF InstallFailsMoves
<1>11. ASSUME NEW c \in Client, RestoreMoves(m, n, c) PROVE MachineTypes'
  BY <1>11 DEF RestoreMoves, AfterUndo
<1>12. ASSUME NEW c \in Client, DetachMoves(m, n, c) PROVE MachineTypes'
  BY <1>12 DEF DetachMoves, DetachPc, AfterDetach, SaveMoves, DropsClient
<1>13. ASSUME NEW c \in Client, DetachFailsMoves(m, n, c) PROVE MachineTypes'
  <2>1. /\ reg' \in [Client -> Registration] /\ troubled' = troubled \cup {"recovery"}
        /\ UNCHANGED <<current, staged, projections, bin, ledger, unit, job, daemon, had>>
    BY <1>13 DEF DetachFailsMoves
  <2> QED BY <2>1
<1>14. CASE ServiceMoves(m, n)
  BY <1>14 DEF ServiceMoves, Same, installation
<1>15. CASE UnloadMoves(m, n)
  BY <1>15 DEF UnloadMoves, Units
<1>16. CASE UnloadFailsMoves(m, n)
  BY <1>16, StopType DEF UnloadFailsMoves, Units
<1>17. CASE WriteUnitMoves(m, n)
  BY <1>17 DEF WriteUnitMoves, Units
<1>18. CASE LoadMoves(m, n)
  <2>1. CASE unit # None
    <3>1. Started(unit, daemon) \in Daemons
      BY <1>18, <2>1, StartType DEF LoadMoves
    <3> QED BY <1>18, <2>1, <3>1 DEF LoadMoves
  <2>2. CASE unit = None
    BY <1>18, <2>2 DEF LoadMoves
  <2> QED BY <2>1, <2>2
<1>19. CASE AnswerMoves(m, n)
  BY <1>19 DEF AnswerMoves, Same, installation
<1>20. CASE StopAgainMoves(m, n)
  BY <1>20, StopType DEF StopAgainMoves, Units
<1>21. CASE RestoreUnitMoves(m, n)
  BY <1>21 DEF RestoreUnitMoves, Commands
<1>22. CASE ReloadMoves(m, n)
  <2>1. Started(unit, daemon) \in Daemons
    BY <1>22, StartType, StopType DEF ReloadMoves
  <2> QED BY <1>22, <2>1 DEF ReloadMoves
<1>23. CASE CatchFailsMoves(m, n)
  BY <1>23 DEF CatchFailsMoves, installation, Catching
<1>24. CASE CommitMoves(m, n)
  BY <1>24 DEF CommitMoves, Commits
<1>25. CASE UndoMoves(m, n)
  BY <1>25 DEF UndoMoves, Commands
<1>26. CASE RestoreServiceMoves(m, n)
  <2>0. unit' \in Units
    <3>1. m.record \in Services
      BY <1>26 DEF RestoreServiceMoves, Course, Commands
    <3> QED BY <1>26, <3>1 DEF RestoreServiceMoves, Services
  <2>1. CASE job' = None
    <3>1. daemon' = Stopped /\ Stopped \in {None} \cup Daemons
      BY <1>26, <2>1, StopType DEF RestoreServiceMoves
    <3> QED BY <1>26, <2>0, <2>1, <3>1 DEF RestoreServiceMoves, Units
  <2>2. CASE job' # None
    <3>1. /\ job' = unit' /\ unit' \in Units \ {None} /\ daemon' = Started(unit', Stopped)
      BY <1>26, <2>0, <2>2 DEF RestoreServiceMoves
    <3>2. daemon' \in Daemons
      BY <3>1, StartType, StopType
    <3> QED BY <1>26, <2>0, <3>1, <3>2 DEF RestoreServiceMoves
  <2> QED BY <2>1, <2>2
<1>27. CASE RestoreServiceFailsMoves(m, n)
  BY <1>27 DEF RestoreServiceFailsMoves, installation
<1>28. CASE UnprojectMoves(m, n)
  BY <1>28 DEF UnprojectMoves
<1>29. CASE WriteLedgerMoves(m, n)
  BY <1>29 DEF WriteLedgerMoves, Commands
<1>30. CASE BeginUninstallMoves(m, n)
  BY <1>30 DEF BeginUninstallMoves, Same, installation
<1>31. CASE StopMoves(m, n)
  BY <1>31, StopType DEF StopMoves, Units
<1>32. CASE DropUnitMoves(m, n)
  <2>0. unit' \in Units
    <3>1. m.saved \in Ledgers /\ m.saved.service # None
      BY <1>32 DEF DropUnitMoves, Course, Commands
    <3>2. m.saved.service \in Services
      BY <3>1 DEF Ledgers
    <3>3. m.saved.service.original \in {None} \cup Originals
      BY <3>2 DEF Services
    <3>4. unit' = IF m.saved.service.original = None THEN None ELSE m.saved.service.original.unit
      BY <1>32 DEF DropUnitMoves
    <3> QED BY <3>3, <3>4 DEF Originals, Units
  <2>1. CASE job' = None
    <3>1. daemon' = daemon
      BY <1>32, <2>1 DEF DropUnitMoves
    <3> QED BY <1>32, <2>0, <2>1, <3>1 DEF DropUnitMoves, Units
  <2>2. CASE job' # None
    <3>1. /\ job' = unit' /\ unit' \in Units \ {None} /\ daemon' = Started(unit', daemon)
      BY <1>32, <2>0, <2>2 DEF DropUnitMoves
    <3>2. daemon \in {None} \cup Daemons
      BY <1>32, StopType DEF DropUnitMoves
    <3>3. daemon' \in Daemons
      BY <3>1, <3>2, StartType
    <3> QED BY <1>32, <2>0, <3>1, <3>3 DEF DropUnitMoves
  <2> QED BY <2>1, <2>2
<1>33. CASE DropUnitFailsMoves(m, n)
  <2>1. CASE job' = None
    BY <1>33, <2>1, StopType DEF DropUnitFailsMoves, Commands, Units
  <2>2. CASE job' # None
    <3>1. /\ job' = unit' /\ unit' \in Units \ {None} /\ daemon' = Started(unit', daemon)
          /\ daemon \in {None} \cup Daemons
      BY <1>33, <2>2, StopType DEF DropUnitFailsMoves, Commands
    <3>2. daemon' \in Daemons
      BY <3>1, StartType
    <3> QED BY <1>33, <3>1, <3>2 DEF DropUnitFailsMoves
  <2> QED BY <2>1, <2>2
<1>34. CASE DetachRestMoves(m, n)
  BY <1>34 DEF DetachRestMoves, DropsLinks
<1>35. CASE RecordMoves(m, n)
  BY <1>35 DEF RecordMoves, SaveMoves, Same, installation
<1>36. CASE PurgeMoves(m, n)
  BY <1>36 DEF PurgeMoves
<1>37. CASE EraseMoves(m, n)
  BY <1>37 DEF EraseMoves, SaveMoves, Empties
<1>38. CASE ThrowMoves(m, n)
  BY <1>38 DEF ThrowMoves, installation, ThrowPcs
<1>39. CASE BeginMoves(m, n)
  BY <1>39 DEF BeginMoves, installation, Idle
<1>40. CASE EndMoves(m, n)
  BY <1>40 DEF EndMoves, installation, Idle
<1>41. CASE EditMoves(m, n)
  BY <1>41 DEF EditMoves, HurtMoves, Units
<1>42. CASE DaemonDiesMoves(m, n)
  <2>1. job # None => Started(job, None) \in Daemons
    BY StartType
  <2> QED BY <1>42, <2>1 DEF DaemonDiesMoves
<1>43. CASE AutostartMoves(m, n)
  BY <1>43 DEF AutostartMoves, HurtMoves, Daemons
<1>44. CASE RestMoves(m, n)
  BY <1>44 DEF RestMoves, Same, installation
<1> QED
  BY <1>1, <1>2, <1>3, <1>4, <1>5, <1>6, <1>7, <1>8, <1>9, <1>10, <1>11, <1>12, <1>13, <1>14, <1>15,
     <1>16, <1>17, <1>18, <1>19, <1>20, <1>21, <1>22, <1>23, <1>24, <1>25, <1>26, <1>27, <1>28,
     <1>29, <1>30, <1>31, <1>32, <1>33, <1>34, <1>35, <1>36, <1>37, <1>38, <1>39, <1>40, <1>41,
     <1>42, <1>43, <1>44 DEF Moves, Works, Outside

LEMMA CourseStep ==
    ASSUME NEW m \in Commands, NEW n \in Commands, Course(m), Works(m, n)
    PROVE  Course(n) /\ n.op = m.op /\ n.pc # "none"
<1> USE DEF Course, Client, Pcs, Early, Forward, Catching, Undoing, Removing, Ends, Thens
<1>1. CASE PreflightMoves(m, n)
  BY <1>1 DEF PreflightMoves, Same, installation, Core, Tried, Served, Rest, Moved
<1>2. CASE StageMoves(m, n)
  BY <1>2 DEF StageMoves, Core, Tried, Served, Rest, Moved
<1>3. CASE OwnReleaseMoves(m, n)
  BY <1>3 DEF OwnReleaseMoves, AddsRelease, Core, Tried, Served, Rest, Moved
<1>4. CASE BuildMoves(m, n)
  BY <1>4 DEF BuildMoves, Core, Tried, Served, Rest, Moved
<1>5. CASE OwnProjectionMoves(m, n)
  BY <1>5 DEF OwnProjectionMoves, AddsProjection, Core, Tried, Served, Rest, Moved
<1>6. CASE SwitchMoves(m, n)
  BY <1>6 DEF SwitchMoves, Core, Tried, Served, Rest, Moved
<1>7. CASE BinsMoves(m, n)
  BY <1>7 DEF BinsMoves, Core, Tried, Served, Rest, Moved
<1>8. ASSUME NEW c \in Client, PassMoves(m, n, c) PROVE Course(n) /\ n.op = m.op /\ n.pc # "none"
  BY <1>8 DEF PassMoves, Same, installation, AfterClient, Core, Tried, Served, Rest, Moved
<1>9. ASSUME NEW c \in Client, InstallMoves(m, n, c) PROVE Course(n) /\ n.op = m.op /\ n.pc # "none"
  BY <1>9 DEF InstallMoves, AfterClient, Core, Tried, Served, Rest, Moved
<1>10. ASSUME NEW c \in Client, InstallFailsMoves(m, n, c) PROVE Course(n) /\ n.op = m.op /\ n.pc # "none"
  BY <1>10 DEF InstallFailsMoves, Core, Tried, Served, Rest, Moved
<1>11. ASSUME NEW c \in Client, RestoreMoves(m, n, c) PROVE Course(n) /\ n.op = m.op /\ n.pc # "none"
  BY <1>11 DEF RestoreMoves, AfterUndo, Core, Tried, Served, Rest, Moved
<1>12. ASSUME NEW c \in Client, DetachMoves(m, n, c) PROVE Course(n) /\ n.op = m.op /\ n.pc # "none"
  BY <1>12 DEF DetachMoves, DetachPc, AfterDetach, SaveMoves, DropsClient, Core, Tried, Served,
     Rest, Moved
<1>13. ASSUME NEW c \in Client, DetachFailsMoves(m, n, c) PROVE Course(n) /\ n.op = m.op /\ n.pc # "none"
  BY <1>13 DEF DetachFailsMoves, DetachPc, Core, Tried, Served, Rest, Moved
<1>14. CASE ServiceMoves(m, n)
  BY <1>14, NullAssumption DEF ServiceMoves, Same, installation, Core, Tried, Served, Rest, Moved
<1>15. CASE UnloadMoves(m, n)
  BY <1>15 DEF UnloadMoves, Core, Tried, Served, Rest, Moved
<1>16. CASE UnloadFailsMoves(m, n)
  BY <1>16 DEF UnloadFailsMoves, Core, Tried, Served, Rest, Moved
<1>17. CASE WriteUnitMoves(m, n)
  BY <1>17 DEF WriteUnitMoves, Core, Tried, Served, Rest, Moved
<1>18. CASE LoadMoves(m, n)
  BY <1>18 DEF LoadMoves, Core, Tried, Served, Rest, Moved
<1>19. CASE AnswerMoves(m, n)
  BY <1>19 DEF AnswerMoves, Same, installation, Core, Tried, Served, Rest, Moved
<1>20. CASE StopAgainMoves(m, n)
  BY <1>20 DEF StopAgainMoves, Core, Tried, Served, Rest, Moved
<1>21. CASE RestoreUnitMoves(m, n)
  BY <1>21 DEF RestoreUnitMoves, Core, Tried, Served, Rest, Moved
<1>22. CASE ReloadMoves(m, n)
  BY <1>22 DEF ReloadMoves, Core, Tried, Served, Rest, Moved
<1>23. CASE CatchFailsMoves(m, n)
  BY <1>23 DEF CatchFailsMoves, installation, Catching, Core, Tried, Served, Rest, Moved
<1>24. CASE CommitMoves(m, n)
  BY <1>24 DEF CommitMoves, Commits, Core, Tried, Served, Rest, Moved
<1>25. CASE UndoMoves(m, n)
  BY <1>25 DEF UndoMoves, Core, Tried, Served, Rest, Moved
<1>26. CASE RestoreServiceMoves(m, n)
  BY <1>26 DEF RestoreServiceMoves, Core, Tried, Served, Rest, Moved
<1>27. CASE RestoreServiceFailsMoves(m, n)
  BY <1>27 DEF RestoreServiceFailsMoves, installation, Core, Tried, Served, Rest, Moved
<1>28. CASE UnprojectMoves(m, n)
  BY <1>28 DEF UnprojectMoves, Core, Tried, Served, Rest, Moved
<1>29. CASE WriteLedgerMoves(m, n)
  BY <1>29 DEF WriteLedgerMoves, Core, Tried, Served, Rest, Moved
<1>30. CASE BeginUninstallMoves(m, n)
  BY <1>30 DEF BeginUninstallMoves, Same, installation, Core, Tried, Served, Rest, Moved
<1>31. CASE StopMoves(m, n)
  BY <1>31 DEF StopMoves, Core, Tried, Served, Rest, Moved
<1>32. CASE DropUnitMoves(m, n)
  BY <1>32 DEF DropUnitMoves, SaveMoves, DropsService, Core, Tried, Served, Rest, Moved
<1>33. CASE DropUnitFailsMoves(m, n)
  BY <1>33 DEF DropUnitFailsMoves, Core, Tried, Served, Rest, Moved
<1>34. CASE DetachRestMoves(m, n)
  BY <1>34 DEF DetachRestMoves, DropsLinks, Core, Tried, Served, Rest, Moved
<1>35. CASE RecordMoves(m, n)
  BY <1>35 DEF RecordMoves, SaveMoves, Same, installation, Core, Tried, Served, Rest, Moved
<1>36. CASE PurgeMoves(m, n)
  BY <1>36 DEF PurgeMoves, Core, Tried, Served, Rest, Moved
<1>37. CASE EraseMoves(m, n)
  BY <1>37 DEF EraseMoves, SaveMoves, Empties, Core, Tried, Served, Rest, Moved
<1>38. CASE ThrowMoves(m, n)
  BY <1>38 DEF ThrowMoves, installation, ThrowPcs, Core, Tried, Served, Rest, Moved
<1> QED
  BY <1>1, <1>2, <1>3, <1>4, <1>5, <1>6, <1>7, <1>8, <1>9, <1>10, <1>11, <1>12, <1>13, <1>14, <1>15,
     <1>16, <1>17, <1>18, <1>19, <1>20, <1>21, <1>22, <1>23, <1>24, <1>25, <1>26, <1>27, <1>28,
     <1>29, <1>30, <1>31, <1>32, <1>33, <1>34, <1>35, <1>36, <1>37, <1>38 DEF Moves, Works, Outside

-----------------------------------------------------------------------------
(* Every step of a command at work is one of these moves.                  *)

AtWork(p, m, n) == /\ me \in [Proc -> Commands] /\ MachineTypes /\ Course(m)
                   /\ m = me[p] /\ n = me'[p]

LEMMA FirstMoves ==
    ASSUME NEW p \in Proc, NEW m, NEW n, AtWork(p, m, n)
    PROVE  /\ Preflight(p) => Own(p) /\ PreflightMoves(m, n)
           /\ stabilize(p) => Own(p) /\ StageMoves(m, n)
           /\ OwnRelease(p) => Own(p) /\ OwnReleaseMoves(m, n)
           /\ buildIntegration(p) => Own(p) /\ BuildMoves(m, n)
           /\ OwnProjection(p) => Own(p) /\ OwnProjectionMoves(m, n)
           /\ switchCurrent(p) => Own(p) /\ SwitchMoves(m, n)
           /\ Bins(p) => Own(p) /\ BinsMoves(m, n)
<1> USE DEF AtWork, At, files, service, bounds
<1>1. ASSUME Preflight(p) PROVE Own(p) /\ PreflightMoves(m, n)
  <2>1. m.pc = "locked" /\ m.op \in {"setup", "rollback"} /\ Same
    BY <1>1 DEF Preflight, Course, Same, installation
  <2>2. /\ Own(p) /\ Tried(m, n) /\ Served(m, n)
        /\ n.op = m.op /\ n.dest = m.dest /\ n.service = m.service /\ n.purge = m.purge
        /\ n.then = m.then /\ n.hurt = m.hurt
        /\ n.saved = IF m.op = "setup" THEN ledger ELSE m.saved
        /\ n.clients = IF m.op = "setup" THEN m.clients
                       ELSE {c \in Client : n.saved.clients[c] # None}
        /\ n.from = current /\ n.snap = reg /\ n.bin = bin
        /\ n.was = <<reg, bin, unit, job, daemon>>
        /\ n.pc = IF ~ClientsOwned(n.saved, n.clients) THEN "failed"
                  ELSE IF m.op = "setup" THEN "stage"
                  ELSE IF n.clients = {} THEN "switch" ELSE "project"
    BY <1>1, PreflightNotes
  <2>3. CASE m.op = "setup"
    <3>1. n.saved = ledger /\ n.clients = m.clients /\ n.pc \in {"failed", "stage"}
      <4>1. CASE ClientsOwned(n.saved, n.clients)
        BY <2>2, <2>3, <4>1
      <4>2. CASE ~ClientsOwned(n.saved, n.clients)
        BY <2>2, <2>3, <4>2
      <4> QED BY <4>1, <4>2
    <3> QED BY <2>1, <2>2, <2>3, <3>1 DEF PreflightMoves
  <2>4. CASE m.op = "rollback"
    <3>1. n.saved = m.saved /\ n.clients = {c \in Client : m.saved.clients[c] # None}
      BY <2>2, <2>4
    <3>2. \/ n.pc = "failed"
          \/ n.clients = {} /\ n.pc = "switch"
          \/ n.clients # {} /\ n.pc = "project"
      <4>1. CASE ClientsOwned(n.saved, n.clients)
        BY <2>2, <2>4, <4>1
      <4>2. CASE ~ClientsOwned(n.saved, n.clients)
        BY <2>2, <2>4, <4>2
      <4> QED BY <4>1, <4>2
    <3> QED BY <2>1, <2>2, <2>4, <3>1, <3>2 DEF PreflightMoves
  <2> QED BY <2>1, <2>3, <2>4
<1>2. ASSUME stabilize(p) PROVE Own(p) /\ StageMoves(m, n)
  <2>1. GoTo(p, "own") /\ "own" \in Pcs
    BY <1>2 DEF stabilize, Pcs, Early
  <2> QED BY <1>2, <2>1, GoToNotes DEF stabilize, StageMoves
<1>3. ASSUME OwnRelease(p) PROVE Own(p) /\ OwnReleaseMoves(m, n)
  <2>1. /\ m.pc = "own" /\ ledger' = Releasing(m.saved, m.dest) /\ m.op = "setup"
        /\ UNCHANGED <<current, staged, projections, bin, unit, job, daemon, reg, had, troubled>>
    BY <1>3 DEF OwnRelease, Releasing, Course, Early, Forward, Catching, Undoing, Removing, Ends
  <2>2. AddsRelease(m.saved, Releasing(m.saved, m.dest), m.dest)
    BY <2>1, LedgerRelease DEF Commands, Course
  <2> QED BY <1>3, <2>1, <2>2, OwnReleaseNotes DEF OwnReleaseMoves
<1>4. ASSUME buildIntegration(p) PROVE Own(p) /\ BuildMoves(m, n)
  <2>1. /\ m.pc = "project" /\ projections' = projections \cup {m.dest}
        /\ UNCHANGED <<current, staged, bin, ledger, unit, job, daemon, reg, had, troubled>>
    BY <1>4 DEF buildIntegration
  <2> QED BY <1>4, <2>1, buildIntegrationNotes DEF BuildMoves
<1>5. ASSUME OwnProjection(p) PROVE Own(p) /\ OwnProjectionMoves(m, n)
  <2>1. /\ m.pc = "ownproject" /\ ledger' = Projecting(m.saved, m.dest) /\ m.op = "setup"
        /\ UNCHANGED <<current, staged, projections, bin, unit, job, daemon, reg, had, troubled>>
    BY <1>5 DEF OwnProjection, Projecting, Course, Early, Forward, Catching, Undoing, Removing, Ends
  <2>2. AddsProjection(m.saved, Projecting(m.saved, m.dest), m.dest)
    BY <2>1, LedgerProjection DEF Commands, Course
  <2> QED BY <1>5, <2>1, <2>2, OwnProjectionNotes DEF OwnProjectionMoves
<1>6. ASSUME switchCurrent(p) PROVE Own(p) /\ SwitchMoves(m, n)
  <2>1. "failed" \in Pcs /\ "claude" \in Pcs
    BY DEF Pcs, Ends, Forward
  <2> QED BY <1>6, <2>1, GoToNotes DEF switchCurrent, SwitchMoves
<1>7. ASSUME Bins(p) PROVE Own(p) /\ BinsMoves(m, n)
  <2>1. (IF m.service \/ m.saved.service # None THEN "service" ELSE "commit") \in Pcs
    BY DEF Pcs, Forward
  <2> QED BY <1>7, <2>1, GoToNotes DEF Bins, BinsMoves
<1> QED
  BY <1>1, <1>2, <1>3, <1>4, <1>5, <1>6, <1>7

LEMMA ClientMoves ==
    ASSUME NEW p \in Proc, NEW m, NEW n, AtWork(p, m, n), NEW c \in Client
    PROVE  /\ ClientInstall(p, c) => Own(p) /\ (PassMoves(m, n, c) \/ InstallMoves(m, n, c))
           /\ ClientInstallFails(p, c) => Own(p) /\ InstallFailsMoves(m, n, c)
           /\ Restore(p, c) => Own(p) /\ RestoreMoves(m, n, c)
           /\ RestoreFails(p, c) => Own(p) /\ RestoreMoves(m, n, c)
           /\ ClientUninstall(p, c) => Own(p) /\ DetachMoves(m, n, c)
           /\ DetachFails(p, c) => Own(p) /\ DetachFailsMoves(m, n, c)
<1> USE DEF AtWork, At, files, service, bounds
<1>0. /\ m \in Commands /\ reg \in [Client -> Registration] /\ Absent \in Registration
      /\ m.snap \in [Client -> Registration]
      /\ \A d \in Client : m.saved.clients[d] # None => m.saved.clients[d].original \in Registration
  <2>1. m.saved \in Ledgers
    BY DEF Commands
  <2>2. \A d \in Client : m.saved.clients[d] \in {None} \cup Records
    BY <2>1 DEF Ledgers
  <2> QED BY <2>2, IdleTypes DEF MachineTypes, Commands, Records
<1>d. m.pc = c => m.dest \in Release
  BY DEF Client, Course, Early, Forward, Catching, Undoing, Removing, Ends
<1>1. ASSUME ClientInstall(p, c), c \notin m.clients PROVE Own(p) /\ PassMoves(m, n, c)
  <2>1. /\ m.pc = c /\ GoTo(p, AfterClient(c, m)) /\ Same
    BY <1>1 DEF ClientInstall, Same, installation
  <2>2. AfterClient(c, m) \in Pcs
    BY DEF AfterClient, Pcs, Forward
  <2> QED BY <1>1, <2>1, <2>2, GoToNotes DEF PassMoves
<1>2. ASSUME ClientInstall(p, c), c \in m.clients PROVE Own(p) /\ InstallMoves(m, n, c)
  <2>1. /\ m.pc = c
        /\ UNCHANGED <<current, staged, projections, bin, ledger, unit, job, daemon, had, troubled>>
        /\ reg' = [reg EXCEPT ![c] = [market |-> m.dest, on |-> TRUE,
                      table |-> IF Accepts(c, m.snap[c]) THEN Wanted(c, m.snap[c]) ELSE reg[c].table]]
    BY <1>2 DEF ClientInstall
  <2>2. [market |-> m.dest, on |-> TRUE,
         table |-> IF Accepts(c, m.snap[c]) THEN Wanted(c, m.snap[c]) ELSE reg[c].table] \in Registration
    BY <1>0, <1>d, <2>1 DEF Registration, Wanted, Tables
  <2>3. /\ reg' \in [Client -> Registration] /\ reg'[c].market = m.dest /\ reg'[c].on
        /\ \A d \in Client \ {c} : reg'[d] = reg[d]
    BY <1>0, <2>1, <2>2
  <2> QED BY <1>2, <2>1, <2>3, ClientInstallNotes DEF InstallMoves
<1>3. ASSUME ClientInstallFails(p, c) PROVE Own(p) /\ InstallFailsMoves(m, n, c)
  <2>1. /\ m.pc = c /\ c \in m.clients
        /\ UNCHANGED <<current, staged, projections, bin, ledger, unit, job, daemon, had, troubled>>
        /\ reg' \in {reg, [reg EXCEPT ![c].market = m.dest, ![c].on = FALSE]}
    BY <1>3 DEF ClientInstallFails
  <2>2. /\ reg' \in [Client -> Registration] /\ reg'[c].market \in {reg[c].market, m.dest}
        /\ \A d \in Client \ {c} : reg'[d] = reg[d]
    BY <1>0, <1>d, <2>1 DEF Registration
  <2> QED BY <1>3, <2>1, <2>2, InstallFailsNotes DEF InstallFailsMoves
<1>4. ASSUME Restore(p, c) PROVE Own(p) /\ RestoreMoves(m, n, c)
  <2>1. /\ m.pc = (IF c = "claude" THEN "undo_claude" ELSE "undo_codex")
        /\ UNCHANGED <<current, staged, projections, bin, ledger, unit, job, daemon, had>>
        /\ \/ c \notin m.changed /\ reg' = reg /\ troubled' = troubled
           \/ /\ c \in m.changed /\ Restorable(c, m.snap[c]) /\ troubled' = troubled
              /\ reg' = [reg EXCEPT ![c] = m.snap[c]]
           \/ /\ c \in m.changed /\ ~Restorable(c, m.snap[c])
              /\ troubled' = troubled \cup {"recovery"} /\ reg' = reg
    BY <1>4 DEF Restore
  <2>2. reg' \in [Client -> Registration] /\ \A d \in Client \ {c} : reg'[d] = reg[d]
    BY <1>0, <2>1
  <2>3. /\ Own(p) /\ Core(m, n) /\ Served(m, n) /\ Rest(m, n) /\ n.made = m.made
        /\ n.changed = m.changed /\ n.pc = AfterUndo(c, m)
        /\ n.failed = (m.failed \/ (c \in m.changed /\ ~Restorable(c, m.snap[c])))
    BY <1>4, RestoreNotes
  <2>4. CASE c \notin m.changed \/ Restorable(c, m.snap[c])
    <3>1. n.failed = m.failed
      <4>1. m.failed \in BOOLEAN
        BY <1>0 DEF Commands
      <4> QED BY <2>3, <2>4, <4>1
    <3>2. troubled' = troubled /\ reg'[c] = IF c \in m.changed THEN m.snap[c] ELSE reg[c]
      BY <1>0, <2>1, <2>4
    <3> QED BY <2>1, <2>2, <2>3, <3>1, <3>2 DEF RestoreMoves
  <2>5. CASE c \in m.changed /\ ~Restorable(c, m.snap[c])
    <3>1. n.failed
      BY <2>3, <2>5
    <3> QED BY <2>1, <2>2, <2>3, <2>5, <3>1 DEF RestoreMoves
  <2> QED BY <2>4, <2>5
<1>5. ASSUME RestoreFails(p, c) PROVE Own(p) /\ RestoreMoves(m, n, c)
  <2>1. /\ m.pc = (IF c = "claude" THEN "undo_claude" ELSE "undo_codex") /\ c \in m.changed
        /\ UNCHANGED <<current, staged, projections, bin, ledger, unit, job, daemon, had>>
        /\ troubled' = troubled \cup {"recovery"} /\ reg' \in {reg, [reg EXCEPT ![c] = Absent]}
    BY <1>5 DEF RestoreFails
  <2>2. /\ reg' \in [Client -> Registration] /\ reg'[c] \in {reg[c], Absent}
        /\ \A d \in Client \ {c} : reg'[d] = reg[d]
    BY <1>0, <2>1
  <2> QED BY <1>5, <2>1, <2>2, RestoreFailsNotes DEF RestoreMoves
<1>6. ASSUME ClientUninstall(p, c) PROVE Own(p) /\ DetachMoves(m, n, c)
  <2> DEFINE record == IF c \in m.clients THEN m.saved.clients[c] ELSE None
             s == AfterDetach(c, m)
  <2>1. /\ m.pc = DetachPc(c)
        /\ UNCHANGED <<current, staged, projections, bin, ledger, unit, job, daemon, had, troubled>>
        /\ \/ record = None /\ GoTo(p, s) /\ reg' = reg
           \/ record # None /\ reg[c].market # record.root /\ Save(p, Without(m.saved, c), s) /\ reg' = reg
           \/ GoTo(p, "failed") /\ reg' = reg
           \/ /\ record # None /\ Owns(c, record) /\ Save(p, Without(m.saved, c), s)
              /\ reg' = [reg EXCEPT ![c] = record.original]
    BY <1>6 DEF ClientUninstall, Without
  <2>2. s \in Pcs /\ s \in Thens /\ "failed" \in Pcs
    BY DEF AfterDetach, Pcs, Removing, Ends, Thens
  <2>3. Without(m.saved, c) \in Ledgers /\ DropsClient(m.saved, Without(m.saved, c), c)
    BY <1>0, LedgerWithout DEF Commands, DropsClient
  <2>4. CASE record = None /\ GoTo(p, s) /\ reg' = reg
    <3>1. Own(p) /\ Moved(m, n, s)
      BY <2>2, <2>4, GoToNotes
    <3> QED BY <1>0, <2>1, <2>4, <3>1 DEF DetachMoves
  <2>5. CASE GoTo(p, "failed") /\ reg' = reg
    <3>1. Own(p) /\ Moved(m, n, "failed")
      BY <2>2, <2>5, GoToNotes
    <3> QED BY <1>0, <2>1, <2>5, <3>1 DEF DetachMoves
  <2>6. ASSUME Save(p, Without(m.saved, c), s)
        PROVE  Own(p) /\ SaveMoves(m, n, s) /\ DropsClient(m.saved, n.saved, c)
    <3>1. /\ Own(p) /\ Core(m, n) /\ Tried(m, n) /\ Served(m, n)
          /\ n.saved = Without(m.saved, c) /\ n.pc = "save" /\ n.then = s
          /\ n.hurt = m.hurt
      BY <2>2, <2>3, <2>6, SaveNotes
    <3> QED BY <2>3, <3>1 DEF SaveMoves
  <2>7. CASE record # None /\ reg[c].market # record.root /\ Save(p, Without(m.saved, c), s) /\ reg' = reg
    BY <1>0, <2>1, <2>6, <2>7 DEF DetachMoves
  <2>8. CASE /\ record # None /\ Owns(c, record) /\ Save(p, Without(m.saved, c), s)
             /\ reg' = [reg EXCEPT ![c] = record.original]
    <3>1. c \in m.clients /\ record = m.saved.clients[c]
      BY <2>8
    <3>2. /\ reg' \in [Client -> Registration] /\ reg'[c] = m.saved.clients[c].original
          /\ \A d \in Client \ {c} : reg'[d] = reg[d]
      BY <1>0, <2>8, <3>1
    <3> QED BY <2>1, <2>6, <2>8, <3>1, <3>2 DEF DetachMoves
  <2> QED BY <2>1, <2>4, <2>5, <2>7, <2>8
<1>7. ASSUME DetachFails(p, c) PROVE Own(p) /\ DetachFailsMoves(m, n, c)
  <2>1. /\ m.pc = DetachPc(c) /\ GoTo(p, "failed") /\ "failed" \in Pcs
        /\ UNCHANGED <<current, staged, projections, bin, ledger, unit, job, daemon, had>>
        /\ troubled' = troubled \cup {"recovery"} /\ reg' = [reg EXCEPT ![c] = Absent]
    BY <1>7 DEF DetachFails, GoTo, Pcs, Ends
  <2>2. /\ reg' \in [Client -> Registration] /\ reg'[c] = Absent
        /\ \A d \in Client \ {c} : reg'[d] = reg[d]
    BY <1>0, <2>1
  <2> QED BY <2>1, <2>2, GoToNotes DEF DetachFailsMoves
<1> QED
  BY <1>1, <1>2, <1>3, <1>4, <1>5, <1>6, <1>7

LEMMA ServiceEffects ==
    ASSUME NEW p \in Proc, NEW m, NEW n, AtWork(p, m, n)
    PROVE  /\ installService(p) => Own(p) /\ ServiceMoves(m, n)
           /\ unloadService(p) => Own(p) /\ UnloadMoves(m, n)
           /\ UnloadFails(p) => Own(p) /\ UnloadFailsMoves(m, n)
           /\ writeService(p) => Own(p) /\ WriteUnitMoves(m, n)
           /\ loadService(p) => Own(p) /\ LoadMoves(m, n)
           /\ Answered(p) => Own(p) /\ AnswerMoves(m, n)
           /\ StopAgain(p) => Own(p) /\ StopAgainMoves(m, n)
           /\ RestoreUnit(p) => Own(p) /\ RestoreUnitMoves(m, n)
           /\ Reload(p) => Own(p) /\ ReloadMoves(m, n)
           /\ CatchFails(p) => Own(p) /\ CatchFailsMoves(m, n)
<1> USE DEF AtWork, At, files, service, bounds
<1>0. /\ {"unit", "load", "answer", "svc_stop", "svc_reload", "undo"} \subseteq Pcs
      /\ m \in Commands
  BY DEF Pcs, Forward, Catching, Undoing
<1>1. ASSUME installService(p) PROVE Own(p) /\ ServiceMoves(m, n)
  <2>1. m.pc = "service" /\ Same
    BY <1>1 DEF installService, Same, installation
  <2>2. original(m) \in {None} \cup Originals
    <3>1. m.saved \in Ledgers
      BY <1>0 DEF Commands
    <3>2. m.saved.service # None => m.saved.service.original \in {None} \cup Originals
      BY <3>1 DEF Ledgers, Services
    <3>3. unit # None => [unit |-> unit, active |-> job # None] \in Originals
      BY DEF MachineTypes, Units, Originals
    <3>4. m.saved.service # None => original(m) = m.saved.service.original
      BY DEF original
    <3>5. m.saved.service = None /\ unit = None => original(m) = None
      BY DEF original
    <3>6. m.saved.service = None /\ unit # None => original(m) = [unit |-> unit, active |-> job # None]
      BY DEF original
    <3> QED BY <3>2, <3>3, <3>4, <3>5, <3>6
  <2>3. /\ Own(p) /\ Core(m, n) /\ Tried(m, n) /\ Rest(m, n) /\ n.newService = m.newService
        /\ \/ /\ m.saved.service # None /\ unit \notin {None, "homi"}
              /\ n.before = m.before /\ n.record = m.record /\ n.pc = "undo"
           \/ /\ DaemonUnchanged(m)
              /\ n.before = m.before /\ n.record = m.saved.service /\ n.pc = "commit"
           \/ /\ m.saved.service # None => unit \in {None, "homi"}
              /\ n.before = [unit |-> unit, active |-> job # None] /\ n.record = NewRecord(m)
              /\ n.pc = "unload"
    BY <1>1, <2>2, installServiceNotes
  <2>4. CASE n.record = NewRecord(m)
    <3>1. /\ NewRecord(m) \in Services /\ NewRecord(m).original = original(m)
          /\ NewRecord(m).backup = unit /\ NewRecord(m).wasActive = (job # None)
      BY <2>2 DEF NewRecord, Services, MachineTypes
    <3> QED BY <2>1, <2>3, <2>4, <3>1 DEF ServiceMoves, DaemonUnchanged
  <2>5. CASE n.record # NewRecord(m)
    BY <2>1, <2>3, <2>5 DEF ServiceMoves, DaemonUnchanged
  <2> QED BY <2>4, <2>5
<1>2. ASSUME unloadService(p) PROVE Own(p) /\ UnloadMoves(m, n)
  <2>1. Own(p) /\ Moved(m, n, "unit")
    BY <1>0, <1>2, GoToNotes DEF unloadService
  <2> QED BY <1>2, <2>1 DEF unloadService, UnloadMoves
<1>3. ASSUME UnloadFails(p) PROVE Own(p) /\ UnloadFailsMoves(m, n)
  <2>1. /\ m.pc = "unload" /\ UNCHANGED <<current, staged, projections, bin, ledger, unit, reg, had>>
        /\ \/ UNCHANGED <<job, daemon, troubled>>
           \/ /\ job' # job /\ job' = None /\ daemon' = Stopped
              /\ troubled' = troubled \cup {"halfstop"}
    BY <1>3 DEF UnloadFails
  <2>2. /\ Own(p) /\ Core(m, n) /\ Tried(m, n) /\ n.before = m.before /\ n.newService = m.newService
        /\ n.record = None /\ n.saved = m.saved /\ n.then = m.then
        /\ n.hurt = (m.hurt \/ job' # job) /\ n.pc = "undo"
    BY <1>3, UnloadFailsNotes
  <2>3. m.hurt \in BOOLEAN
    BY <1>0 DEF Commands
  <2>4. CASE UNCHANGED <<job, daemon, troubled>>
    <3>1. n.hurt = m.hurt
      BY <2>2, <2>3, <2>4
    <3> QED BY <2>1, <2>2, <2>4, <3>1 DEF UnloadFailsMoves
  <2>5. CASE job' # job
    <3>1. n.hurt
      BY <2>2, <2>5
    <3> QED BY <2>1, <2>2, <2>5, <3>1 DEF UnloadFailsMoves
  <2> QED BY <2>1, <2>4, <2>5
<1>4. ASSUME writeService(p) PROVE Own(p) /\ WriteUnitMoves(m, n)
  <2>1. Own(p) /\ Moved(m, n, "load")
    BY <1>0, <1>4, GoToNotes DEF writeService
  <2> QED BY <1>4, <2>1 DEF writeService, WriteUnitMoves
<1>5. ASSUME loadService(p) PROVE Own(p) /\ LoadMoves(m, n)
  <2>1. CASE unit = None
    <3>1. Own(p) /\ Moved(m, n, "svc_stop")
      BY <1>0, <1>5, <2>1, GoToNotes DEF loadService
    <3> QED BY <1>5, <2>1, <3>1 DEF loadService, LoadMoves
  <2>2. CASE unit # None
    <3>1. Own(p) /\ Moved(m, n, "answer")
      BY <1>0, <1>5, <2>2, GoToNotes DEF loadService
    <3> QED BY <1>5, <2>2, <3>1 DEF loadService, LoadMoves
  <2> QED BY <2>1, <2>2
<1>6. ASSUME Answered(p) PROVE Own(p) /\ AnswerMoves(m, n)
  <2>1. m.pc = "answer" /\ Same
    BY <1>6 DEF Answered, Same, installation
  <2> QED BY <1>6, <2>1, AnsweredNotes DEF AnswerMoves
<1>7. ASSUME StopAgain(p) PROVE Own(p) /\ StopAgainMoves(m, n)
  <2>1. /\ m.pc = "svc_stop" /\ job' = None /\ daemon' = Stopped
        /\ UNCHANGED <<current, staged, projections, bin, ledger, unit, reg, had, troubled>>
    BY <1>7 DEF StopAgain
  <2> QED BY <1>7, <2>1, StopAgainNotes DEF StopAgainMoves
<1>8. ASSUME RestoreUnit(p) PROVE Own(p) /\ RestoreUnitMoves(m, n)
  <2>1. Own(p) /\ Moved(m, n, IF m.before.unit # None /\ m.before.active THEN "svc_reload" ELSE "undo")
    BY <1>0, <1>8, GoToNotes DEF RestoreUnit
  <2> QED BY <1>8, <2>1 DEF RestoreUnit, RestoreUnitMoves
<1>9. ASSUME Reload(p) PROVE Own(p) /\ ReloadMoves(m, n)
  <2>1. Own(p) /\ Moved(m, n, "undo")
    BY <1>0, <1>9, GoToNotes DEF Reload
  <2> QED BY <1>9, <2>1 DEF Reload, ReloadMoves
<1>10. ASSUME CatchFails(p) PROVE Own(p) /\ CatchFailsMoves(m, n)
  <2>1. m.pc \in Catching /\ troubled' = troubled \cup {"recovery"} /\ UNCHANGED installation
    BY <1>10 DEF CatchFails, Catching, installation
  <2> QED BY <1>10, <2>1, CatchFailsNotes DEF CatchFailsMoves
<1> QED
  BY <1>1, <1>2, <1>3, <1>4, <1>5, <1>6, <1>7, <1>8, <1>9, <1>10

LEMMA ActivationEffects ==
    ASSUME NEW p \in Proc, NEW m, NEW n, AtWork(p, m, n)
    PROVE  /\ Commit(p) => Own(p) /\ CommitMoves(m, n)
           /\ Undo(p) => Own(p) /\ UndoMoves(m, n)
           /\ restoreService(p) => Own(p) /\ RestoreServiceMoves(m, n)
           /\ RestoreServiceFails(p) => Own(p) /\ RestoreServiceFailsMoves(m, n)
           /\ removeIntegration(p) => Own(p) /\ UnprojectMoves(m, n)
<1> USE DEF AtWork, At, files, service, bounds
<1>0. {"done", "undo_service", "undo_claude", "failed"} \subseteq Pcs /\ m \in Commands
  BY DEF Pcs, Undoing, Ends
<1>1. ASSUME Commit(p) PROVE Own(p) /\ CommitMoves(m, n)
  <2>1. Own(p) /\ Moved(m, n, "done")
    BY <1>0, <1>1, GoToNotes DEF Commit
  <2>2. m.dest \in Release
    BY <1>1 DEF Commit, Course, Early, Forward, Catching, Undoing, Removing, Ends
  <2>3. Commits(m, ledger')
    BY <1>0, <1>1, <2>2, LedgerCommitted DEF Commit
  <2> QED BY <1>1, <2>1, <2>3 DEF Commit, CommitMoves
<1>2. ASSUME Undo(p) PROVE Own(p) /\ UndoMoves(m, n)
  <2>1. Own(p) /\ Moved(m, n, IF m.op = "setup" /\ m.newService THEN "undo_service" ELSE "undo_claude")
    BY <1>0, <1>2, GoToNotes DEF Undo
  <2> QED BY <1>2, <2>1 DEF Undo, UndoMoves
<1>3. ASSUME restoreService(p) PROVE Own(p) /\ RestoreServiceMoves(m, n)
  <2>1. Own(p) /\ Moved(m, n, "undo_claude")
    BY <1>0, <1>3, GoToNotes DEF restoreService
  <2> QED BY <1>3, <2>1 DEF restoreService, RestoreServiceMoves
<1>4. ASSUME RestoreServiceFails(p) PROVE Own(p) /\ RestoreServiceFailsMoves(m, n)
  <2>1. /\ m.pc = "undo_service" /\ troubled' = troubled \cup {"recovery"} /\ UNCHANGED installation
    BY <1>4 DEF RestoreServiceFails, installation
  <2> QED BY <1>4, <2>1, GivesUpNotes DEF RestoreServiceFailsMoves
<1>5. ASSUME removeIntegration(p) PROVE Own(p) /\ UnprojectMoves(m, n)
  <2>1. Own(p) /\ Moved(m, n, "failed")
    BY <1>0, <1>5, GoToNotes DEF removeIntegration
  <2> QED BY <1>5, <2>1 DEF removeIntegration, UnprojectMoves
<1> QED
  BY <1>1, <1>2, <1>3, <1>4, <1>5

LEMMA UninstallEffects ==
    ASSUME NEW p \in Proc, NEW m, NEW n, AtWork(p, m, n)
    PROVE  /\ WriteLedger(p) => Own(p) /\ WriteLedgerMoves(m, n)
           /\ BeginUninstall(p) => Own(p) /\ BeginUninstallMoves(m, n)
           /\ uninstallService(p) => Own(p) /\ StopMoves(m, n)
           /\ DropUnit(p) => Own(p) /\ DropUnitMoves(m, n)
           /\ DropUnitFails(p) => Own(p) /\ DropUnitFailsMoves(m, n)
           /\ DetachRest(p) => Own(p) /\ DetachRestMoves(m, n)
           /\ RecordDetached(p) => Own(p) /\ RecordMoves(m, n)
           /\ Purge(p) => Own(p) /\ PurgeMoves(m, n)
           /\ Erase(p) => Own(p) /\ EraseMoves(m, n)
           /\ Fails(p) => Own(p) /\ ThrowMoves(m, n)
<1> USE DEF AtWork, At, files, service, bounds
<1>0. /\ {"failed", "detach_rest", "erase", "undo", "svc_stop"} \subseteq Pcs
      /\ {"detach_rest", "purge", "done"} \subseteq Thens
      /\ m \in Commands /\ m.saved \in Ledgers
  BY DEF Pcs, Catching, Undoing, Removing, Ends, Thens, Commands
<1>1. ASSUME WriteLedger(p) PROVE Own(p) /\ WriteLedgerMoves(m, n)
  <2>1. m.then \in Pcs
    BY <1>0 DEF Commands, Thens, Pcs, Removing, Ends
  <2>2. Own(p) /\ Moved(m, n, m.then)
    BY <1>1, <2>1, GoToNotes DEF WriteLedger
  <2> QED BY <1>1, <2>2 DEF WriteLedger, WriteLedgerMoves
<1>2. ASSUME BeginUninstall(p) PROVE Own(p) /\ BeginUninstallMoves(m, n)
  <2>1. m.pc = "locked" /\ m.op = "uninstall" /\ Same
    BY <1>2 DEF BeginUninstall, Same, installation
  <2> QED BY <1>2, <2>1, BeginUninstallNotes DEF BeginUninstallMoves
<1>3. ASSUME uninstallService(p) PROVE Own(p) /\ StopMoves(m, n)
  <2>1. /\ m.pc = "detach_service"
        /\ UNCHANGED <<current, staged, projections, bin, ledger, unit, reg, had, troubled>>
    BY <1>3 DEF uninstallService
  <2>2. CASE m.saved.service = None \/ unit \notin {None, "homi"}
    <3>1. GoTo(p, "detach_rest") /\ UNCHANGED <<job, daemon>>
      BY <1>3, <2>2 DEF uninstallService
    <3>2. Own(p) /\ Moved(m, n, "detach_rest")
      BY <1>0, <3>1, GoToNotes
    <3> QED BY <2>1, <2>2, <3>1, <3>2 DEF StopMoves
  <2>3. CASE m.saved.service # None /\ unit \in {None, "homi"}
    <3>1. job' = None /\ daemon' = Stopped
      BY <1>3, <2>3 DEF uninstallService
    <3> QED BY <1>3, <2>1, <2>3, <3>1, StopsNotes DEF StopMoves
  <2> QED BY <2>2, <2>3
<1>4. ASSUME DropUnit(p) PROVE Own(p) /\ DropUnitMoves(m, n)
  <2>1. Save(p, Unserviced(m.saved), "detach_rest")
    BY <1>4 DEF DropUnit, Unserviced
  <2>2. Unserviced(m.saved) \in Ledgers /\ DropsService(m.saved, Unserviced(m.saved))
    BY <1>0, LedgerUnserviced DEF DropsService
  <2>3. /\ Own(p) /\ SaveMoves(m, n, "detach_rest") /\ n.saved = Unserviced(m.saved)
    BY <1>0, <2>1, <2>2, SaveNotes DEF SaveMoves
  <2> QED BY <1>4, <2>2, <2>3 DEF DropUnit, DropUnitMoves
<1>5. ASSUME DropUnitFails(p) PROVE Own(p) /\ DropUnitFailsMoves(m, n)
  <2>1. Own(p) /\ Moved(m, n, "failed")
    BY <1>0, <1>5, GoToNotes DEF DropUnitFails
  <2> QED BY <1>5, <2>1 DEF DropUnitFails, DropUnitFailsMoves
<1>6. ASSUME DetachRest(p) PROVE Own(p) /\ DetachRestMoves(m, n)
  <2>1. /\ m.pc = "detach_rest" /\ bin' = (IF bin = "ours" /\ m.saved.links THEN "none" ELSE bin)
        /\ projections' = projections \ Unreferenced(m.saved)
        /\ UNCHANGED <<current, staged, ledger, unit, job, daemon, reg, had, troubled>>
    BY <1>6 DEF DetachRest, Unreferenced
  <2>2. DropsLinks(m.saved, Unlinked(m.saved, Unreferenced(m.saved)), Unreferenced(m.saved))
    BY <1>0, LedgerUnlinked
  <2> QED BY <1>6, <2>1, <2>2, DetachRestNotes DEF DetachRestMoves
<1>7. ASSUME RecordDetached(p) PROVE Own(p) /\ RecordMoves(m, n)
  <2>1. m.pc = "record" /\ Same /\ Save(p, m.saved, IF m.purge THEN "purge" ELSE "done")
    BY <1>7 DEF RecordDetached, Same, installation
  <2>2. /\ Own(p) /\ SaveMoves(m, n, IF m.purge THEN "purge" ELSE "done") /\ n.saved = m.saved
    BY <1>0, <2>1, SaveNotes DEF SaveMoves
  <2> QED BY <2>1, <2>2 DEF RecordMoves
<1>8. ASSUME Purge(p) PROVE Own(p) /\ PurgeMoves(m, n)
  <2>1. CASE MayPurge(m.saved)
    <3>1. Own(p) /\ Moved(m, n, "erase")
      BY <1>0, <1>8, <2>1, GoToNotes DEF Purge
    <3> QED BY <1>8, <2>1, <3>1 DEF Purge, PurgeMoves
  <2>2. CASE ~MayPurge(m.saved)
    <3>1. Own(p) /\ Moved(m, n, "failed")
      BY <1>0, <1>8, <2>2, GoToNotes DEF Purge
    <3> QED BY <1>8, <2>2, <3>1 DEF Purge, PurgeMoves
  <2> QED BY <2>1, <2>2
<1>9. ASSUME Erase(p) PROVE Own(p) /\ EraseMoves(m, n)
  <2>1. /\ m.pc = "erase"
        /\ UNCHANGED <<current, projections, bin, ledger, unit, job, daemon, reg, had, troubled>>
    BY <1>9 DEF Erase
  <2>2. CASE m.saved.releases \cap staged = {}
    <3>1. Save(p, Emptied(m.saved), "done") /\ staged' = staged
      BY <1>9, <2>2 DEF Erase, Emptied
    <3>2. Emptied(m.saved) \in Ledgers /\ Empties(m.saved, Emptied(m.saved))
      BY <1>0, LedgerEmptied DEF Empties
    <3>3. Own(p) /\ SaveMoves(m, n, "done") /\ n.saved = Emptied(m.saved)
      BY <1>0, <3>1, <3>2, SaveNotes DEF SaveMoves
    <3> QED BY <2>1, <3>1, <3>2, <3>3 DEF EraseMoves
  <2>3. CASE m.saved.releases \cap staged # {}
    <3>1. me' = me /\ \E r \in m.saved.releases : staged' = staged \ {r}
      BY <1>9, <2>3 DEF Erase
    <3> QED BY <2>1, <3>1 DEF EraseMoves, Own
  <2> QED BY <2>2, <2>3
<1>10. ASSUME Fails(p) PROVE Own(p) /\ ThrowMoves(m, n)
  <2>1. /\ m.pc \in ThrowPcs /\ GoTo(p, Throw(p)) /\ UNCHANGED installation
        /\ troubled' = IF m.pc = "erase" \/ (m.pc = "save" /\ m.then = "done")
                       THEN troubled \cup {"recovery"} ELSE troubled
    BY <1>10 DEF Fails, ThrowPcs, installation
  <2>2. Throw(p) = IF m.pc \in {"bins", "service", "commit"} THEN "undo"
                   ELSE IF m.pc \in {"unit", "load", "answer"} THEN "svc_stop" ELSE "failed"
    BY <2>1 DEF Throw, ThrowPcs
  <2>3. Own(p) /\ Moved(m, n, Throw(p))
    BY <1>0, <2>1, <2>2, GoToNotes
  <2> QED BY <2>1, <2>2, <2>3 DEF ThrowMoves
<1> QED
  BY <1>1, <1>2, <1>3, <1>4, <1>5, <1>6, <1>7, <1>8, <1>9, <1>10

-----------------------------------------------------------------------------
(* A step of the specification is a move of the command at work, or of     *)
(* what is between two commands.                                           *)

Working(p) == \* the steps of a command that holds the lock
    \/ Preflight(p) \/ stabilize(p) \/ OwnRelease(p) \/ buildIntegration(p)
    \/ OwnProjection(p) \/ switchCurrent(p) \/ Bins(p)
    \/ \E c \in Client : \/ ClientInstall(p, c) \/ ClientInstallFails(p, c)
                         \/ Restore(p, c) \/ RestoreFails(p, c)
                         \/ ClientUninstall(p, c) \/ DetachFails(p, c)
    \/ installService(p) \/ unloadService(p) \/ UnloadFails(p) \/ writeService(p)
    \/ loadService(p) \/ Answered(p) \/ StopAgain(p) \/ RestoreUnit(p) \/ Reload(p)
    \/ CatchFails(p) \/ Commit(p) \/ Undo(p) \/ restoreService(p) \/ RestoreServiceFails(p)
    \/ removeIntegration(p) \/ WriteLedger(p) \/ BeginUninstall(p) \/ uninstallService(p)
    \/ DropUnit(p) \/ DropUnitFails(p) \/ DetachRest(p) \/ RecordDetached(p) \/ Purge(p)
    \/ Erase(p) \/ Fails(p)

LEMMA WorkingMoves ==
    ASSUME NEW p \in Proc, NEW m, NEW n, AtWork(p, m, n), Working(p)
    PROVE  Own(p) /\ Works(m, n)
<1>1. CASE \/ Preflight(p) \/ stabilize(p) \/ OwnRelease(p) \/ buildIntegration(p)
           \/ OwnProjection(p) \/ switchCurrent(p) \/ Bins(p)
  BY <1>1, FirstMoves DEF Works
<1>2. ASSUME NEW c \in Client,
             \/ ClientInstall(p, c) \/ ClientInstallFails(p, c) \/ Restore(p, c)
             \/ RestoreFails(p, c) \/ ClientUninstall(p, c) \/ DetachFails(p, c)
      PROVE  Own(p) /\ Works(m, n)
  <2>1. /\ Own(p)
        /\ \/ PassMoves(m, n, c) \/ InstallMoves(m, n, c) \/ InstallFailsMoves(m, n, c)
           \/ RestoreMoves(m, n, c) \/ DetachMoves(m, n, c) \/ DetachFailsMoves(m, n, c)
    BY <1>2, ClientMoves
  <2> QED BY <2>1 DEF Works
<1>3. CASE \/ installService(p) \/ unloadService(p) \/ UnloadFails(p) \/ writeService(p)
           \/ loadService(p) \/ Answered(p) \/ StopAgain(p) \/ RestoreUnit(p) \/ Reload(p)
           \/ CatchFails(p)
  BY <1>3, ServiceEffects DEF Works
<1>4. CASE \/ Commit(p) \/ Undo(p) \/ restoreService(p) \/ RestoreServiceFails(p)
           \/ removeIntegration(p)
  BY <1>4, ActivationEffects DEF Works
<1>5. CASE \/ WriteLedger(p) \/ BeginUninstall(p) \/ uninstallService(p)
           \/ DropUnit(p) \/ DropUnitFails(p) \/ DetachRest(p) \/ RecordDetached(p) \/ Purge(p)
           \/ Erase(p) \/ Fails(p)
  BY <1>5, UninstallEffects DEF Works
<1> QED
  BY <1>1, <1>2, <1>3, <1>4, <1>5 DEF Working

\* A command works inside the lock, and nothing it does there moves the lock.
LEMMA WorkingInside ==
    ASSUME NEW p \in Proc, Working(p), left \in 0..MaxEvents
    PROVE  at[p] = "in" /\ UNCHANGED lockVars /\ left' \in 0..MaxEvents
<1> USE SetupAssumption DEF At, bounds
<1>1. CASE \/ Preflight(p) \/ stabilize(p) \/ OwnRelease(p) \/ buildIntegration(p)
           \/ OwnProjection(p) \/ switchCurrent(p) \/ Bins(p)
  BY <1>1 DEF Preflight, stabilize, OwnRelease, buildIntegration, OwnProjection, switchCurrent, Bins
<1>2. CASE \E c \in Client : \/ ClientInstall(p, c) \/ ClientInstallFails(p, c) \/ Restore(p, c)
                             \/ RestoreFails(p, c) \/ ClientUninstall(p, c) \/ DetachFails(p, c)
  BY <1>2 DEF ClientInstall, ClientInstallFails, Restore, RestoreFails, ClientUninstall, DetachFails
<1>3. CASE \/ installService(p) \/ unloadService(p) \/ UnloadFails(p) \/ writeService(p)
           \/ loadService(p) \/ Answered(p) \/ StopAgain(p) \/ RestoreUnit(p) \/ Reload(p)
           \/ CatchFails(p)
  BY <1>3 DEF installService, unloadService, UnloadFails, writeService, loadService, Answered,
              StopAgain, RestoreUnit, Reload, CatchFails
<1>4. CASE \/ Commit(p) \/ Undo(p) \/ restoreService(p) \/ RestoreServiceFails(p)
           \/ removeIntegration(p)
  BY <1>4 DEF Commit, Undo, restoreService, RestoreServiceFails, removeIntegration
<1>5. CASE WriteLedger(p) \/ BeginUninstall(p) \/ uninstallService(p) \/ DropUnit(p)
  BY <1>5 DEF WriteLedger, BeginUninstall, uninstallService, DropUnit
<1>6. CASE DropUnitFails(p) \/ RecordDetached(p)
  BY <1>6 DEF DropUnitFails, RecordDetached
<1>7. CASE DetachRest(p)
  BY <1>7 DEF DetachRest
<1>8. CASE Purge(p) \/ Erase(p) \/ Fails(p)
  BY <1>8 DEF Purge, Erase, Fails
<1> QED
  BY <1>1, <1>2, <1>3, <1>4, <1>5, <1>6, <1>7, <1>8 DEF Working

\* What every state satisfies whatever the operator does.
SetupTypes == LockInv /\ CommandTypes /\ MachineTypes /\ left \in 0..MaxEvents

LEMMA Placing ==
    ASSUME CommandTypes, NEW p \in Proc, Own(p), Placed(p)', \A q \in Proc \ {p} : at'[q] = at[q]
    PROVE  CommandTypes'
<1>1. ASSUME NEW q \in Proc PROVE Placed(q)'
  <2>1. CASE q = p
    BY <2>1
  <2>2. CASE q # p
    <3>1. at'[q] = at[q] /\ me'[q] = me[q] /\ Placed(q)
      BY <2>2 DEF Own, CommandTypes
    <3> QED BY <3>1 DEF Placed
  <2> QED BY <2>1, <2>2
<1> QED
  BY <1>1 DEF CommandTypes, Own

LEMMA MachineRests ==
    ASSUME MachineTypes, UNCHANGED installation,
           troubled' \subseteq troubled \cup {"kill", "recovery", "stale", "halfstop"}
    PROVE  MachineTypes'
  BY DEF MachineTypes, installation

LEMMA WorkingTypes ==
    ASSUME SetupTypes, NEW p \in Proc, Working(p)
    PROVE  /\ CommandTypes' /\ MachineTypes' /\ left' \in 0..MaxEvents /\ at' = at
           /\ at[p] = "in" /\ Works(me[p], me'[p])
<1>1. at[p] = "in" /\ UNCHANGED lockVars /\ left' \in 0..MaxEvents
  BY WorkingInside DEF SetupTypes
<1>2. Course(me[p]) /\ me[p] \in Commands /\ me[p].op # "none"
  BY <1>1 DEF SetupTypes, CommandTypes, Placed
<1>3. AtWork(p, me[p], me'[p])
  BY <1>2 DEF AtWork, SetupTypes, CommandTypes
<1>4. Own(p) /\ Works(me[p], me'[p])
  BY <1>3, WorkingMoves
<1>5. me'[p] \in Commands
  BY <1>4 DEF Own
<1>6. MachineTypes'
  BY <1>2, <1>4, <1>5, MachineTypesStep DEF Moves, SetupTypes
<1>7. Course(me'[p]) /\ me'[p].op = me[p].op /\ me'[p].pc # "none"
  BY <1>2, <1>4, <1>5, CourseStep
<1>8. at' = at
  BY <1>1 DEF lockVars
<1>9. Placed(p)'
  BY <1>1, <1>2, <1>7, <1>8 DEF Placed
<1> QED
  BY <1>1, <1>4, <1>6, <1>8, <1>9, Placing DEF SetupTypes

LEMMA LockTypes ==
    ASSUME LockInv, NEW p \in Proc
    PROVE  /\ at \in [Proc -> {"new", "made", "in", "leave", "gone", "dead"}]
           /\ at[p] \in {"new", "made", "in", "leave", "gone", "dead"}
           /\ (at[p] \in Live <=> at[p] \in {"made", "in", "leave"})
  BY DEF LockInv, LockTypeOK, Live

LEMMA AskTypes ==
    ASSUME SetupTypes, NEW p \in Proc, AskSetup(p) \/ AskUninstall(p)
    PROVE  /\ CommandTypes' /\ MachineTypes' /\ left' \in 0..MaxEvents
           /\ Make(p) /\ UNCHANGED <<installation, troubled>>
           /\ me'[p].op \in {"setup", "uninstall"} /\ me'[p].pc = "locked"
<1>1. PICK op \in {"setup", "uninstall"}, dest \in Release \cup {None}, cs \in SUBSET Client,
           svc \in BOOLEAN, purge \in BOOLEAN :
        Ask(p, op, dest, cs, svc, purge) /\ (op = "setup" => dest \in Release)
  <2>1. CASE AskSetup(p)
    <3>1. PICK r \in Release, cs \in Selections, svc \in BOOLEAN : Ask(p, "setup", r, cs, svc, FALSE)
      BY <2>1 DEF AskSetup
    <3>2. cs \in SUBSET Client
      BY SetupAssumption DEF Client
    <3> QED BY <3>1, <3>2
  <2>2. CASE AskUninstall(p)
    <3>1. \A c \in Client : {c} \in SUBSET Client
      OBVIOUS
    <3> QED BY <2>2, <3>1 DEF AskUninstall
  <2> QED BY <2>1, <2>2
<1> DEFINE n == Asked(op, dest, cs, svc, purge)
<1>2. /\ me' = [me EXCEPT ![p] = n] /\ Make(p) /\ UNCHANGED <<installation, troubled>>
      /\ left' \in 0..MaxEvents
  BY <1>1, SetupAssumption DEF Ask, Asked, files, service, installation, SetupTypes
<1>3. n \in Commands /\ Course(n) /\ n.op = op /\ n.pc = "locked"
  BY <1>1, AskedTypes
<1> HIDE DEF n
<1>4. Own(p) /\ me'[p] = n
  BY <1>2, <1>3, Writes DEF SetupTypes, CommandTypes
<1>5. at' = [at EXCEPT ![p] = "made"] /\ at'[p] = "made"
  BY <1>2, LockTypes DEF Make, SetupTypes
<1>6. Placed(p)'
  BY <1>3, <1>4, <1>5 DEF Placed
<1>7. CommandTypes'
  BY <1>4, <1>5, <1>6, Placing, LockTypes DEF SetupTypes
<1>8. MachineTypes'
  BY <1>2, MachineRests DEF SetupTypes
<1> QED
  BY <1>2, <1>3, <1>4, <1>7, <1>8

LEMMA ReadRollbackTypes ==
    ASSUME SetupTypes, NEW p \in Proc, ReadRollback(p)
    PROVE  /\ CommandTypes' /\ MachineTypes' /\ left' \in 0..MaxEvents /\ Own(p)
           /\ at[p] = "new" /\ UNCHANGED <<lockVars, installation, troubled>>
<1> DEFINE n == Reading(ledger.previous, ledger)
<1>1. /\ me' = [me EXCEPT ![p] = n] /\ at[p] = "new" /\ UNCHANGED <<lockVars, installation, troubled>>
      /\ left' \in 0..MaxEvents /\ ledger.previous # None
  BY SetupAssumption DEF ReadRollback, Reading, files, service, installation, SetupTypes
<1>2. ledger \in Ledgers /\ ledger.previous \in Release
  BY <1>1 DEF SetupTypes, MachineTypes, Ledgers
<1>3. n \in Commands /\ Course(n) /\ n.op = "rollback" /\ n.pc = "none"
  BY <1>2, ReadTypes
<1> HIDE DEF n
<1>4. Own(p) /\ me'[p] = n
  BY <1>1, <1>3, Writes DEF SetupTypes, CommandTypes
<1>5. at' = at /\ Placed(p)'
  BY <1>1, <1>3, <1>4 DEF Placed, lockVars
<1>6. CommandTypes'
  BY <1>4, <1>5, Placing DEF SetupTypes
<1>7. MachineTypes'
  BY <1>1, MachineRests DEF SetupTypes
<1> QED
  BY <1>1, <1>4, <1>6, <1>7

LEMMA AskRollbackTypes ==
    ASSUME SetupTypes, NEW p \in Proc, AskRollback(p)
    PROVE  /\ CommandTypes' /\ MachineTypes' /\ left' \in 0..MaxEvents
           /\ Make(p) /\ UNCHANGED installation
           /\ me'[p].op = "rollback" /\ me'[p].pc = "locked"
           /\ troubled' = IF me'[p].saved # ledger THEN troubled \cup {"stale"} ELSE troubled
<1>1. /\ me[p].op = "rollback" /\ Make(p) /\ GoTo(p, "locked") /\ UNCHANGED <<installation, left>>
      /\ troubled' = IF me[p].saved # ledger THEN troubled \cup {"stale"} ELSE troubled
  BY DEF AskRollback, files, service, installation
<1>2. Own(p) /\ Moved(me[p], me'[p], "locked")
  BY <1>1, GoToNotes DEF SetupTypes, CommandTypes, Pcs
<1>3. at[p] = "new" /\ at' = [at EXCEPT ![p] = "made"] /\ at'[p] = "made"
  BY <1>1, LockTypes DEF Make, SetupTypes
<1>4. Course(me[p]) /\ me[p].pc = "none"
  BY <1>3 DEF SetupTypes, CommandTypes, Placed
<1>5. Course(me'[p]) /\ me'[p].op = "rollback" /\ me'[p].pc = "locked" /\ me'[p].saved = me[p].saved
  BY <1>1, <1>2, <1>4 DEF Course, Moved, Core, Tried, Served, Rest, Thens, Early, Forward,
                          Catching, Undoing, Removing, Ends
<1>6. Placed(p)'
  BY <1>3, <1>5 DEF Placed
<1>7. CommandTypes'
  BY <1>2, <1>3, <1>6, Placing, LockTypes DEF SetupTypes
<1>8. MachineTypes'
  BY <1>1, MachineRests DEF SetupTypes
<1>9. left' \in 0..MaxEvents
  BY <1>1 DEF SetupTypes
<1> QED
  BY <1>1, <1>5, <1>7, <1>8, <1>9

LEMMA EnterTypes ==
    ASSUME SetupTypes, NEW p \in Proc, Enter(p) \/ (End(p) /\ Finish(p))
    PROVE  /\ CommandTypes' /\ MachineTypes' /\ left' \in 0..MaxEvents /\ me' = me
           /\ at[p] \in Live /\ at'[p] \in Live /\ UNCHANGED <<installation, troubled>>
           /\ \A q \in Proc \ {p} : at'[q] = at[q]
<1>1. CASE Enter(p)
  <2>1. /\ me' = me /\ UNCHANGED <<installation, troubled, left>> /\ at[p] = "made"
        /\ at' = [at EXCEPT ![p] = "in"]
    BY <1>1 DEF Enter, Record, files, service, bounds, installation
  <2>2. at'[p] = "in" /\ \A q \in Proc \ {p} : at'[q] = at[q]
    BY <2>1, LockTypes DEF SetupTypes
  <2>3. Placed(p)'
    BY <2>1, <2>2 DEF Placed, SetupTypes, CommandTypes
  <2>4. Own(p)
    BY <2>1 DEF Own, SetupTypes, CommandTypes
  <2> QED BY <2>1, <2>2, <2>3, <2>4, Placing, MachineRests DEF SetupTypes, Live
<1>2. CASE End(p) /\ Finish(p)
  <2>1. at[p] = "in" /\ at' = [at EXCEPT ![p] = "leave"]
    BY <1>2 DEF Finish
  <2>2. me' = me /\ UNCHANGED <<installation, troubled, left>> /\ me[p].pc \in Ends
    BY <1>2, <2>1 DEF End, Leave, files, service, bounds, installation, Ends
  <2>3. at'[p] = "leave" /\ \A q \in Proc \ {p} : at'[q] = at[q]
    BY <2>1, LockTypes DEF SetupTypes
  <2>4. Placed(p)'
    BY <2>1, <2>2, <2>3 DEF Placed, SetupTypes, CommandTypes
  <2>5. Own(p)
    BY <2>2 DEF Own, SetupTypes, CommandTypes
  <2> QED BY <2>1, <2>2, <2>3, <2>4, <2>5, Placing, MachineRests DEF SetupTypes, Live
<1> QED BY <1>1, <1>2

\* A process that gives up, leaves or is killed forgets its command.
LEMMA ForgetTypes ==
    ASSUME SetupTypes, NEW p \in Proc, GiveUp(p) \/ (End(p) /\ Leave(p)) \/ Kill(p)
    PROVE  /\ CommandTypes' /\ MachineTypes' /\ left' \in 0..MaxEvents /\ Own(p) /\ me'[p] = Idle
           /\ UNCHANGED installation /\ \A q \in Proc \ {p} : at'[q] = at[q]
           /\ \/ at[p] = "new" /\ at'[p] = "gone" /\ troubled' = troubled
              \/ at[p] = "made" /\ at'[p] = "leave" /\ troubled' = troubled
              \/ at[p] = "leave" /\ at'[p] = "gone" /\ troubled' = troubled
              \/ at[p] \in Live /\ at'[p] = "dead" /\ troubled' = troubled \cup {"kill"}
<1>1. /\ me' = [me EXCEPT ![p] = Idle] /\ UNCHANGED installation /\ left' \in 0..MaxEvents
      /\ \/ at[p] = "new" /\ at' = [at EXCEPT ![p] = "gone"] /\ troubled' = troubled
         \/ at[p] = "made" /\ at' = [at EXCEPT ![p] = "leave"] /\ troubled' = troubled
         \/ at[p] = "leave" /\ at' = [at EXCEPT ![p] = "gone"] /\ troubled' = troubled
         \/ at[p] \in Live /\ at' = [at EXCEPT ![p] = "dead"] /\ troubled' = troubled \cup {"kill"}
  <2>1. CASE GiveUp(p)
    BY <2>1, SetupAssumption DEF GiveUp, Refuse, RecordFails, SetupTypes, files, service,
       installation
  <2>2. CASE End(p) /\ Leave(p)
    BY <2>2 DEF End, Leave, Finish, SetupTypes, files, service, bounds, installation
  <2>3. CASE Kill(p)
    BY <2>3, SetupAssumption DEF Kill, Die, SetupTypes, files, service, installation
  <2> QED BY <2>1, <2>2, <2>3
<1>2. Own(p) /\ me'[p] = Idle
  BY <1>1, IdleTypes, Writes DEF SetupTypes, CommandTypes
<1>3. at'[p] \in {"gone", "leave", "dead"} /\ \A q \in Proc \ {p} : at'[q] = at[q]
  BY <1>1, LockTypes DEF SetupTypes
<1>4. Placed(p)'
  BY <1>2, <1>3, IdleCourse DEF Placed
<1>5. CommandTypes'
  BY <1>2, <1>3, <1>4, Placing DEF SetupTypes
<1>6. MachineTypes'
  BY <1>1, MachineRests DEF SetupTypes
<1>7. \/ at[p] = "new" /\ at'[p] = "gone" /\ troubled' = troubled
      \/ at[p] = "made" /\ at'[p] = "leave" /\ troubled' = troubled
      \/ at[p] = "leave" /\ at'[p] = "gone" /\ troubled' = troubled
      \/ at[p] \in Live /\ at'[p] = "dead" /\ troubled' = troubled \cup {"kill"}
  BY <1>1, LockTypes DEF SetupTypes
<1> QED
  BY <1>1, <1>2, <1>3, <1>5, <1>6, <1>7

Outer == Edit \/ DaemonDies \/ Autostart \* what is not a command's doing

LEMMA HurtNotes ==
    ASSUME CommandTypes, me' = Hurt(me)
    PROVE  me' \in [Proc -> Commands] /\ \A q \in Proc : HurtMoves(me[q], me'[q])
<1>1. ASSUME NEW q \in Proc PROVE me'[q] \in Commands /\ HurtMoves(me[q], me'[q])
  <2> DEFINE h == me[q].hurt \/ me[q].op # "none"
  <2>1. me'[q] = Hurting(me[q], h)
    BY DEF Hurt, Hurting
  <2>2. h \in BOOLEAN /\ me[q] \in Commands /\ Course(me[q])
    BY DEF CommandTypes, Placed
  <2>3. h <=> me[q].hurt \/ me[q].op # "none"
    OBVIOUS
  <2> HIDE DEF h
  <2>4. /\ me'[q] \in Commands /\ Core(me[q], me'[q]) /\ Tried(me[q], me'[q]) /\ Served(me[q], me'[q])
        /\ me'[q].saved = me[q].saved /\ me'[q].then = me[q].then /\ me'[q].hurt = h
        /\ me'[q].pc = me[q].pc
    BY <2>1, <2>2, NoteHurt
  <2>5. me[q].op = "none" => me'[q] = me[q]
    <3> HAVE me[q].op = "none"
    <3>1. me[q] = Idle
      BY <2>2 DEF Course
    <3>2. ~h
      BY <2>3, <3>1 DEF Idle
    <3>3. me[q].hurt = h
      <4>1. me[q].hurt = FALSE
        BY <3>1 DEF Idle
      <4>2. h = FALSE
        BY <2>2, <3>2
      <4> QED BY <4>1, <4>2
    <3> QED BY <2>1, <2>2, <3>3 DEF Commands, Hurting
  <2> QED BY <2>3, <2>4, <2>5 DEF HurtMoves
<1> QED
  BY <1>1 DEF Hurt

LEMMA OuterMoves ==
    ASSUME SetupTypes, Outer
    PROVE  /\ me' = Hurt(me) /\ at' = at /\ left' \in 0..MaxEvents
           /\ \A m, n : HurtMoves(m, n) => Outside(m, n)
<1>0. reg \in [Client -> Registration]
  BY DEF SetupTypes, MachineTypes
<1>1. CASE Edit
  <2>1. /\ me' = Hurt(me) /\ at' = at /\ left' \in 0..MaxEvents
        /\ UNCHANGED <<current, staged, projections, ledger, job, daemon, had, troubled>>
    BY <1>1, SetupAssumption DEF Edit, SetupTypes, lockVars
  <2>2. \/ /\ UNCHANGED <<unit, bin>> /\ reg' \in [Client -> Registration]
           /\ \E c \in Client : /\ reg[c].market \in Release /\ \A d \in Client \ {c} : reg'[d] = reg[d]
                              /\ reg'[c].market \in {reg[c].market, "user"}
        \/ unit = "homi" /\ unit' \in {None, "edited"} /\ UNCHANGED <<reg, bin>>
        \/ bin = "ours" /\ bin' = "user" /\ UNCHANGED <<reg, unit>>
    <3>1. ASSUME NEW c \in Client, reg[c].market \in Release, UNCHANGED <<unit, bin>>,
                 reg' \in {[reg EXCEPT ![c] = UsersOwn(c)], [reg EXCEPT ![c].on = FALSE],
                           [reg EXCEPT ![c].table = IF c = "codex" THEN "edited" ELSE @]}
          PROVE  /\ reg' \in [Client -> Registration]
                 /\ \A d \in Client \ {c} : reg'[d] = reg[d]
                 /\ reg'[c].market \in {reg[c].market, "user"}
      <4>1. CASE reg' = [reg EXCEPT ![c] = UsersOwn(c)]
        <5>1. UsersOwn(c) \in Registration /\ UsersOwn(c).market = "user"
          BY DEF UsersOwn, Registration, Tables
        <5> QED BY <1>0, <4>1, <5>1
      <4>2. CASE reg' = [reg EXCEPT ![c].on = FALSE]
        BY <1>0, <4>2 DEF Registration
      <4>3. CASE reg' = [reg EXCEPT ![c].table = IF c = "codex" THEN "edited" ELSE @]
        <5>1. (IF c = "codex" THEN "edited" ELSE reg[c].table) \in Tables
          BY <1>0 DEF Registration, Tables
        <5> QED BY <1>0, <4>3, <5>1 DEF Registration
      <4> QED BY <3>1, <4>1, <4>2, <4>3
    <3> QED BY <1>0, <1>1, <3>1 DEF Edit
  <2>3. reg' \in [Client -> Registration]
    BY <1>0, <2>2
  <2> QED BY <2>1, <2>2, <2>3 DEF Outside, EditMoves
<1>2. CASE DaemonDies
  BY <1>2, SetupAssumption DEF DaemonDies, Outside, DaemonDiesMoves, files, SetupTypes, lockVars
<1>3. CASE Autostart
  <2>1. \E r \in Release : daemon' = [src |-> r, managed |-> FALSE]
    BY <1>3 DEF Autostart, SetupTypes, MachineTypes
  <2>2. /\ me' = Hurt(me) /\ at' = at /\ left' \in 0..MaxEvents
        /\ UNCHANGED <<current, staged, projections, bin, ledger, unit, job, reg, had, troubled>>
    BY <1>3, SetupAssumption DEF Autostart, files, SetupTypes, lockVars
  <2> QED
    BY <2>1, <2>2 DEF Outside, AutostartMoves
<1> QED
  BY <1>1, <1>2, <1>3 DEF Outer

LEMMA OuterTypes ==
    ASSUME SetupTypes, Outer
    PROVE  CommandTypes' /\ MachineTypes' /\ left' \in 0..MaxEvents
<1>1. me' = Hurt(me) /\ at' = at /\ left' \in 0..MaxEvents /\ \A m, n : HurtMoves(m, n) => Outside(m, n)
  BY OuterMoves
<1>2. me' \in [Proc -> Commands] /\ \A q \in Proc : HurtMoves(me[q], me'[q])
  BY <1>1, HurtNotes DEF SetupTypes
<1>3. HurtMoves(Idle, Idle)
  BY DEF HurtMoves, Core, Tried, Served, Idle
<1>4. MachineTypes'
  BY <1>1, <1>3, IdleTypes, IdleCourse, MachineTypesStep DEF Moves, SetupTypes
<1>5. ASSUME NEW q \in Proc PROVE Placed(q)'
  <2>1. Placed(q) /\ HurtMoves(me[q], me'[q]) /\ at'[q] = at[q]
    BY <1>1, <1>2 DEF SetupTypes, CommandTypes
  <2>2. CASE me[q].op = "none"
    <3>1. me'[q] = me[q]
      BY <2>1, <2>2 DEF HurtMoves
    <3> QED BY <2>1, <3>1 DEF Placed
  <2>3. CASE me[q].op # "none"
    <3>1. me[q] # Idle
      BY <2>3 DEF Idle
    <3>2. Course(me'[q])
      BY <2>1, <2>3 DEF Placed, Course, HurtMoves, Core, Tried, Served
    <3> QED BY <2>1, <2>3, <3>1, <3>2 DEF Placed, HurtMoves, Core
  <2> QED BY <2>2, <2>3
<1> QED
  BY <1>1, <1>2, <1>4, <1>5 DEF CommandTypes

LEMMA SetupTypesInit == Init => SetupTypes
<1> SUFFICES ASSUME Init PROVE SetupTypes
  OBVIOUS
<1>1. LockInv /\ at = [p \in Proc |-> "new"]
  BY LockInitInv DEF Init, LockInit
<1>2. \A c \in Client : Absent \in Registration /\ UsersOwn(c) \in Registration
  BY DEF Absent, UsersOwn, Registration, Tables
<1>3. reg \in [Client -> Registration]
  BY <1>2 DEF Init
<1>4. daemon \in {None} \cup Daemons /\ unit \in Units /\ job \in Units /\ had \in BOOLEAN
  <2>1. [src |-> "user", managed |-> TRUE] \in Daemons
    BY DEF Daemons
  <2> QED BY <2>1 DEF Init, Units
<1>5. MachineTypes
  BY <1>3, <1>4, IdleTypes DEF Init, MachineTypes, Executables
<1>6. CommandTypes
  <2>1. me = [p \in Proc |-> Idle]
    BY DEF Init
  <2> QED BY <1>1, <2>1, IdleTypes, IdleCourse DEF CommandTypes, Placed, Idle
<1>7. left \in 0..MaxEvents
  BY SetupAssumption DEF Init
<1> QED
  BY <1>1, <1>5, <1>6, <1>7 DEF SetupTypes

\* Every step, by what it does to the processes.
LEMMA StepKinds ==
    ASSUME [Next]_vars
    PROVE  \/ \E p \in Proc : \/ Working(p) \/ AskSetup(p) \/ AskUninstall(p) \/ ReadRollback(p)
                              \/ AskRollback(p) \/ Enter(p) \/ (End(p) /\ Finish(p))
                              \/ GiveUp(p) \/ (End(p) /\ Leave(p)) \/ Kill(p)
           \/ Rename \/ Outer \/ UNCHANGED vars
<1>1. ASSUME NEW p \in Proc, Step(p)
      PROVE  \/ Working(p) \/ AskSetup(p) \/ AskUninstall(p) \/ ReadRollback(p)
             \/ AskRollback(p) \/ Enter(p) \/ (End(p) /\ Finish(p))
             \/ GiveUp(p) \/ (End(p) /\ Leave(p)) \/ Kill(p)
  <2>1. \/ Working(p) \/ AskSetup(p) \/ AskUninstall(p) \/ ReadRollback(p)
        \/ AskRollback(p) \/ Enter(p) \/ End(p) \/ GiveUp(p) \/ Kill(p)
    BY <1>1 DEF Step, Working
  <2>2. End(p) => Finish(p) \/ Leave(p)
    BY DEF End
  <2> QED BY <2>1, <2>2
<1> QED
  BY <1>1 DEF Next, Outer

LEMMA SetupTypesStep == SetupTypes /\ [Next]_vars => SetupTypes'
<1> SUFFICES ASSUME SetupTypes, [Next]_vars PROVE SetupTypes'
  OBVIOUS
<1>0. LockInv'
  BY SetupStep, LockStep DEF SetupTypes
<1>1. ASSUME NEW p \in Proc, Working(p) PROVE CommandTypes' /\ MachineTypes' /\ left' \in 0..MaxEvents
  BY <1>1, WorkingTypes
<1>2. ASSUME NEW p \in Proc,
             AskSetup(p) \/ AskUninstall(p) \/ ReadRollback(p) \/ AskRollback(p) \/ Enter(p)
             \/ (End(p) /\ Finish(p)) \/ GiveUp(p) \/ (End(p) /\ Leave(p)) \/ Kill(p)
      PROVE CommandTypes' /\ MachineTypes' /\ left' \in 0..MaxEvents
  BY <1>2, AskTypes, ReadRollbackTypes, AskRollbackTypes, EnterTypes, ForgetTypes
<1>3. ASSUME Outer PROVE CommandTypes' /\ MachineTypes' /\ left' \in 0..MaxEvents
  BY <1>3, OuterTypes
<1>4. ASSUME Rename \/ UNCHANGED vars PROVE CommandTypes' /\ MachineTypes' /\ left' \in 0..MaxEvents
  <2>1. me' = me /\ at' = at /\ left' = left /\ UNCHANGED <<installation, troubled>>
    BY <1>4 DEF Rename, SetAside, vars, lockVars, files, service, bounds, installation
  <2>2. CommandTypes'
    BY <2>1 DEF SetupTypes, CommandTypes, Placed
  <2> QED BY <2>1, <2>2, MachineRests DEF SetupTypes
<1> QED
  BY <1>0, <1>1, <1>2, <1>3, <1>4, StepKinds DEF SetupTypes

(* The inductive invariant of types: the installation, the commands' notes, *)
(* the lock and which steps each command takes (setup.mjs:436-610).          *)
THEOREM SetupTypesInvariant == Spec => []SetupTypes
  BY SetupTypesInit, SetupTypesStep, PTL DEF Spec

(* The state the model keeps of the installation, its commands and the lock  *)
(* is of the shape install.json, the clients, the service manager and the    *)
(* pointer have in the code (setup.mjs, lifecycle.mjs), whatever the         *)
(* operator does and whatever fails or is killed.                            *)
THEOREM SetupTypeCorrect == Spec => []TypeOK
<1>1. SetupTypes => TypeOK
  BY DEF SetupTypes, LockInv, MachineTypes, Executables, Ledgers, TypeOK
<1> QED BY SetupTypesInvariant, <1>1, PTL

-----------------------------------------------------------------------------
(* With a careful operator one command works at a time: the machine and    *)
(* that command make one state, and every step moves both.                 *)

\* The command that holds the lock, or none.
Now == IF \E p \in Proc : at[p] \in Live THEN me[CHOOSE p \in Proc : at[p] \in Live] ELSE Idle

LEMMA NowIs ==
    ASSUME LockInv, Careful, NEW p \in Proc, at[p] \in Live PROVE Now = me[p]
<1>1. \A q \in Proc : at[q] \in Live => q = p
  BY DEF LockInv, Whereabouts, InPlace
<1> QED BY <1>1 DEF Now
LEMMA NowBecomes ==
    ASSUME LockInv', Careful, NEW p \in Proc, at'[p] \in Live PROVE Now' = me'[p]
<1>1. \A q \in Proc : at'[q] \in Live => q = p
  BY DEF LockInv, Whereabouts, InPlace
<1> QED BY <1>1 DEF Now
LEMMA OnlyOne ==
    ASSUME LockInv, Careful, NEW p \in Proc, at[p] \in Live
    PROVE  \A q \in Proc : at[q] \in Live => q = p
  BY DEF LockInv, Whereabouts, InPlace

\* Nobody comes or goes: the notes of the command at work say what happened.
LEMMA NowStays ==
    ASSUME LockInv, LockInv', Careful, \A q \in Proc : at'[q] \in Live <=> at[q] \in Live
    PROVE  \/ Now = Idle /\ Now' = Idle
           \/ \E q \in Proc : at[q] \in Live /\ Now = me[q] /\ Now' = me'[q]
<1>1. CASE \E q \in Proc : at[q] \in Live
  BY <1>1, NowIs, NowBecomes
<1>2. CASE ~\E q \in Proc : at[q] \in Live
  BY <1>2 DEF Now
<1> QED BY <1>1, <1>2

LEMMA NowMoves ==
    ASSUME SetupTypes, LockInv', Careful, [Next]_vars
    PROVE  Moves(Now, Now')
<1>0. LockInv
  BY DEF SetupTypes
<1>1. ASSUME NEW p \in Proc, Working(p) PROVE Moves(Now, Now')
  <2>1. at' = at /\ at[p] = "in" /\ Works(me[p], me'[p])
    BY <1>1, WorkingTypes
  <2>2. Now = me[p] /\ Now' = me'[p]
    BY <1>0, <2>1, NowIs, NowBecomes DEF Live
  <2> QED BY <2>1, <2>2 DEF Moves
<1>2. ASSUME NEW p \in Proc, AskSetup(p) \/ AskUninstall(p) \/ AskRollback(p) PROVE Moves(Now, Now')
  <2>1. Make(p)
    BY <1>2, AskTypes, AskRollbackTypes
  <2>2. \A q \in Proc : at[q] \notin Live
    BY <1>0, <2>1 DEF Make, LockInv, InPlace
  <2>3. Now = Idle
    BY <2>2 DEF Now
  <2>4. at'[p] = "made"
    BY <1>0, <2>1, LockTypes DEF Make
  <2>5. Now' = me'[p]
    BY <2>4, NowBecomes DEF Live
  <2>6. CASE AskSetup(p) \/ AskUninstall(p)
    BY <2>3, <2>5, <2>6, AskTypes DEF Moves, BeginMoves
  <2>7. CASE AskRollback(p)
    <3>1. /\ UNCHANGED installation /\ Now'.op = "rollback" /\ Now'.pc = "locked"
          /\ troubled' = IF Now'.saved # ledger THEN troubled \cup {"stale"} ELSE troubled
      BY <2>5, <2>7, AskRollbackTypes
    <3> QED BY <2>3, <3>1 DEF Moves, BeginMoves
  <2> QED BY <1>2, <2>6, <2>7
<1>3. ASSUME NEW p \in Proc, ReadRollback(p) \/ Enter(p) \/ (End(p) /\ Finish(p)) PROVE Moves(Now, Now')
  <2>1. /\ UNCHANGED <<installation, troubled>> /\ \A q \in Proc : at'[q] \in Live <=> at[q] \in Live
        /\ \A q \in Proc : at[q] \in Live => me'[q] = me[q]
    <3>1. CASE ReadRollback(p)
      BY <3>1, ReadRollbackTypes DEF Own, lockVars, Live
    <3>2. CASE Enter(p) \/ (End(p) /\ Finish(p))
      BY <3>2, EnterTypes
    <3> QED BY <1>3, <3>1, <3>2
  <2>2. Now' = Now
    BY <1>0, <2>1, NowStays
  <2> QED BY <2>1, <2>2 DEF Moves, RestMoves, Same
<1>4. ASSUME NEW p \in Proc, GiveUp(p) \/ (End(p) /\ Leave(p)) \/ Kill(p) PROVE Moves(Now, Now')
  <2>1. /\ Own(p) /\ me'[p] = Idle /\ UNCHANGED installation /\ \A q \in Proc \ {p} : at'[q] = at[q]
        /\ \/ at[p] = "new" /\ at'[p] = "gone" /\ troubled' = troubled
           \/ at[p] = "made" /\ at'[p] = "leave" /\ troubled' = troubled
           \/ at[p] = "leave" /\ at'[p] = "gone" /\ troubled' = troubled
           \/ at[p] \in Live /\ at'[p] = "dead" /\ troubled' = troubled \cup {"kill"}
    BY <1>4, ForgetTypes
  <2>2. CASE at[p] = "new"
    <3>1. \A q \in Proc : at'[q] \in Live <=> at[q] \in Live
      BY <2>1, <2>2 DEF Live
    <3>2. \A q \in Proc : at[q] \in Live => me'[q] = me[q]
      BY <2>1, <2>2 DEF Own, Live
    <3>3. Now' = Now
      BY <1>0, <3>1, <3>2, NowStays
    <3> QED BY <2>1, <2>2, <3>3 DEF Moves, RestMoves, Same, Live
  <2>3. CASE at[p] \in Live
    <3>1. Now = me[p] /\ \A q \in Proc : at[q] \in Live => q = p
      BY <1>0, <2>3, NowIs, OnlyOne
    <3>2. Now' = Idle
      <4>1. CASE at'[p] \in Live
        BY <2>1, <4>1, NowBecomes
      <4>2. CASE at'[p] \notin Live
        BY <2>1, <3>1, <4>2 DEF Now
      <4> QED BY <4>1, <4>2
    <3>3. Placed(p)
      BY DEF SetupTypes, CommandTypes
    <3>4. at[p] \in {"made", "leave"} => me[p].pc \in {"none", "locked"} \cup Ends
      BY <3>3 DEF Placed, Idle
    <3>5. EndMoves(Now, Now')
      BY <2>1, <2>3, <3>1, <3>2, <3>4 DEF EndMoves, Live
    <3> QED BY <3>5 DEF Moves
  <2> QED BY <2>1, <2>2, <2>3 DEF Live
<1>5. CASE Outer
  <2>1. me' = Hurt(me) /\ at' = at /\ \A m, n : HurtMoves(m, n) => Outside(m, n)
    BY <1>5, OuterMoves
  <2>2. \A q \in Proc : HurtMoves(me[q], me'[q])
    BY <2>1, HurtNotes DEF SetupTypes
  <2>3. HurtMoves(Idle, Idle)
    BY DEF HurtMoves, Core, Tried, Served, Idle
  <2>4. HurtMoves(Now, Now')
    BY <1>0, <2>1, <2>2, <2>3, NowStays
  <2> QED BY <2>1, <2>4 DEF Moves
<1>6. CASE Rename \/ UNCHANGED vars
  <2>1. me' = me /\ at' = at /\ UNCHANGED <<installation, troubled>>
    BY <1>6 DEF Rename, SetAside, vars, lockVars, files, service, bounds, installation
  <2>2. Now' = Now
    BY <2>1 DEF Now
  <2> QED BY <2>1, <2>2 DEF Moves, RestMoves, Same
<1> QED
  BY <1>1, <1>2, <1>3, <1>4, <1>5, <1>6, StepKinds

\* What the steps below know of the types.
Types == MachineTypes /\ Now \in Commands /\ Course(Now)
LEMMA NowTypes == SetupTypes => Types
<1> SUFFICES ASSUME SetupTypes PROVE Types
  OBVIOUS
<1>1. CASE \E p \in Proc : at[p] \in Live
  <2>1. Now = me[CHOOSE p \in Proc : at[p] \in Live] /\ (CHOOSE p \in Proc : at[p] \in Live) \in Proc
    BY <1>1 DEF Now
  <2> QED BY <2>1 DEF Types, SetupTypes, CommandTypes, Placed
<1>2. CASE ~\E p \in Proc : at[p] \in Live
  BY <1>2, IdleTypes, IdleCourse DEF Now, Types, SetupTypes
<1> QED BY <1>1, <1>2
LEMMA NowTypesNext == SetupTypes' => Types'
<1> SUFFICES ASSUME SetupTypes' PROVE Types'
  OBVIOUS
<1>1. CASE \E p \in Proc : at'[p] \in Live
  <2>1. Now' = me'[CHOOSE p \in Proc : at'[p] \in Live] /\ (CHOOSE p \in Proc : at'[p] \in Live) \in Proc
    BY <1>1 DEF Now
  <2> QED BY <2>1 DEF Types, SetupTypes, CommandTypes, Placed
<1>2. CASE ~\E p \in Proc : at'[p] \in Live
  BY <1>2, IdleTypes, IdleCourse DEF Now, Types, SetupTypes
<1> QED BY <1>1, <1>2

-----------------------------------------------------------------------------
(* What the command at work knows of the installation, part by part.       *)

Behind == {"undo_service", "undo_claude", "undo_codex", "unproject", "failed", "svc_reload"}
InService == {"unload", "unit", "load", "answer"}
Activates(m) == m.op \in {"setup", "rollback"}
\* The command has taken its snapshots and not yet written its result.
Active(m) == Activates(m) /\ m.pc \notin {"none", "locked", "done"}

\* What a command has in memory of the ledger is what is in the file.
Kept(m) ==
    /\ m.op = "setup" /\ m.pc \notin {"locked", "done"} => ledger = m.saved
    /\ m.op = "rollback" /\ m.pc \notin {"none", "done"} /\ "stale" \notin troubled => ledger = m.saved
    /\ m.op = "uninstall" /\ m.pc # "locked" =>
          \A c \in Client : m.saved.clients[c] \in {None, ledger.clients[c]}
    /\ m.pc \in Removing => m.saved.clients = ledger.clients /\ m.saved.service = ledger.service

Pointer(m) ==
    /\ Activates(m) /\ m.pc \in Early \cup Behind => current = m.from
    /\ Activates(m) /\ m.pc \in Forward \cup {"done"} => current = m.dest
    /\ m.pc = "erase" => current = None

\* The release selected is staged, and the one to go back to.
Staged(m) ==
    /\ m.op = "setup" /\ m.pc \in (Early \ {"stage"}) \cup Forward \cup {"done"} => m.dest \in staged
    /\ m.op = "setup" /\ m.pc \in (Early \ {"stage", "own"}) \cup Forward => m.dest \in m.saved.releases
    /\ troubled = {} =>
          /\ current # None => current \in staged
          /\ Active(m) /\ m.from # None => m.from \in staged
          /\ m.op = "rollback" => m.dest \in staged

\* The pointer and the ledger agree, except in the middle of a command.
Erasing(m) == m.op = "uninstall" /\ m.purge /\ (m.pc = "erase" \/ (m.pc = "save" /\ m.then = "done"))
Selects(l, ptr) == /\ l.current # None => ptr = l.current /\ ptr \in staged
                   /\ l.previous # None => l.previous \in staged
Selected(m) == troubled = {} =>
    /\ ~Active(m) /\ ~Erasing(m) => Selects(ledger, current)
    /\ Active(m) => Selects(m.saved, m.from)
    /\ m.op = "uninstall" /\ m.pc \in Removing \cup {"save"} =>
          Selects(m.saved, current) \/ (m.purge /\ m.pc = "erase")

\* Every registration that may come back is one whose projection exists.
Known(r) == r \in Release => r \in projections
OriginalsKnown(l) == \A c \in Client : l.clients[c] # None => Known(l.clients[c].original.market)
Resolves(m) == "stale" \notin troubled =>
    /\ \A c \in Client : Known(reg[c].market)
    /\ OriginalsKnown(ledger)
    /\ Active(m) => \A c \in Client : Known(m.snap[c].market)
    /\ Active(m) /\ m.clients # {} /\ m.pc \in {"ownproject", "switch"} \cup Forward => m.dest \in projections
    /\ Active(m) /\ m.made /\ m.op = "rollback" =>
          \A c \in Client : /\ m.snap[c].market # m.dest
                            /\ ledger.clients[c] # None => ledger.clients[c].original.market # m.dest

\* The registrations are the ones found, or the ones of the new release.
Passed(m, c) == m.pc \in Forward \ (IF c = "claude" THEN {"claude"} ELSE {"claude", "codex"})
Skipped(m) == m.pc = "failed" /\ m.hurt /\ "recovery" \in troubled
Back(m, c) == /\ m.pc \in {"unproject", "failed"} \cup (IF c = "claude" THEN {"undo_codex"} ELSE {})
              /\ ~m.failed /\ ~Skipped(m)
AsFound(m, c) == c \notin m.changed \/ Back(m, c)
Regs(m) ==
    /\ m.failed => "recovery" \in troubled
    /\ Active(m) => \A c \in Client :
          /\ AsFound(m, c) => /\ reg[c].market \in {m.snap[c].market, "user"}
                              /\ ~m.hurt => reg[c] = m.snap[c]
          /\ c \in m.clients /\ Passed(m, c) => /\ reg[c].market \in {m.dest, "user"}
                                                /\ ~m.hurt => reg[c].market = m.dest /\ reg[c].on

\* Nothing of HOMI's is outside the ledger, and the ledger keeps the user's own.
RegsRecorded(l, r) == \A c \in Client : r[c].market \in Release =>
                          l.clients[c] # None /\ l.clients[c].root = r[c].market
Covers(s) == s # None /\ (had => s.original # None)
UnitRecorded(l, u) == /\ u \in {"homi", "edited"} => l.service # None
                      /\ had => u = "user" \/ Covers(l.service)
Users(s) == s # None /\ s.original # None => s.original.unit = "user"
UsersOriginals(l) == /\ \A c \in Client : l.clients[c] # None => l.clients[c].original.market \notin Release
                     /\ Users(l.service)
Owned(l) == RegsRecorded(l, reg) /\ (bin = "ours" => l.links) /\ UnitRecorded(l, unit) /\ UsersOriginals(l)

Owning(m) == troubled = {} =>
    /\ ~Active(m) => Owned(ledger)
    /\ m.op = "uninstall" /\ m.pc # "locked" /\ m.pc # "failed" => Owned(m.saved)
    /\ m.pc = "drop_unit" => unit # "user" /\ m.before.unit # "user"
    /\ Active(m) =>
        /\ UsersOriginals(m.saved) /\ RegsRecorded(m.saved, m.snap) /\ (m.bin = "ours" => m.saved.links)
        /\ (m.op = "setup" /\ m.pc \in {"service", "commit", "undo"} \cup InService \cup Catching)
           \/ (bin = "ours" => m.saved.links)
        /\ m.pc \in Early \cup {"claude", "codex", "bins", "service", "unload", "unit", "svc_reload"} \cup
                    (Behind \ {"undo_service"}) => UnitRecorded(m.saved, unit)
        /\ m.pc \in InService => Covers(m.record) /\ Users(m.record) /\ m.record.backup = m.before.unit
        /\ m.pc \in InService \cup {"svc_stop", "svc_restore"} => UnitRecorded(m.saved, m.before.unit)
        /\ m.pc = "commit" /\ m.record # None => Covers(m.record) /\ Users(m.record)
        /\ m.pc \in {"commit", "undo"} /\ ~m.newService => UnitRecorded(m.saved, unit)
        /\ m.pc \in {"commit", "undo", "undo_service"} /\ m.newService =>
              UnitRecorded(m.saved, m.record.backup)
        /\ m.op = "rollback" /\ (m.pc \in InService \cup Catching \/ m.newService) => Covers(m.saved.service)
        /\ m.pc = "undo" /\ m.op = "rollback" => UnitRecorded(m.saved, unit)

\* Unit, job and daemon fit together.
Consistent(u, j, d) ==
    /\ d # None /\ d.managed => j # None /\ (d.src = "user" <=> j = "user")
    /\ j = "user" => u = "user"
    /\ j \in {"homi", "edited"} => u # "user"
Unloaded == {"unit", "load", "svc_restore", "svc_reload", "drop_unit"}
Service(m) ==
    /\ Consistent(unit, job, daemon)
    /\ m.pc \in Unloaded => job = None

Found(m) == unit = m.was[3] /\ job = m.was[4] /\ daemon = m.was[5]
Given(m, j, d, ptr) == \* the service is as the command found it, or restarted
    /\ unit = m.was[3]
    /\ m.was[3] # None => (j # None) = (m.was[4] # None)
    /\ m.was[3] # None /\ m.was[5] # None /\ m.was[5].managed =>
          d # None /\ (d = m.was[5] \/ d.src = ptr)
Managed == daemon # None => daemon.managed
Traced(m) == m.op = "setup" /\ Active(m) =>
    /\ Consistent(m.was[3], m.was[4], m.was[5])
    /\ m.was[4] \in Units /\ m.was[5] \in {None} \cup Daemons
    /\ ~m.hurt =>
        /\ m.was[1] = m.snap /\ m.was[2] = m.bin
        /\ m.pc \notin {"service", "commit", "undo"} \cup InService \cup Catching => bin = m.bin
        /\ m.pc \in {"service", "commit"} \cup InService => bin = "ours"
        /\ m.pc \in Early \cup {"claude", "codex", "bins", "service", "unload"} => Found(m)
        /\ m.pc \in InService \cup {"svc_stop", "svc_restore"} =>
              m.before = [unit |-> m.was[3], active |-> m.was[4] # None]
        /\ m.pc \in InService \/ m.newService =>
              m.record.backup = m.was[3] /\ m.record.wasActive = (m.was[4] # None)
        /\ m.pc \in {"unit", "load", "svc_restore", "svc_reload"} => daemon = None
        /\ m.pc = "load" => unit = "homi"
        /\ m.pc = "answer" => unit = "homi" /\ job = "homi" /\ daemon # None /\ daemon.managed
        /\ m.pc = "svc_stop" => Managed
        /\ m.pc = "svc_reload" => unit = m.was[3] /\ m.was[4] # None
        /\ m.pc \in {"commit", "undo", "undo_service"} /\ m.newService => Managed
        /\ m.pc = "commit" /\ ~m.newService => Found(m)
        /\ m.pc \in {"undo", "undo_claude", "undo_codex", "failed"} /\ (m.pc = "undo" => ~m.newService) =>
              Given(m, job, daemon, m.from)
        /\ m.pc = "commit" => (m.record # None <=> m.service \/ m.saved.service # None)
        /\ m.pc = "commit" /\ m.record # None =>
              unit = "homi" /\ job # None /\ daemon # None /\ daemon.src = m.dest
    /\ m.clients # {} /\ m.pc \in {"switch"} \cup Forward => m.dest \in m.saved.projections
    /\ m.clients # {} /\ m.pc \in {"ownproject", "switch"} \cup Forward => m.dest \in projections

Healed(m) == m.op = "setup" /\ m.pc = "done" /\ ~m.hurt =>
    LET r == m.dest
    IN  /\ current = r /\ ledger.current = r /\ r \in staged \cap ledger.releases
        /\ bin = "ours" /\ ledger.links
        /\ \A c \in m.clients :
              /\ reg[c].market = r /\ reg[c].on
              /\ ledger.clients[c].root = r /\ r \in projections \cap ledger.projections
        /\ m.service \/ ledger.service # None =>
              /\ unit = "homi" /\ job # None /\ ledger.service # None
              /\ daemon # None /\ daemon.src = r

Knows(m) == /\ Kept(m) /\ Pointer(m) /\ Staged(m) /\ Selected(m) /\ Resolves(m) /\ Regs(m)
            /\ Owning(m) /\ Service(m) /\ Traced(m) /\ Healed(m)

-----------------------------------------------------------------------------
(* Units, jobs and daemons. *)

LEMMA ServiceStops ==
    ASSUME Consistent(unit, job, daemon), MachineTypes, NEW u
    PROVE  /\ Consistent(u, None, Stopped) /\ Consistent(u, None, None)
           /\ Stopped \in {None} \cup Daemons /\ (Stopped # None => ~Stopped.managed)
           /\ (job = None => Consistent(u, None, daemon) /\ (daemon # None => ~daemon.managed))
  BY NullAssumption DEF Consistent, Stopped, MachineTypes, Daemons

LEMMA ServiceStarts ==
    ASSUME MachineTypes, NEW u \in Units \ {None}, NEW d \in {None} \cup Daemons,
           d # None => ~d.managed
    PROVE  /\ Consistent(u, u, Started(u, d)) /\ Started(u, d) \in Daemons
           /\ Started(u, d) # None
           /\ d = None => /\ Started(u, d).managed
                          /\ Started(u, d).src = IF u = "user" THEN "user" ELSE current
<1>1. CASE d # None
  BY <1>1, NullAssumption DEF Consistent, Started, Daemons, Units
<1>2. CASE d = None
  <2>1. [src |-> IF u = "user" THEN "user" ELSE current, managed |-> TRUE] \in Daemons
    BY DEF MachineTypes, Daemons
  <2>2. current # "user"
    BY SetupAssumption, NullAssumption DEF MachineTypes
  <2> QED BY <1>2, <2>1, <2>2, NullAssumption DEF Consistent, Started, Units
<1> QED BY <1>1, <1>2

LEMMA KeptStep ==
    ASSUME Types, Types', Knows(Now), Moves(Now, Now')
    PROVE  Kept(Now)'
<1> USE DEF Knows, Kept, Types, Course, Client, Pcs, Early, Forward, Catching, Undoing, Removing,
     Ends, Thens, Core, Tried, Served, Rest, Moved
<1>1. CASE PreflightMoves(Now, Now')
  BY <1>1 DEF PreflightMoves, Same, installation
<1>2. CASE StageMoves(Now, Now')
  BY <1>2 DEF StageMoves
<1>3. CASE OwnReleaseMoves(Now, Now')
  BY <1>3 DEF OwnReleaseMoves, AddsRelease
<1>4. CASE BuildMoves(Now, Now')
  BY <1>4 DEF BuildMoves
<1>5. CASE OwnProjectionMoves(Now, Now')
  BY <1>5 DEF OwnProjectionMoves, AddsProjection
<1>6. CASE SwitchMoves(Now, Now')
  BY <1>6 DEF SwitchMoves
<1>7. CASE BinsMoves(Now, Now')
  BY <1>7 DEF BinsMoves
<1>8. ASSUME NEW c \in Client, PassMoves(Now, Now', c) PROVE Kept(Now)'
  BY <1>8 DEF PassMoves, Same, installation, AfterClient
<1>9. ASSUME NEW c \in Client, InstallMoves(Now, Now', c) PROVE Kept(Now)'
  BY <1>9 DEF InstallMoves, AfterClient
<1>10. ASSUME NEW c \in Client, InstallFailsMoves(Now, Now', c) PROVE Kept(Now)'
  BY <1>10 DEF InstallFailsMoves
<1>11. ASSUME NEW c \in Client, RestoreMoves(Now, Now', c) PROVE Kept(Now)'
  BY <1>11 DEF RestoreMoves, AfterUndo
<1>12. ASSUME NEW c \in Client, DetachMoves(Now, Now', c) PROVE Kept(Now)'
  BY <1>12 DEF DetachMoves, DetachPc, AfterDetach, SaveMoves, DropsClient
<1>13. ASSUME NEW c \in Client, DetachFailsMoves(Now, Now', c) PROVE Kept(Now)'
  BY <1>13 DEF DetachFailsMoves, DetachPc
<1>14. CASE ServiceMoves(Now, Now')
  BY <1>14 DEF ServiceMoves, Same, installation
<1>15. CASE UnloadMoves(Now, Now')
  BY <1>15 DEF UnloadMoves
<1>16. CASE UnloadFailsMoves(Now, Now')
  BY <1>16 DEF UnloadFailsMoves
<1>17. CASE WriteUnitMoves(Now, Now')
  BY <1>17 DEF WriteUnitMoves
<1>18. CASE LoadMoves(Now, Now')
  BY <1>18 DEF LoadMoves
<1>19. CASE AnswerMoves(Now, Now')
  BY <1>19 DEF AnswerMoves, Same, installation
<1>20. CASE StopAgainMoves(Now, Now')
  BY <1>20 DEF StopAgainMoves
<1>21. CASE RestoreUnitMoves(Now, Now')
  BY <1>21 DEF RestoreUnitMoves
<1>22. CASE ReloadMoves(Now, Now')
  BY <1>22 DEF ReloadMoves
<1>23. CASE CatchFailsMoves(Now, Now')
  BY <1>23 DEF CatchFailsMoves, installation, Catching
<1>24. CASE CommitMoves(Now, Now')
  BY <1>24 DEF CommitMoves, Commits
<1>25. CASE UndoMoves(Now, Now')
  BY <1>25 DEF UndoMoves
<1>26. CASE RestoreServiceMoves(Now, Now')
  BY <1>26 DEF RestoreServiceMoves
<1>27. CASE RestoreServiceFailsMoves(Now, Now')
  BY <1>27 DEF RestoreServiceFailsMoves, installation
<1>28. CASE UnprojectMoves(Now, Now')
  BY <1>28 DEF UnprojectMoves
<1>29. CASE WriteLedgerMoves(Now, Now')
  BY <1>29 DEF WriteLedgerMoves
<1>30. CASE BeginUninstallMoves(Now, Now')
  BY <1>30 DEF BeginUninstallMoves, Same, installation
<1>31. CASE StopMoves(Now, Now')
  BY <1>31 DEF StopMoves
<1>32. CASE DropUnitMoves(Now, Now')
  BY <1>32 DEF DropUnitMoves, SaveMoves, DropsService
<1>33. CASE DropUnitFailsMoves(Now, Now')
  BY <1>33 DEF DropUnitFailsMoves
<1>34. CASE DetachRestMoves(Now, Now')
  BY <1>34 DEF DetachRestMoves, DropsLinks
<1>35. CASE RecordMoves(Now, Now')
  BY <1>35 DEF RecordMoves, SaveMoves, Same, installation
<1>36. CASE PurgeMoves(Now, Now')
  BY <1>36 DEF PurgeMoves
<1>37. CASE EraseMoves(Now, Now')
  BY <1>37 DEF EraseMoves, SaveMoves, Empties
<1>38. CASE ThrowMoves(Now, Now')
  BY <1>38 DEF ThrowMoves, installation, ThrowPcs
<1>39. CASE BeginMoves(Now, Now')
  BY <1>39 DEF BeginMoves, installation, Idle
<1>40. CASE EndMoves(Now, Now')
  BY <1>40 DEF EndMoves, installation, Idle
<1>41. CASE EditMoves(Now, Now')
  BY <1>41 DEF EditMoves, HurtMoves
<1>42. CASE DaemonDiesMoves(Now, Now')
  BY <1>42 DEF DaemonDiesMoves, HurtMoves
<1>43. CASE AutostartMoves(Now, Now')
  BY <1>43 DEF AutostartMoves, HurtMoves
<1>44. CASE RestMoves(Now, Now')
  BY <1>44 DEF RestMoves, Same, installation
<1> QED
  BY <1>1, <1>2, <1>3, <1>4, <1>5, <1>6, <1>7, <1>8, <1>9, <1>10, <1>11, <1>12, <1>13, <1>14, <1>15,
     <1>16, <1>17, <1>18, <1>19, <1>20, <1>21, <1>22, <1>23, <1>24, <1>25, <1>26, <1>27, <1>28,
     <1>29, <1>30, <1>31, <1>32, <1>33, <1>34, <1>35, <1>36, <1>37, <1>38, <1>39, <1>40, <1>41,
     <1>42, <1>43, <1>44 DEF Moves, Works, Outside

LEMMA PointerStep ==
    ASSUME Types, Types', Knows(Now), Moves(Now, Now')
    PROVE  Pointer(Now)'
<1> USE DEF Knows, Pointer, Types, Course, Client, Activates, Behind, Pcs, Early, Forward, Catching,
     Undoing, Removing, Ends, Thens, Core, Tried, Served, Rest, Moved
<1>1. CASE PreflightMoves(Now, Now')
  BY <1>1 DEF PreflightMoves, Same, installation
<1>2. CASE StageMoves(Now, Now')
  BY <1>2 DEF StageMoves
<1>3. CASE OwnReleaseMoves(Now, Now')
  BY <1>3 DEF OwnReleaseMoves, AddsRelease
<1>4. CASE BuildMoves(Now, Now')
  BY <1>4 DEF BuildMoves
<1>5. CASE OwnProjectionMoves(Now, Now')
  BY <1>5 DEF OwnProjectionMoves, AddsProjection
<1>6. CASE SwitchMoves(Now, Now')
  BY <1>6 DEF SwitchMoves
<1>7. CASE BinsMoves(Now, Now')
  BY <1>7 DEF BinsMoves
<1>8. ASSUME NEW c \in Client, PassMoves(Now, Now', c) PROVE Pointer(Now)'
  BY <1>8 DEF PassMoves, Same, installation, AfterClient
<1>9. ASSUME NEW c \in Client, InstallMoves(Now, Now', c) PROVE Pointer(Now)'
  BY <1>9 DEF InstallMoves, AfterClient
<1>10. ASSUME NEW c \in Client, InstallFailsMoves(Now, Now', c) PROVE Pointer(Now)'
  BY <1>10 DEF InstallFailsMoves
<1>11. ASSUME NEW c \in Client, RestoreMoves(Now, Now', c) PROVE Pointer(Now)'
  BY <1>11 DEF RestoreMoves, AfterUndo
<1>12. ASSUME NEW c \in Client, DetachMoves(Now, Now', c) PROVE Pointer(Now)'
  BY <1>12 DEF DetachMoves, DetachPc, AfterDetach, SaveMoves, DropsClient
<1>13. ASSUME NEW c \in Client, DetachFailsMoves(Now, Now', c) PROVE Pointer(Now)'
  BY <1>13 DEF DetachFailsMoves, DetachPc
<1>14. CASE ServiceMoves(Now, Now')
  BY <1>14 DEF ServiceMoves, Same, installation
<1>15. CASE UnloadMoves(Now, Now')
  BY <1>15 DEF UnloadMoves
<1>16. CASE UnloadFailsMoves(Now, Now')
  BY <1>16 DEF UnloadFailsMoves
<1>17. CASE WriteUnitMoves(Now, Now')
  BY <1>17 DEF WriteUnitMoves
<1>18. CASE LoadMoves(Now, Now')
  BY <1>18 DEF LoadMoves
<1>19. CASE AnswerMoves(Now, Now')
  BY <1>19 DEF AnswerMoves, Same, installation
<1>20. CASE StopAgainMoves(Now, Now')
  BY <1>20 DEF StopAgainMoves
<1>21. CASE RestoreUnitMoves(Now, Now')
  BY <1>21 DEF RestoreUnitMoves
<1>22. CASE ReloadMoves(Now, Now')
  BY <1>22 DEF ReloadMoves
<1>23. CASE CatchFailsMoves(Now, Now')
  BY <1>23 DEF CatchFailsMoves, installation, Catching
<1>24. CASE CommitMoves(Now, Now')
  BY <1>24 DEF CommitMoves, Commits
<1>25. CASE UndoMoves(Now, Now')
  BY <1>25 DEF UndoMoves
<1>26. CASE RestoreServiceMoves(Now, Now')
  BY <1>26 DEF RestoreServiceMoves
<1>27. CASE RestoreServiceFailsMoves(Now, Now')
  BY <1>27 DEF RestoreServiceFailsMoves, installation
<1>28. CASE UnprojectMoves(Now, Now')
  BY <1>28 DEF UnprojectMoves
<1>29. CASE WriteLedgerMoves(Now, Now')
  BY <1>29 DEF WriteLedgerMoves
<1>30. CASE BeginUninstallMoves(Now, Now')
  BY <1>30 DEF BeginUninstallMoves, Same, installation
<1>31. CASE StopMoves(Now, Now')
  BY <1>31 DEF StopMoves
<1>32. CASE DropUnitMoves(Now, Now')
  BY <1>32 DEF DropUnitMoves, SaveMoves, DropsService
<1>33. CASE DropUnitFailsMoves(Now, Now')
  BY <1>33 DEF DropUnitFailsMoves
<1>34. CASE DetachRestMoves(Now, Now')
  BY <1>34 DEF DetachRestMoves, DropsLinks
<1>35. CASE RecordMoves(Now, Now')
  BY <1>35 DEF RecordMoves, SaveMoves, Same, installation
<1>36. CASE PurgeMoves(Now, Now')
  BY <1>36 DEF PurgeMoves
<1>37. CASE EraseMoves(Now, Now')
  BY <1>37 DEF EraseMoves, SaveMoves, Empties
<1>38. CASE ThrowMoves(Now, Now')
  BY <1>38 DEF ThrowMoves, installation, ThrowPcs
<1>39. CASE BeginMoves(Now, Now')
  BY <1>39 DEF BeginMoves, installation, Idle
<1>40. CASE EndMoves(Now, Now')
  BY <1>40 DEF EndMoves, installation, Idle
<1>41. CASE EditMoves(Now, Now')
  BY <1>41 DEF EditMoves, HurtMoves
<1>42. CASE DaemonDiesMoves(Now, Now')
  BY <1>42 DEF DaemonDiesMoves, HurtMoves
<1>43. CASE AutostartMoves(Now, Now')
  BY <1>43 DEF AutostartMoves, HurtMoves
<1>44. CASE RestMoves(Now, Now')
  BY <1>44 DEF RestMoves, Same, installation
<1> QED
  BY <1>1, <1>2, <1>3, <1>4, <1>5, <1>6, <1>7, <1>8, <1>9, <1>10, <1>11, <1>12, <1>13, <1>14, <1>15,
     <1>16, <1>17, <1>18, <1>19, <1>20, <1>21, <1>22, <1>23, <1>24, <1>25, <1>26, <1>27, <1>28,
     <1>29, <1>30, <1>31, <1>32, <1>33, <1>34, <1>35, <1>36, <1>37, <1>38, <1>39, <1>40, <1>41,
     <1>42, <1>43, <1>44 DEF Moves, Works, Outside

LEMMA StagedStep ==
    ASSUME Types, Types', Knows(Now), Moves(Now, Now')
    PROVE  Staged(Now)'
<1> USE DEF Knows, Staged, Kept, Pointer, Selected, Selects, Erasing, Types, Course, Client,
     Activates, Active, Behind, Pcs, Early, Forward, Catching, Undoing, Removing, Ends, Thens, Core,
     Tried, Served, Rest, Moved
<1>1. CASE PreflightMoves(Now, Now')
  BY <1>1 DEF PreflightMoves, Same, installation
<1>2. CASE StageMoves(Now, Now')
  BY <1>2 DEF StageMoves
<1>3. CASE OwnReleaseMoves(Now, Now')
  BY <1>3 DEF OwnReleaseMoves, AddsRelease
<1>4. CASE BuildMoves(Now, Now')
  BY <1>4 DEF BuildMoves
<1>5. CASE OwnProjectionMoves(Now, Now')
  BY <1>5 DEF OwnProjectionMoves, AddsProjection
<1>6. CASE SwitchMoves(Now, Now')
  BY <1>6 DEF SwitchMoves
<1>7. CASE BinsMoves(Now, Now')
  BY <1>7 DEF BinsMoves
<1>8. ASSUME NEW c \in Client, PassMoves(Now, Now', c) PROVE Staged(Now)'
  BY <1>8 DEF PassMoves, Same, installation, AfterClient
<1>9. ASSUME NEW c \in Client, InstallMoves(Now, Now', c) PROVE Staged(Now)'
  BY <1>9 DEF InstallMoves, AfterClient
<1>10. ASSUME NEW c \in Client, InstallFailsMoves(Now, Now', c) PROVE Staged(Now)'
  BY <1>10 DEF InstallFailsMoves
<1>11. ASSUME NEW c \in Client, RestoreMoves(Now, Now', c) PROVE Staged(Now)'
  BY <1>11 DEF RestoreMoves, AfterUndo
<1>12. ASSUME NEW c \in Client, DetachMoves(Now, Now', c) PROVE Staged(Now)'
  BY <1>12 DEF DetachMoves, DetachPc, AfterDetach, SaveMoves, DropsClient
<1>13. ASSUME NEW c \in Client, DetachFailsMoves(Now, Now', c) PROVE Staged(Now)'
  BY <1>13 DEF DetachFailsMoves, DetachPc
<1>14. CASE ServiceMoves(Now, Now')
  BY <1>14 DEF ServiceMoves, Same, installation
<1>15. CASE UnloadMoves(Now, Now')
  BY <1>15 DEF UnloadMoves
<1>16. CASE UnloadFailsMoves(Now, Now')
  BY <1>16 DEF UnloadFailsMoves
<1>17. CASE WriteUnitMoves(Now, Now')
  BY <1>17 DEF WriteUnitMoves
<1>18. CASE LoadMoves(Now, Now')
  BY <1>18 DEF LoadMoves
<1>19. CASE AnswerMoves(Now, Now')
  BY <1>19 DEF AnswerMoves, Same, installation
<1>20. CASE StopAgainMoves(Now, Now')
  BY <1>20 DEF StopAgainMoves
<1>21. CASE RestoreUnitMoves(Now, Now')
  BY <1>21 DEF RestoreUnitMoves
<1>22. CASE ReloadMoves(Now, Now')
  BY <1>22 DEF ReloadMoves
<1>23. CASE CatchFailsMoves(Now, Now')
  BY <1>23 DEF CatchFailsMoves, installation, Catching
<1>24. CASE CommitMoves(Now, Now')
  BY <1>24 DEF CommitMoves, Commits
<1>25. CASE UndoMoves(Now, Now')
  BY <1>25 DEF UndoMoves
<1>26. CASE RestoreServiceMoves(Now, Now')
  BY <1>26 DEF RestoreServiceMoves
<1>27. CASE RestoreServiceFailsMoves(Now, Now')
  BY <1>27 DEF RestoreServiceFailsMoves, installation
<1>28. CASE UnprojectMoves(Now, Now')
  BY <1>28 DEF UnprojectMoves
<1>29. CASE WriteLedgerMoves(Now, Now')
  BY <1>29 DEF WriteLedgerMoves
<1>30. CASE BeginUninstallMoves(Now, Now')
  BY <1>30 DEF BeginUninstallMoves, Same, installation
<1>31. CASE StopMoves(Now, Now')
  BY <1>31 DEF StopMoves
<1>32. CASE DropUnitMoves(Now, Now')
  BY <1>32 DEF DropUnitMoves, SaveMoves, DropsService
<1>33. CASE DropUnitFailsMoves(Now, Now')
  BY <1>33 DEF DropUnitFailsMoves
<1>34. CASE DetachRestMoves(Now, Now')
  BY <1>34 DEF DetachRestMoves, DropsLinks
<1>35. CASE RecordMoves(Now, Now')
  BY <1>35 DEF RecordMoves, SaveMoves, Same, installation
<1>36. CASE PurgeMoves(Now, Now')
  BY <1>36 DEF PurgeMoves
<1>37. CASE EraseMoves(Now, Now')
  BY <1>37 DEF EraseMoves, SaveMoves, Empties
<1>38. CASE ThrowMoves(Now, Now')
  BY <1>38 DEF ThrowMoves, installation, ThrowPcs
<1>39. CASE BeginMoves(Now, Now')
  BY <1>39, SetupAssumption DEF BeginMoves, installation, Idle
<1>40. CASE EndMoves(Now, Now')
  BY <1>40 DEF EndMoves, installation, Idle
<1>41. CASE EditMoves(Now, Now')
  BY <1>41 DEF EditMoves, HurtMoves
<1>42. CASE DaemonDiesMoves(Now, Now')
  BY <1>42 DEF DaemonDiesMoves, HurtMoves
<1>43. CASE AutostartMoves(Now, Now')
  BY <1>43 DEF AutostartMoves, HurtMoves
<1>44. CASE RestMoves(Now, Now')
  BY <1>44 DEF RestMoves, Same, installation
<1> QED
  BY <1>1, <1>2, <1>3, <1>4, <1>5, <1>6, <1>7, <1>8, <1>9, <1>10, <1>11, <1>12, <1>13, <1>14, <1>15,
     <1>16, <1>17, <1>18, <1>19, <1>20, <1>21, <1>22, <1>23, <1>24, <1>25, <1>26, <1>27, <1>28,
     <1>29, <1>30, <1>31, <1>32, <1>33, <1>34, <1>35, <1>36, <1>37, <1>38, <1>39, <1>40, <1>41,
     <1>42, <1>43, <1>44 DEF Moves, Works, Outside

LEMMA SelectedStep ==
    ASSUME Types, Types', Knows(Now), Moves(Now, Now')
    PROVE  Selected(Now)'
<1> USE DEF Knows, Staged, Kept, Pointer, Selected, Selects, Erasing, Types, Course, Client,
     Activates, Active, Behind, Pcs, Early, Forward, Catching, Undoing, Removing, Ends, Thens, Core,
     Tried, Served, Rest, Moved
<1>1. CASE PreflightMoves(Now, Now')
  BY <1>1 DEF PreflightMoves, Same, installation
<1>2. CASE StageMoves(Now, Now')
  BY <1>2 DEF StageMoves
<1>3. CASE OwnReleaseMoves(Now, Now')
  BY <1>3 DEF OwnReleaseMoves, AddsRelease
<1>4. CASE BuildMoves(Now, Now')
  BY <1>4 DEF BuildMoves
<1>5. CASE OwnProjectionMoves(Now, Now')
  BY <1>5 DEF OwnProjectionMoves, AddsProjection
<1>6. CASE SwitchMoves(Now, Now')
  BY <1>6 DEF SwitchMoves
<1>7. CASE BinsMoves(Now, Now')
  BY <1>7 DEF BinsMoves
<1>8. ASSUME NEW c \in Client, PassMoves(Now, Now', c) PROVE Selected(Now)'
  BY <1>8 DEF PassMoves, Same, installation, AfterClient
<1>9. ASSUME NEW c \in Client, InstallMoves(Now, Now', c) PROVE Selected(Now)'
  BY <1>9 DEF InstallMoves, AfterClient
<1>10. ASSUME NEW c \in Client, InstallFailsMoves(Now, Now', c) PROVE Selected(Now)'
  BY <1>10 DEF InstallFailsMoves
<1>11. ASSUME NEW c \in Client, RestoreMoves(Now, Now', c) PROVE Selected(Now)'
  BY <1>11 DEF RestoreMoves, AfterUndo
<1>12. ASSUME NEW c \in Client, DetachMoves(Now, Now', c) PROVE Selected(Now)'
  BY <1>12 DEF DetachMoves, DetachPc, AfterDetach, SaveMoves, DropsClient
<1>13. ASSUME NEW c \in Client, DetachFailsMoves(Now, Now', c) PROVE Selected(Now)'
  BY <1>13 DEF DetachFailsMoves, DetachPc
<1>14. CASE ServiceMoves(Now, Now')
  BY <1>14 DEF ServiceMoves, Same, installation
<1>15. CASE UnloadMoves(Now, Now')
  BY <1>15 DEF UnloadMoves
<1>16. CASE UnloadFailsMoves(Now, Now')
  BY <1>16 DEF UnloadFailsMoves
<1>17. CASE WriteUnitMoves(Now, Now')
  BY <1>17 DEF WriteUnitMoves
<1>18. CASE LoadMoves(Now, Now')
  BY <1>18 DEF LoadMoves
<1>19. CASE AnswerMoves(Now, Now')
  BY <1>19 DEF AnswerMoves, Same, installation
<1>20. CASE StopAgainMoves(Now, Now')
  BY <1>20 DEF StopAgainMoves
<1>21. CASE RestoreUnitMoves(Now, Now')
  BY <1>21 DEF RestoreUnitMoves
<1>22. CASE ReloadMoves(Now, Now')
  BY <1>22 DEF ReloadMoves
<1>23. CASE CatchFailsMoves(Now, Now')
  BY <1>23 DEF CatchFailsMoves, installation, Catching
<1>24. CASE CommitMoves(Now, Now')
  BY <1>24 DEF CommitMoves, Commits
<1>25. CASE UndoMoves(Now, Now')
  BY <1>25 DEF UndoMoves
<1>26. CASE RestoreServiceMoves(Now, Now')
  BY <1>26 DEF RestoreServiceMoves
<1>27. CASE RestoreServiceFailsMoves(Now, Now')
  BY <1>27 DEF RestoreServiceFailsMoves, installation
<1>28. CASE UnprojectMoves(Now, Now')
  BY <1>28 DEF UnprojectMoves
<1>29. CASE WriteLedgerMoves(Now, Now')
  BY <1>29 DEF WriteLedgerMoves
<1>30. CASE BeginUninstallMoves(Now, Now')
  BY <1>30 DEF BeginUninstallMoves, Same, installation
<1>31. CASE StopMoves(Now, Now')
  BY <1>31 DEF StopMoves
<1>32. CASE DropUnitMoves(Now, Now')
  BY <1>32 DEF DropUnitMoves, SaveMoves, DropsService
<1>33. CASE DropUnitFailsMoves(Now, Now')
  BY <1>33 DEF DropUnitFailsMoves
<1>34. CASE DetachRestMoves(Now, Now')
  BY <1>34 DEF DetachRestMoves, DropsLinks
<1>35. CASE RecordMoves(Now, Now')
  BY <1>35 DEF RecordMoves, SaveMoves, Same, installation
<1>36. CASE PurgeMoves(Now, Now')
  BY <1>36 DEF PurgeMoves
<1>37. CASE EraseMoves(Now, Now')
  BY <1>37 DEF EraseMoves, SaveMoves, Empties
<1>38. CASE ThrowMoves(Now, Now')
  BY <1>38 DEF ThrowMoves, installation, ThrowPcs
<1>39. CASE BeginMoves(Now, Now')
  BY <1>39 DEF BeginMoves, installation, Idle
<1>40. CASE EndMoves(Now, Now')
  BY <1>40 DEF EndMoves, installation, Idle
<1>41. CASE EditMoves(Now, Now')
  BY <1>41 DEF EditMoves, HurtMoves
<1>42. CASE DaemonDiesMoves(Now, Now')
  BY <1>42 DEF DaemonDiesMoves, HurtMoves
<1>43. CASE AutostartMoves(Now, Now')
  BY <1>43 DEF AutostartMoves, HurtMoves
<1>44. CASE RestMoves(Now, Now')
  BY <1>44 DEF RestMoves, Same, installation
<1> QED
  BY <1>1, <1>2, <1>3, <1>4, <1>5, <1>6, <1>7, <1>8, <1>9, <1>10, <1>11, <1>12, <1>13, <1>14, <1>15,
     <1>16, <1>17, <1>18, <1>19, <1>20, <1>21, <1>22, <1>23, <1>24, <1>25, <1>26, <1>27, <1>28,
     <1>29, <1>30, <1>31, <1>32, <1>33, <1>34, <1>35, <1>36, <1>37, <1>38, <1>39, <1>40, <1>41,
     <1>42, <1>43, <1>44 DEF Moves, Works, Outside

LEMMA ResolvesStep ==
    ASSUME Types, Types', Knows(Now), Moves(Now, Now')
    PROVE  Resolves(Now)'
<1> USE DEF Knows, Kept, Pointer, Resolves, OriginalsKnown, Known, Regs, AsFound, Back, Skipped,
     Passed, Types, Course, Client, Activates, Active, Behind, Pcs, Early, Forward, Catching,
     Undoing, Removing, Ends, Thens, Core, Tried, Served, Rest, Moved
<1>1. CASE PreflightMoves(Now, Now')
  BY <1>1, SetupAssumption DEF PreflightMoves, Same, installation
<1>2. CASE StageMoves(Now, Now')
  BY <1>2 DEF StageMoves
<1>3. CASE OwnReleaseMoves(Now, Now')
  BY <1>3 DEF OwnReleaseMoves, AddsRelease
<1>4. CASE BuildMoves(Now, Now')
  BY <1>4, SetupAssumption DEF BuildMoves
<1>5. CASE OwnProjectionMoves(Now, Now')
  BY <1>5 DEF OwnProjectionMoves, AddsProjection
<1>6. CASE SwitchMoves(Now, Now')
  BY <1>6 DEF SwitchMoves
<1>7. CASE BinsMoves(Now, Now')
  BY <1>7 DEF BinsMoves
<1>8. ASSUME NEW c \in Client, PassMoves(Now, Now', c) PROVE Resolves(Now)'
  BY <1>8 DEF PassMoves, Same, installation, AfterClient
<1>9. ASSUME NEW c \in Client, InstallMoves(Now, Now', c) PROVE Resolves(Now)'
  BY <1>9 DEF InstallMoves, AfterClient
<1>10. ASSUME NEW c \in Client, InstallFailsMoves(Now, Now', c) PROVE Resolves(Now)'
  BY <1>10 DEF InstallFailsMoves
<1>11. ASSUME NEW c \in Client, RestoreMoves(Now, Now', c) PROVE Resolves(Now)'
  BY <1>11, SetupAssumption DEF RestoreMoves, AfterUndo, Absent
<1>12. ASSUME NEW c \in Client, DetachMoves(Now, Now', c) PROVE Resolves(Now)'
  BY <1>12 DEF DetachMoves, DetachPc, AfterDetach, SaveMoves, DropsClient
<1>13. ASSUME NEW c \in Client, DetachFailsMoves(Now, Now', c) PROVE Resolves(Now)'
  BY <1>13, SetupAssumption DEF DetachFailsMoves, DetachPc, Absent
<1>14. CASE ServiceMoves(Now, Now')
  BY <1>14 DEF ServiceMoves, Same, installation
<1>15. CASE UnloadMoves(Now, Now')
  BY <1>15 DEF UnloadMoves
<1>16. CASE UnloadFailsMoves(Now, Now')
  BY <1>16 DEF UnloadFailsMoves
<1>17. CASE WriteUnitMoves(Now, Now')
  BY <1>17 DEF WriteUnitMoves
<1>18. CASE LoadMoves(Now, Now')
  BY <1>18 DEF LoadMoves
<1>19. CASE AnswerMoves(Now, Now')
  BY <1>19 DEF AnswerMoves, Same, installation
<1>20. CASE StopAgainMoves(Now, Now')
  BY <1>20 DEF StopAgainMoves
<1>21. CASE RestoreUnitMoves(Now, Now')
  BY <1>21 DEF RestoreUnitMoves
<1>22. CASE ReloadMoves(Now, Now')
  BY <1>22 DEF ReloadMoves
<1>23. CASE CatchFailsMoves(Now, Now')
  BY <1>23 DEF CatchFailsMoves, installation, Catching
<1>24. CASE CommitMoves(Now, Now')
  BY <1>24, SetupAssumption DEF CommitMoves, Commits, Registered
<1>25. CASE UndoMoves(Now, Now')
  BY <1>25 DEF UndoMoves
<1>26. CASE RestoreServiceMoves(Now, Now')
  BY <1>26 DEF RestoreServiceMoves
<1>27. CASE RestoreServiceFailsMoves(Now, Now')
  BY <1>27 DEF RestoreServiceFailsMoves, installation
<1>28. CASE UnprojectMoves(Now, Now')
  BY <1>28, SetupAssumption DEF UnprojectMoves
<1>29. CASE WriteLedgerMoves(Now, Now')
  BY <1>29 DEF WriteLedgerMoves
<1>30. CASE BeginUninstallMoves(Now, Now')
  BY <1>30 DEF BeginUninstallMoves, Same, installation
<1>31. CASE StopMoves(Now, Now')
  BY <1>31 DEF StopMoves
<1>32. CASE DropUnitMoves(Now, Now')
  BY <1>32 DEF DropUnitMoves, SaveMoves, DropsService
<1>33. CASE DropUnitFailsMoves(Now, Now')
  BY <1>33 DEF DropUnitFailsMoves
<1>34. CASE DetachRestMoves(Now, Now')
  BY <1>34, SetupAssumption DEF DetachRestMoves, DropsLinks, Unreferenced
<1>35. CASE RecordMoves(Now, Now')
  BY <1>35 DEF RecordMoves, SaveMoves, Same, installation
<1>36. CASE PurgeMoves(Now, Now')
  BY <1>36 DEF PurgeMoves
<1>37. CASE EraseMoves(Now, Now')
  BY <1>37 DEF EraseMoves, SaveMoves, Empties
<1>38. CASE ThrowMoves(Now, Now')
  BY <1>38 DEF ThrowMoves, installation, ThrowPcs
<1>39. CASE BeginMoves(Now, Now')
  BY <1>39 DEF BeginMoves, installation, Idle
<1>40. CASE EndMoves(Now, Now')
  BY <1>40 DEF EndMoves, installation, Idle
<1>41. CASE EditMoves(Now, Now')
  BY <1>41, SetupAssumption DEF EditMoves, HurtMoves
<1>42. CASE DaemonDiesMoves(Now, Now')
  BY <1>42 DEF DaemonDiesMoves, HurtMoves
<1>43. CASE AutostartMoves(Now, Now')
  BY <1>43 DEF AutostartMoves, HurtMoves
<1>44. CASE RestMoves(Now, Now')
  BY <1>44 DEF RestMoves, Same, installation
<1> QED
  BY <1>1, <1>2, <1>3, <1>4, <1>5, <1>6, <1>7, <1>8, <1>9, <1>10, <1>11, <1>12, <1>13, <1>14, <1>15,
     <1>16, <1>17, <1>18, <1>19, <1>20, <1>21, <1>22, <1>23, <1>24, <1>25, <1>26, <1>27, <1>28,
     <1>29, <1>30, <1>31, <1>32, <1>33, <1>34, <1>35, <1>36, <1>37, <1>38, <1>39, <1>40, <1>41,
     <1>42, <1>43, <1>44 DEF Moves, Works, Outside
==============================================================================
