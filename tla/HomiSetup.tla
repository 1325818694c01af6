------------------------------ MODULE HomiSetup ------------------------------
(***************************************************************************)
(* Setup, rollback and uninstall of HOMI (setup.mjs, with the service and  *)
(* pointer mechanics of lifecycle.mjs, the client projections of           *)
(* integration.mjs and the settings of codex-settings.mjs).  Each process  *)
(* runs one command under the installation lock, one durable step at a     *)
(* time; any step can throw, the process can be killed between two steps,  *)
(* the user can edit what was installed, and the daemon can die or be      *)
(* started by a client session meanwhile.                                  *)
(*                                                                         *)
(* Abstractions.  A release stands for its directory; the client           *)
(* projection built from it and the plugin root inside that are known by   *)
(* the release too.  A registration is the marketplace a client knows,     *)
(* whether the plugin is installed and enabled, and (Codex) the plugin's   *)
(* settings table.  HOMI's generated unit is one value: it starts whatever *)
(* `current` points at.  "Active" stands for active and enabled.           *)
(***************************************************************************)
EXTENDS InstallLock, FiniteSets, Integers

CONSTANTS Release,        \* releases that can be set up
          None,           \* null
          Selections,     \* sets of clients a setup is asked to register
          MaxEvents       \* bound on commands, failing steps, kills, edits and crashes

ASSUME SetupAssumption == /\ Release \cap {None, "user", "refused"} = {}
                          /\ Selections \subseteq SUBSET {"claude", "codex"}
                          /\ MaxEvents \in Nat

VARIABLES current,      \* the pointer `current`
          staged,       \* release directories that exist
          projections,  \* client projections that exist
          bin,          \* what bin/homi and bin/communicate are
          reg,          \* the clients' registrations
          unit,         \* the unit file at the service's path
          job,          \* the unit the service manager has loaded, or None
          daemon,       \* the daemon that answers: None or [src, managed]
          ledger,       \* install.json
          me,           \* the command each process runs: its local variables
          had,          \* whether the user had a service and plugins before
          left,         \* events still to come
          troubled      \* what has gone wrong beyond one failing step

files    == <<current, staged, projections, bin, ledger>>
service  == <<unit, job, daemon>>
bounds   == <<left, troubled>>
vars     == <<lockVars, files, service, bounds, reg, me, had>>

Client == {"claude", "codex"}
-----------------------------------------------------------------------------
Tables       == {"none", "default", "users", "edited"}
Registration == [market : Release \cup {None, "user"}, on : BOOLEAN, table : Tables]
Units        == {None, "user", "homi", "edited"}
Originals    == [unit : {"user", "homi", "edited"}, active : BOOLEAN]
Services     == [original : {None} \cup Originals, backup : Units, wasActive : BOOLEAN]
Records      == [original : Registration, root : Release, owned : Tables]
Daemons      == [src : Release \cup {None, "user"}, managed : BOOLEAN]

\* null is neither a name nor an object.
ASSUME NullAssumption == /\ None \notin {"user", "homi", "edited"} /\ None \notin Originals
                         /\ None \notin Services /\ None \notin Records /\ None \notin Daemons

Absent    == [market |-> None, on |-> FALSE, table |-> "none"]
UsersOwn(c) == [market |-> "user", on |-> TRUE,
                table |-> IF c = "codex" THEN "users" ELSE "none"]

NoLedger == [releases |-> {}, current |-> None, previous |-> None, links |-> FALSE,
             clients |-> [c \in Client |-> None], service |-> None, projections |-> {}]

Idle == [op |-> "none", pc |-> "none", dest |-> None, clients |-> {}, service |-> FALSE,
         purge |-> FALSE, saved |-> NoLedger, then |-> "none", from |-> None,
         snap |-> [c \in Client |-> Absent], bin |-> "none", made |-> FALSE,
         changed |-> {}, before |-> [unit |-> None, active |-> FALSE],
         record |-> None, newService |-> FALSE, failed |-> FALSE, hurt |-> FALSE,
         was |-> <<>>]

Init == /\ LockInit
        /\ current = None /\ staged = {} /\ projections = {} /\ bin = "none"
        /\ ledger = NoLedger /\ me = [p \in Proc |-> Idle]
        /\ left = MaxEvents /\ troubled = {}
        /\ \/ /\ had = FALSE
              /\ reg = [c \in Client |-> Absent]
              /\ unit = None /\ job = None /\ daemon = None
           \/ /\ had = TRUE
              /\ reg = [c \in Client |-> UsersOwn(c)]
              /\ unit = "user" /\ job = "user" /\ daemon = [src |-> "user", managed |-> TRUE]

At(p, s) == at[p] = "in" /\ me[p].pc = s
GoTo(p, s) == me' = [me EXCEPT ![p].pc = s]
Throw(p) == \* where an exception of the step lands
    CASE me[p].pc \in {"claude", "codex", "bins", "service", "unload", "commit"} -> "undo"
      [] me[p].pc \in {"unit", "load", "answer"} -> "svc_stop"
      [] OTHER -> "failed"

Started(u, daemonNow) == \* the daemon after unit u is loaded: it starts unless one holds the state
    IF daemonNow # None THEN daemonNow
    ELSE [src |-> IF u = "user" THEN "user" ELSE current, managed |-> TRUE]
Stopped == IF daemon # None /\ daemon.managed THEN None ELSE daemon

\* Something outside the command happened: no command under way can claim that
\* all it found is what it left.
Hurt(m) == [q \in Proc |-> [m[q] EXCEPT !.hurt = @ \/ m[q].op # "none"]]
-----------------------------------------------------------------------------
(* Taking and leaving the lock *)

Ask(p, op, dest, clients, svc, purge) ==
    /\ left > 0 /\ left' = left - 1
    /\ Make(p)
    /\ me' = [me EXCEPT ![p] = [Idle EXCEPT !.op = op, !.dest = dest, !.clients = clients,
                                            !.service = svc, !.purge = purge, !.pc = "locked"]]
    /\ UNCHANGED <<had, files, service, troubled, reg>>

AskSetup(p) == \E r \in Release, cs \in Selections, svc \in BOOLEAN : Ask(p, "setup", r, cs, svc, FALSE)
AskUninstall(p) == \/ \E purge \in BOOLEAN : Ask(p, "uninstall", None, Client, FALSE, purge)
                   \/ \E c \in Client : Ask(p, "uninstall", None, {c}, FALSE, FALSE)

\* runRollback reads the ledger and checks the previous release before the lock.
ReadRollback(p) ==
    /\ at[p] = "new" /\ me[p].op = "none"
    /\ left > 0 /\ left' = left - 1
    /\ ledger.previous # None /\ ledger.previous \in staged
    /\ me' = [me EXCEPT ![p] = [Idle EXCEPT !.op = "rollback", !.dest = ledger.previous,
                                            !.saved = ledger]]
    /\ UNCHANGED <<had, lockVars, files, service, troubled, reg>>
AskRollback(p) ==
    /\ me[p].op = "rollback" /\ Make(p)
    /\ GoTo(p, "locked")
    /\ troubled' = IF me[p].saved # ledger THEN troubled \cup {"stale"} ELSE troubled
    /\ UNCHANGED <<had, files, service, left, reg>>

Enter(p) == Record(p) /\ UNCHANGED <<had, files, service, bounds, reg, me>>
GiveUp(p) == /\ \/ Refuse(p) /\ lock # Free /\ me[p].op = "rollback" /\ left' = left
                \/ RecordFails(p) /\ left > 0 /\ left' = left - 1
             /\ me' = [me EXCEPT ![p] = Idle]
             /\ UNCHANGED <<had, files, service, troubled, reg>>

End(p) == \/ /\ me[p].pc \in {"done", "failed"} /\ Finish(p)
             /\ UNCHANGED <<had, files, service, bounds, reg, me>>
          \/ /\ Leave(p)
             /\ me' = [me EXCEPT ![p] = Idle]
             /\ UNCHANGED <<had, files, service, bounds, reg>>
-----------------------------------------------------------------------------
(* Preconditions, staging and projections *)

snapshotClaude == reg["claude"]
snapshotCodex == reg["codex"]
Owns(c, record) == reg[c] = [market |-> record.root, on |-> TRUE, table |-> record.owned]
ClientsOwned(saved, cs) == \A c \in cs : saved.clients[c] # None => Owns(c, saved.clients[c])

Preflight(p) ==
    /\ At(p, "locked") /\ me[p].op # "uninstall"
    /\ LET saved == IF me[p].op = "setup" THEN ledger ELSE me[p].saved
           cs == IF me[p].op = "setup" THEN me[p].clients
                 ELSE {c \in Client : saved.clients[c] # None}
       IN  me' = [me EXCEPT ![p] =
             [@ EXCEPT !.saved = saved, !.clients = cs, !.from = current,
                       !.snap = [c \in Client |-> IF c = "claude" THEN snapshotClaude ELSE snapshotCodex],
                       !.bin = bin, !.was = <<reg, bin, unit, job, daemon>>,
                       !.pc = IF ~ClientsOwned(saved, cs) THEN "failed"
                              ELSE IF me[p].op = "setup" THEN "stage"
                              ELSE IF cs = {} THEN "switch" ELSE "project"]]
    /\ UNCHANGED <<had, lockVars, files, service, bounds, reg>>

stabilize(p) ==
    /\ At(p, "stage")
    /\ staged' = staged \cup {me[p].dest}
    /\ GoTo(p, "own")
    /\ UNCHANGED <<had, lockVars, current, projections, bin, ledger, service, bounds, reg>>

OwnRelease(p) == \* "Completed staging is owned even if activation later fails"
    /\ At(p, "own")
    /\ LET saved == [me[p].saved EXCEPT !.releases = @ \cup {me[p].dest}]
       IN  /\ ledger' = saved
           /\ me' = [me EXCEPT ![p].saved = saved,
                               ![p].pc = IF me[p].clients = {} THEN "switch" ELSE "project"]
    /\ UNCHANGED <<had, lockVars, current, staged, projections, bin, service, bounds, reg>>

buildIntegration(p) ==
    /\ At(p, "project")
    /\ projections' = projections \cup {me[p].dest}
    /\ me' = [me EXCEPT ![p].made = me[p].dest \notin projections,
                        ![p].pc = IF me[p].op = "setup" THEN "ownproject" ELSE "switch"]
    /\ UNCHANGED <<had, lockVars, current, staged, bin, ledger, service, bounds, reg>>
OwnProjection(p) ==
    /\ At(p, "ownproject")
    /\ LET saved == [me[p].saved EXCEPT !.projections = @ \cup {me[p].dest}]
       IN  /\ ledger' = saved
           /\ me' = [me EXCEPT ![p].saved = saved, ![p].pc = "switch"]
    /\ UNCHANGED <<had, lockVars, current, staged, projections, bin, service, bounds, reg>>

switchCurrent(p) == \* after the check of the executables, outside the try block
    /\ At(p, "switch")
    /\ IF me[p].op = "setup" /\ bin = "user"
       THEN GoTo(p, "failed") /\ current' = current
       ELSE /\ current' = me[p].dest
            /\ GoTo(p, "claude")
    /\ UNCHANGED <<had, lockVars, staged, projections, bin, ledger, service, bounds, reg>>
-----------------------------------------------------------------------------
(* Registering and restoring the clients *)

Wanted(c, snap) == \* { ...before.settings, enabled: true } for Codex
    IF c = "claude" THEN "none" ELSE IF snap.table = "none" THEN "default" ELSE snap.table

Registered(c, m) == \* next.clients[c] after claudeInstall, codexInstall
    [original |-> IF m.saved.clients[c] # None THEN m.saved.clients[c].original ELSE m.snap[c],
     root |-> m.dest, owned |-> Wanted(c, m.snap[c])]

AfterClient(c, m) == IF c = "claude" THEN "codex" ELSE IF m.op = "setup" THEN "bins"
                     ELSE IF m.saved.service # None THEN "service" ELSE "commit"

\* codexInstall refuses a settings table that is neither the one it wants nor
\* the one `plugin add` writes.
Accepts(c, snap) == c = "codex" => reg[c].table \in {"none", "default", Wanted(c, snap)}

ClientInstall(p, c) ==
    /\ At(p, c)
    /\ IF c \notin me[p].clients
       THEN reg' = reg /\ GoTo(p, AfterClient(c, me[p]))
       ELSE LET ok == Accepts(c, me[p].snap[c])
            IN  /\ reg' = [reg EXCEPT ![c] = [market |-> me[p].dest, on |-> TRUE,
                              table |-> IF ok THEN Wanted(c, me[p].snap[c]) ELSE @.table]]
                /\ me' = [me EXCEPT ![p].changed = @ \cup {c},
                                    ![p].pc = IF ok THEN AfterClient(c, me[p]) ELSE "undo"]
    /\ UNCHANGED <<had, lockVars, files, service, bounds>>

ClientInstallFails(p, c) == \* one of the client's commands fails: nothing or half of it done
    /\ At(p, c) /\ c \in me[p].clients /\ left > 0
    /\ left' = left - 1
    /\ reg' \in {reg, [reg EXCEPT ![c].market = me[p].dest, ![c].on = FALSE]}
    /\ me' = [me EXCEPT ![p].changed = @ \cup {c}, ![p].pc = "undo"]
    /\ UNCHANGED <<had, lockVars, files, service, troubled>>

\* restoreCodex refuses tables that neither the user had nor the installer wrote.
Restorable(c, snap) == c = "codex" => reg[c].table \in {snap.table, Wanted(c, snap), "default", "none"}

AfterUndo(c, m) == IF c = "claude" THEN "undo_codex" ELSE IF m.op = "rollback" THEN "unproject" ELSE "failed"

Restore(p, c) == \* restoreClaude, restoreCodex in the catch blocks
    /\ At(p, IF c = "claude" THEN "undo_claude" ELSE "undo_codex")
    /\ LET todo == c \in me[p].changed
           ok == ~todo \/ Restorable(c, me[p].snap[c])
       IN  /\ reg' = IF todo /\ ok THEN [reg EXCEPT ![c] = me[p].snap[c]] ELSE reg
           /\ troubled' = IF ok THEN troubled ELSE troubled \cup {"recovery"}
           /\ me' = [me EXCEPT ![p].failed = @ \/ ~ok, ![p].pc = AfterUndo(c, me[p])]
    /\ UNCHANGED <<had, lockVars, files, service, left>>

RestoreFails(p, c) ==
    /\ At(p, IF c = "claude" THEN "undo_claude" ELSE "undo_codex")
    /\ c \in me[p].changed /\ left > 0
    /\ left' = left - 1 /\ troubled' = troubled \cup {"recovery"}
    /\ reg' \in {reg, [reg EXCEPT ![c] = Absent]}
    /\ me' = [me EXCEPT ![p].failed = TRUE, ![p].pc = AfterUndo(c, me[p])]
    /\ UNCHANGED <<had, lockVars, files, service>>

Bins(p) ==
    /\ At(p, "bins")
    /\ bin' = "ours"
    /\ GoTo(p, IF me[p].service \/ me[p].saved.service # None THEN "service" ELSE "commit")
    /\ UNCHANGED <<had, lockVars, current, staged, projections, ledger, service, bounds, reg>>
-----------------------------------------------------------------------------
(* installService *)

\* Mutant: every installation records the unit it finds as the original.
originalLatest(m) == IF unit = None THEN None ELSE [unit |-> unit, active |-> job # None]
original(m) == \* the unit to give back: recorded once, by the first installation
    IF m.saved.service # None THEN m.saved.service.original
    ELSE IF unit = None THEN None ELSE [unit |-> unit, active |-> job # None]

\* Mutant: an answering daemon is enough, whatever release it runs.
DaemonUnchangedAnswers(m) ==
    m.saved.service # None /\ unit = "homi" /\ job # None /\ daemon # None
DaemonUnchanged(m) ==
    /\ m.saved.service # None /\ unit = "homi" /\ job # None
    /\ daemon # None /\ daemon.src = current

installService(p) ==
    /\ At(p, "service")
    /\ me' = [me EXCEPT ![p] =
         IF me[p].saved.service # None /\ unit \notin {None, "homi"}
         THEN [@ EXCEPT !.pc = "undo"]
         ELSE IF DaemonUnchanged(me[p]) THEN [@ EXCEPT !.pc = "commit", !.record = me[p].saved.service]
         ELSE [@ EXCEPT !.pc = "unload", !.before = [unit |-> unit, active |-> job # None],
                        !.record = [original |-> original(me[p]), backup |-> unit,
                                    wasActive |-> job # None]]]
    /\ UNCHANGED <<had, lockVars, files, service, bounds, reg>>

unloadService(p) == \* and daemonRequest("stop")
    /\ At(p, "unload")
    /\ job' = None /\ daemon' = None
    /\ GoTo(p, "unit")
    /\ UNCHANGED <<had, lockVars, files, unit, bounds, reg>>
UnloadFails(p) == \* refused, or not gone when the deadline passes: the error leaves installService
    /\ At(p, "unload") /\ left > 0
    /\ left' = left - 1
    /\ \/ UNCHANGED <<job, daemon, troubled>>
       \/ /\ job # None /\ job' = None /\ daemon' = Stopped
          /\ troubled' = troubled \cup {"halfstop"}
    /\ me' = [me EXCEPT ![p] = [@ EXCEPT !.pc = "undo", !.record = None,
                                        !.hurt = me[p].hurt \/ job' # job]]
    /\ UNCHANGED <<had, lockVars, files, unit, reg>>

writeService(p) ==
    /\ At(p, "unit")
    /\ unit' = "homi"
    /\ GoTo(p, "load")
    /\ UNCHANGED <<had, lockVars, files, job, daemon, bounds, reg>>
loadService(p) ==
    /\ At(p, "load")
    /\ IF unit = None
       THEN GoTo(p, "svc_stop") /\ UNCHANGED <<job, daemon>>
       ELSE /\ job' = unit /\ daemon' = Started(unit, daemon)
            /\ GoTo(p, "answer")
    /\ UNCHANGED <<had, lockVars, files, unit, bounds, reg>>
Answered(p) == \* the daemon answers from the selected release, or never does
    /\ At(p, "answer")
    /\ LET ok == daemon # None /\ daemon.src = me[p].dest
       IN  me' = [me EXCEPT ![p].newService = ok, ![p].pc = IF ok THEN "commit" ELSE "svc_stop"]
    /\ UNCHANGED <<had, lockVars, files, service, bounds, reg>>

\* The catch block of installService: stop, put the pointer back, then the unit,
\* then load what was loaded.
StopAgain(p) ==
    /\ At(p, "svc_stop")
    /\ job' = None /\ daemon' = Stopped
    /\ me' = [me EXCEPT ![p].pc = "svc_restore", ![p].record = None]
    /\ UNCHANGED <<had, lockVars, files, unit, bounds, reg>>
\* Mutant: the old unit is loaded while the pointer still selects the new release.
RestoreUnitOnly(p) ==
    /\ At(p, "svc_restore")
    /\ unit' = me[p].before.unit
    /\ GoTo(p, IF me[p].before.unit # None /\ me[p].before.active THEN "svc_reload" ELSE "undo")
    /\ UNCHANGED <<had, lockVars, current, staged, projections, bin, ledger, job, daemon, bounds, reg>>
RestoreUnit(p) ==
    /\ At(p, "svc_restore")
    /\ current' = me[p].from /\ unit' = me[p].before.unit
    /\ GoTo(p, IF me[p].before.unit # None /\ me[p].before.active THEN "svc_reload" ELSE "undo")
    /\ UNCHANGED <<had, lockVars, staged, projections, bin, ledger, job, daemon, bounds, reg>>
Reload(p) ==
    /\ At(p, "svc_reload") /\ unit # None
    /\ job' = unit /\ daemon' = Started(unit, daemon)
    /\ GoTo(p, "undo")
    /\ UNCHANGED <<had, lockVars, files, unit, bounds, reg>>
CatchFails(p) ==
    /\ me[p].pc \in {"svc_stop", "svc_restore", "svc_reload"} /\ at[p] = "in"
    /\ \/ left > 0 /\ left' = left - 1
       \/ me[p].pc = "svc_reload" /\ unit = None /\ left' = left
    /\ troubled' = troubled \cup {"recovery"}
    /\ me' = [me EXCEPT ![p] = [@ EXCEPT !.pc = "undo", !.record = None, !.hurt = TRUE]]
    /\ UNCHANGED <<had, lockVars, files, service, reg>>
-----------------------------------------------------------------------------
(* The end of an activation, and its undoing *)

Committed(m) ==
    [m.saved EXCEPT
        !.current = m.dest,
        !.previous = IF m.op = "rollback" \/ (m.from # None /\ m.from # m.dest) THEN m.from ELSE @,
        !.projections = IF m.clients = {} THEN @ ELSE @ \cup {m.dest},
        !.links = @ \/ m.op = "setup",
        !.service = IF m.record # None THEN m.record ELSE @,
        !.clients = [c \in Client |-> IF c \in m.clients THEN Registered(c, m) ELSE @[c]]]

Commit(p) ==
    /\ At(p, "commit")
    /\ ledger' = Committed(me[p])
    /\ GoTo(p, "done")
    /\ UNCHANGED <<had, lockVars, current, staged, projections, bin, service, bounds, reg>>

\* Mutant: a failed activation leaves the pointer where it is.
UndoNoPointer(p) ==
    /\ At(p, "undo")
    /\ bin' = IF me[p].op = "setup" THEN me[p].bin ELSE bin
    /\ GoTo(p, IF me[p].op = "setup" /\ me[p].newService THEN "undo_service" ELSE "undo_claude")
    /\ UNCHANGED <<had, lockVars, current, staged, projections, ledger, service, bounds, reg>>
Undo(p) == \* the pointer and, in setup, the executables; rollback has no step for the service
    /\ At(p, "undo")
    /\ current' = me[p].from
    /\ bin' = IF me[p].op = "setup" THEN me[p].bin ELSE bin
    /\ GoTo(p, IF me[p].op = "setup" /\ me[p].newService THEN "undo_service" ELSE "undo_claude")
    /\ UNCHANGED <<had, lockVars, staged, projections, ledger, service, bounds, reg>>

restoreService(p) ==
    /\ At(p, "undo_service")
    /\ unit' = me[p].record.backup
    /\ job' = IF unit' # None /\ me[p].record.wasActive THEN unit' ELSE None
    /\ daemon' = IF job' = None THEN Stopped ELSE Started(unit', Stopped)
    /\ GoTo(p, "undo_claude")
    /\ UNCHANGED <<had, lockVars, files, bounds, reg>>
RestoreServiceFails(p) == \* thrown out of the catch block: the clients are not restored
    /\ At(p, "undo_service") /\ left > 0
    /\ left' = left - 1 /\ troubled' = troubled \cup {"recovery"}
    /\ me' = [me EXCEPT ![p].pc = "failed", ![p].hurt = TRUE]
    /\ UNCHANGED <<had, lockVars, files, service, reg>>

removeIntegration(p) == \* runRollback: only when every client is known to be back
    /\ At(p, "unproject")
    /\ projections' = IF me[p].made /\ ~me[p].failed THEN projections \ {me[p].dest} ELSE projections
    /\ GoTo(p, "failed")
    /\ UNCHANGED <<had, lockVars, current, staged, bin, ledger, service, bounds, reg>>
-----------------------------------------------------------------------------
(* Uninstall *)

\* saved is changed and written before the command goes on.
Save(p, saved, s) == me' = [me EXCEPT ![p] = [@ EXCEPT !.saved = saved, !.pc = "save", !.then = s]]
WriteLedger(p) ==
    /\ At(p, "save")
    /\ ledger' = me[p].saved
    /\ GoTo(p, me[p].then)
    /\ UNCHANGED <<had, lockVars, current, staged, projections, bin, service, bounds, reg>>

BeginUninstall(p) ==
    /\ At(p, "locked") /\ me[p].op = "uninstall"
    /\ me' = [me EXCEPT ![p].saved = ledger, ![p].pc = "detach_claude"]
    /\ UNCHANGED <<had, lockVars, files, service, bounds, reg>>

DetachPc(c) == IF c = "claude" THEN "detach_claude" ELSE "detach_codex"
AfterDetach(c, m) == IF c = "claude" THEN "detach_codex"
                     ELSE IF m.clients = Client THEN "detach_service" ELSE "record"

ClientUninstall(p, c) == \* claudeUninstall, codexUninstall
    /\ At(p, DetachPc(c))
    /\ LET record == IF c \in me[p].clients THEN me[p].saved.clients[c] ELSE None
           next == AfterDetach(c, me[p])
           without == [me[p].saved EXCEPT !.clients[c] = None]
       IN  \/ /\ record = None
              /\ GoTo(p, next) /\ reg' = reg
           \/ /\ record # None /\ reg[c].market # record.root
              /\ Save(p, without, next) /\ reg' = reg
           \/ /\ record # None /\ reg[c].market = record.root /\ ~Owns(c, record)
              /\ GoTo(p, "failed") /\ reg' = reg
           \/ /\ record # None /\ Owns(c, record)
              /\ Save(p, without, next)
              /\ reg' = [reg EXCEPT ![c] = record.original]
    /\ UNCHANGED <<had, lockVars, files, service, bounds>>
DetachFails(p, c) == \* the original did not come back, and neither did the current registration
    /\ At(p, DetachPc(c)) /\ c \in me[p].clients /\ left > 0
    /\ me[p].saved.clients[c] # None /\ Owns(c, me[p].saved.clients[c])
    /\ left' = left - 1 /\ troubled' = troubled \cup {"recovery"}
    /\ reg' = [reg EXCEPT ![c] = Absent]
    /\ me' = [me EXCEPT ![p].pc = "failed"]
    /\ UNCHANGED <<had, lockVars, files, service>>

uninstallService(p) ==
    /\ At(p, "detach_service")
    /\ IF me[p].saved.service = None \/ unit \notin {None, "homi"}
       THEN GoTo(p, "detach_rest") /\ UNCHANGED <<job, daemon>>
       ELSE /\ job' = None /\ daemon' = Stopped
            /\ me' = [me EXCEPT ![p].before = [unit |-> unit, active |-> job # None],
                                ![p].pc = "drop_unit"]
    /\ UNCHANGED <<had, lockVars, files, unit, bounds, reg>>
\* Mutant: ownership is dropped with the unit left in place.
DropUnitKeeps(p) ==
    /\ At(p, "drop_unit")
    /\ LET o == me[p].saved.service.original
       IN  /\ unit' = IF o = None THEN unit ELSE o.unit
           /\ job' = IF o # None /\ o.active THEN unit' ELSE None
           /\ daemon' = IF job' = None THEN daemon ELSE Started(unit', daemon)
    /\ Save(p, [me[p].saved EXCEPT !.service = None], "detach_rest")
    /\ UNCHANGED <<had, lockVars, files, bounds, reg>>
DropUnit(p) ==
    /\ At(p, "drop_unit")
    /\ LET o == me[p].saved.service.original
       IN  /\ unit' = IF o = None THEN None ELSE o.unit
           /\ job' = IF o # None /\ o.active THEN unit' ELSE None
           /\ daemon' = IF job' = None THEN daemon ELSE Started(unit', daemon)
    /\ Save(p, [me[p].saved EXCEPT !.service = None], "detach_rest")
    /\ UNCHANGED <<had, lockVars, files, bounds, reg>>
DropUnitFails(p) ==
    /\ At(p, "drop_unit") /\ left > 0
    /\ left' = left - 1
    /\ unit' = me[p].before.unit
    /\ job' = IF me[p].before.active /\ unit' # None THEN unit' ELSE None
    /\ daemon' = IF job' = None THEN daemon ELSE Started(unit', daemon)
    /\ GoTo(p, "failed")
    /\ UNCHANGED <<had, lockVars, files, troubled, reg>>

\* Mutant: projections are removed without looking at the registrations.
DetachRestBlindly(p) ==
    /\ At(p, "detach_rest")
    /\ bin' = IF bin = "ours" /\ me[p].saved.links THEN "none" ELSE bin
    /\ LET gone == IF \A c \in Client : me[p].saved.clients[c] = None THEN me[p].saved.projections ELSE {}
       IN  /\ projections' = projections \ gone
           /\ LET saved == [me[p].saved EXCEPT !.links = FALSE, !.projections = @ \ gone]
              IN  me' = [me EXCEPT ![p].saved = saved, ![p].pc = "record"]
    /\ UNCHANGED <<had, lockVars, current, staged, ledger, service, bounds, reg>>
DetachRest(p) == \* executables and projections; a referenced projection stays
    /\ At(p, "detach_rest")
    /\ bin' = IF bin = "ours" /\ me[p].saved.links THEN "none" ELSE bin
    /\ LET detached == \A c \in Client : me[p].saved.clients[c] = None
           gone == IF detached
                   THEN {r \in me[p].saved.projections : \A c \in Client : reg[c].market # r}
                   ELSE {}
       IN  /\ projections' = projections \ gone
           /\ LET saved == [me[p].saved EXCEPT !.links = FALSE, !.projections = @ \ gone]
              IN  me' = [me EXCEPT ![p].saved = saved, ![p].pc = "record"]
    /\ UNCHANGED <<had, lockVars, current, staged, ledger, service, bounds, reg>>

RecordDetached(p) ==
    /\ At(p, "record")
    /\ Save(p, me[p].saved, IF me[p].purge THEN "purge" ELSE "done")
    /\ UNCHANGED <<had, lockVars, files, service, bounds, reg>>

MayPurge(saved) ==
    /\ \A c \in Client : saved.clients[c] = None
    /\ saved.service = None /\ ~saved.links /\ saved.projections = {}
    /\ saved.releases \subseteq staged
    /\ daemon # None => daemon.src \notin saved.releases
Purge(p) ==
    /\ At(p, "purge")
    /\ IF MayPurge(me[p].saved)
       THEN current' = None /\ GoTo(p, "erase")
       ELSE current' = current /\ GoTo(p, "failed")
    /\ UNCHANGED <<had, lockVars, staged, projections, bin, ledger, service, bounds, reg>>
Erase(p) ==
    /\ At(p, "erase")
    /\ IF me[p].saved.releases \cap staged = {}
       THEN /\ Save(p, [me[p].saved EXCEPT !.current = None, !.previous = None,
                                           !.releases = {}], "done")
            /\ staged' = staged
       ELSE /\ \E r \in me[p].saved.releases \cap staged : staged' = staged \ {r}
            /\ me' = me
    /\ UNCHANGED <<had, lockVars, current, projections, bin, ledger, service, bounds, reg>>
-----------------------------------------------------------------------------
(* What can go wrong *)

Fails(p) == \* the step throws before it changed anything
    /\ at[p] = "in" /\ left > 0
    /\ me[p].pc \in {"stage", "own", "project", "ownproject", "switch", "bins", "service",
                     "unit", "load", "answer", "commit", "save", "erase"}
    /\ left' = left - 1
    /\ troubled' = IF me[p].pc = "erase" \/ (me[p].pc = "save" /\ me[p].then = "done")
                   THEN troubled \cup {"recovery"} ELSE troubled
    /\ GoTo(p, Throw(p))
    /\ UNCHANGED <<had, lockVars, files, service, reg>>

Kill(p) ==
    /\ Die(p) /\ left > 0
    /\ left' = left - 1 /\ troubled' = troubled \cup {"kill"}
    /\ me' = [me EXCEPT ![p] = Idle]
    /\ UNCHANGED <<had, files, service, reg>>

Rename == SetAside /\ UNCHANGED <<had, files, service, bounds, reg, me>>

Edit == \* the user takes over what was installed
    /\ left > 0 /\ left' = left - 1
    /\ \/ \E c \in Client : /\ reg[c].market \in Release
                            /\ reg' \in {[reg EXCEPT ![c] = UsersOwn(c)],
                                         [reg EXCEPT ![c].on = FALSE],
                                         [reg EXCEPT ![c].table = IF c = "codex" THEN "edited" ELSE @]}
                            /\ UNCHANGED <<unit, bin>>
       \/ unit = "homi" /\ unit' \in {None, "edited"} /\ UNCHANGED <<reg, bin>>
       \/ bin = "ours" /\ bin' = "user" /\ UNCHANGED <<reg, unit>>
    /\ me' = Hurt(me)
    /\ UNCHANGED <<had, lockVars, current, staged, projections, ledger, job, daemon, troubled>>

DaemonDies == \* the service manager starts its unit again
    /\ daemon # None /\ left > 0
    /\ left' = left - 1 /\ me' = Hurt(me)
    /\ daemon' = IF job = None THEN None ELSE Started(job, None)
    /\ UNCHANGED <<had, lockVars, files, unit, job, troubled, reg>>

Autostart == \* a client session finds no daemon and starts the one of its release
    /\ daemon = None /\ left > 0
    /\ \E r \in staged : daemon' = [src |-> r, managed |-> FALSE]
    /\ left' = left - 1 /\ me' = Hurt(me)
    /\ UNCHANGED <<had, lockVars, files, unit, job, troubled, reg>>
-----------------------------------------------------------------------------
Step(p) ==
    \/ AskSetup(p) \/ AskUninstall(p) \/ ReadRollback(p) \/ AskRollback(p)
    \/ Enter(p) \/ GiveUp(p) \/ End(p)
    \/ Preflight(p) \/ stabilize(p) \/ OwnRelease(p) \/ buildIntegration(p)
    \/ OwnProjection(p) \/ switchCurrent(p) \/ Bins(p)
    \/ \E c \in Client : \/ ClientInstall(p, c) \/ ClientInstallFails(p, c)
                         \/ Restore(p, c) \/ RestoreFails(p, c)
                         \/ ClientUninstall(p, c) \/ DetachFails(p, c)
    \/ installService(p) \/ unloadService(p) \/ UnloadFails(p) \/ writeService(p)
    \/ loadService(p) \/ Answered(p) \/ StopAgain(p) \/ RestoreUnit(p) \/ Reload(p)
    \/ CatchFails(p) \/ Commit(p) \/ Undo(p) \/ restoreService(p) \/ RestoreServiceFails(p)
    \/ removeIntegration(p) \/ WriteLedger(p) \/ BeginUninstall(p) \/ uninstallService(p)
    \/ DropUnit(p) \/ DropUnitFails(p) \/ DetachRest(p) \/ RecordDetached(p) \/ Purge(p)
    \/ Erase(p) \/ Fails(p) \/ Kill(p)

Next == (\E p \in Proc : Step(p)) \/ Rename \/ Edit \/ DaemonDies \/ Autostart

Spec == Init /\ [][Next]_vars
-----------------------------------------------------------------------------
TypeOK ==
    /\ LockTypeOK
    /\ current \in Release \cup {None} /\ staged \subseteq Release /\ projections \subseteq Release
    /\ bin \in {"none", "ours", "user"} /\ reg \in [Client -> Registration]
    /\ {unit, job} \subseteq Units /\ daemon \in {None} \cup Daemons
    /\ ledger.service \in {None} \cup Services
    /\ ledger.releases \subseteq Release /\ ledger.projections \subseteq Release
    /\ {ledger.current, ledger.previous} \subseteq Release \cup {None}
    /\ left \in 0..MaxEvents /\ troubled \subseteq {"kill", "recovery", "stale", "halfstop"}

Quiet == (\A p \in Proc : at[p] \notin Live) /\ troubled = {}

(* A failed activation that reports no recovery failure has put back the    *)
(* pointer, the executables, the registrations, the unit and its job, and a *)
(* daemon the manager ran before runs again (setup.mjs:567-587).            *)
Restored(p) ==
    LET was == me[p].was
    IN  /\ current = me[p].from
        /\ <<reg, bin, unit>> = <<was[1], was[2], was[3]>>
        /\ was[3] # None => (job # None) = (was[4] # None)
        /\ was[3] # None /\ was[5] # None /\ was[5].managed =>
              /\ daemon # None
              /\ daemon = was[5] \/ daemon.src = current
Undisturbed(p, op, end) ==
    /\ at[p] = "in" /\ me[p].op = op /\ me[p].pc = end
    /\ ~me[p].hurt /\ ~me[p].failed
FailedSetupRestores == \A p \in Proc : Undisturbed(p, "setup", "failed") => Restored(p)
FailedRollbackRestores == \A p \in Proc : Undisturbed(p, "rollback", "failed") => Restored(p)

(* Whatever was killed or failed before, a setup that completes leaves one   *)
(* release selected, owned, registered and, where a service is managed,      *)
(* running (setup.mjs:527-566).                                              *)
SetupHeals ==
    \A p \in Proc : Undisturbed(p, "setup", "done") =>
        LET r == me[p].dest
        IN  /\ current = r /\ ledger.current = r /\ r \in staged \cap ledger.releases
            /\ bin = "ours" /\ ledger.links
            /\ \A c \in me[p].clients :
                  /\ reg[c].market = r /\ reg[c].on
                  /\ ledger.clients[c].root = r /\ r \in projections \cap ledger.projections
            /\ me[p].service \/ ledger.service # None =>
                  /\ unit = "homi" /\ job # None /\ ledger.service # None
                  /\ daemon # None /\ daemon.src = r

(* What the ledger keeps to give back at uninstall is the user's, never a    *)
(* copy of HOMI's own unit or registration (lifecycle.mjs:278-279); and the  *)
(* user's unit is on disk or in the ledger when no installer works.          *)
OriginalKept ==
    troubled = {} =>
        /\ \A c \in Client : ledger.clients[c] # None => ledger.clients[c].original.market \notin Release
        /\ ledger.service # None /\ ledger.service.original # None =>
              ledger.service.original.unit = "user"
        /\ Quiet /\ had => \/ unit = "user"
                           \/ ledger.service # None /\ ledger.service.original # None

(* Nothing of HOMI's is active that an uninstall would not know of.          *)
OwnedIsRecorded ==
    Quiet => /\ unit = "homi" => ledger.service # None
             /\ bin = "ours" => ledger.links
             /\ \A c \in Client : reg[c].market \in Release =>
                   ledger.clients[c] # None /\ ledger.clients[c].root = reg[c].market

(* A registered marketplace is a directory that exists, whatever fails or is *)
(* killed (integration.mjs:99-107), as long as no rollback writes back a     *)
(* ledger that was changed after it read it (setup.mjs:594).                 *)
RegistrationsResolve ==
    "stale" \notin troubled =>
        \A c \in Client : reg[c].market \in Release => reg[c].market \in projections

(* The commands find the runtime the ledger selects (runtime-selection.mjs): *)
(* the pointer and the ledger agree.                                         *)
selectedRuntime == IF ledger.current = None THEN "package"
                   ELSE IF current = ledger.current /\ current \in staged THEN current ELSE "refused"
RuntimeSelected == Quiet => selectedRuntime # "refused"
=============================================================================
