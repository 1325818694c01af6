------------------------------ MODULE BusRehome ------------------------------
(***************************************************************************)
(* Moving one device's enrolment from an old to a new origin of the same   *)
(* hub: rehome_connection of lib/bus.py, with the worker and the commands  *)
(* of the device's sessions around it.                                     *)
(*                                                                         *)
(* The move rewrites three files, the receipt journal, registrations.json  *)
(* and client.json, in four durable steps.  A step may fail, and then the  *)
(* handler undoes the move in four more steps, any of which may fail too;  *)
(* or the process dies between two steps, its locks go with it, and        *)
(* everybody else carries on with the files as they are.  It may be run    *)
(* again afterwards.                                                       *)
(*                                                                         *)
(* Left out: the two snapshots that confirm the broker behind the new      *)
(* origin (it is the same one here), readmission under another principal,  *)
(* other hubs, and the journal's two-day pruning.                          *)
(***************************************************************************)
EXTENDS Integers, FiniteSets

CONSTANTS
    Sessions,       \* sessions of this device
    Buses,
    Mail, Target,   \* messages for them, and whom each is for
    MaxWindow,      \* bound: sends whose conversations each end later than the last
    MaxChanges,     \* bound: registrations and leaves
    MaxCrashes,     \* bound: processes that die
    MaxFailures     \* bound: writes that fail, and requests whose response is lost

ASSUME RehomeAssumption ==
    /\ Target \in [Mail -> Sessions]
    /\ MaxWindow \in Nat /\ MaxChanges \in Nat /\ MaxCrashes \in Nat /\ MaxFailures \in Nat

Origins == {"old", "new"}

VARIABLES
    client,     \* client.json: the connected origins, and whether old is an alias of new
    regs,       \* registrations.json: <<origin, session>> |-> adapter
    journal,    \* receipts.sqlite: the <<origin, message>> on record
    members,    \* the hub: the buses each session is published on
    settled,    \* the hub: mail whose acknowledgement it has
    pc, saved,  \* the move: its next step, what it holds in memory
    cmd,        \* each session's command, between its request and its local half
    envelope,   \* the worker: Down, Free, or the envelope it works on
    recorded,   \* mail ever put on record (a history)
    window,     \* the latest end of a conversation each session was told of (a history)
    astray,     \* sessions whose last registration died half-way (a history)
    stranded,   \* sessions a command of which ended with an origin not connected (a history)
    interrupted,\* a move ended without finishing or undoing itself (a history)
    sent, changes, crashes, failures

files == <<client, regs, journal>>
hub == <<members, settled>>
worker == <<envelope, recorded>>
commands == <<cmd, window, astray, stranded, sent, changes>>
faults == <<crashes, failures>>
vars == <<files, hub, pc, saved, worker, commands, interrupted, faults>>

Adapter == [buses : SUBSET Buses, reply_until : 0..MaxWindow]
Forward == {"copy", "expand", "switch", "migrate"}
Undoing == {"keep_both", "switch_back", "restore", "uncopy"}

\* The move owns worker-start and worker; from "read" on client and registrations too.
HoldsWorker == pc \in {"read"} \cup Forward \cup Undoing
HoldsFiles == pc \in Forward \cup Undoing

Nothing == [op |-> "none"]
Down == [at |-> "down"]     \* no worker process
Free == [at |-> "free"]     \* a worker between two envelopes

TypeOK ==
    /\ client.connections \subseteq Origins /\ client.aliased \in BOOLEAN
    /\ regs \in [DOMAIN regs -> Adapter] /\ DOMAIN regs \subseteq Origins \X Sessions
    /\ journal \subseteq Origins \X Mail /\ recorded \subseteq Mail /\ settled \subseteq Mail
    /\ members \in [Sessions -> SUBSET Buses]
    /\ pc \in {"idle", "pause", "read"} \cup Forward \cup Undoing
    /\ HoldsWorker => envelope.at = "down"
    /\ client.aliased => "new" \in client.connections
    /\ cmd \in [Sessions -> {Nothing} \cup [op : {"register"}, url : Origins, buses : SUBSET Buses]
                    \cup [op : {"leave"}, url : Origins, bus : Buses]
                    \cup [op : {"retain"}, url : Origins, until : 1..MaxWindow]]
    /\ envelope \in {Down, Free} \cup [at : {"fetched", "handed", "recorded"}, url : Origins, mail : Mail]
    /\ window \in [Sessions -> 0..MaxWindow] /\ astray \subseteq Sessions /\ stranded \subseteq Sessions

Init ==
    /\ client = [connections |-> {"old"}, aliased |-> FALSE]
    /\ regs = [x \in {} |-> 0] /\ journal = {}
    /\ members = [s \in Sessions |-> {}] /\ settled = {}
    /\ pc = "idle" /\ saved = Nothing
    /\ cmd = [s \in Sessions |-> Nothing]
    /\ envelope = Down /\ recorded = {}
    /\ window = [s \in Sessions |-> 0] /\ astray = {} /\ stranded = {} /\ interrupted = FALSE
    /\ sent = 0 /\ changes = 0 /\ crashes = 0 /\ failures = 0

\* canonical_hub: where an origin a command started with leads now.
canonical_hub(o) == IF o = "old" /\ client.aliased THEN "new" ELSE o

-----------------------------------------------------------------------------
(* The files the move writes. *)

Max2(x, y) == IF x > y THEN x ELSE y
AsNew(x) == <<"new", x[2]>>

\* Mutant: an adapter already there replaces the one that moves.
MergedKeepsPrior(r, x) ==
    IF AsNew(x) \in DOMAIN r THEN r[AsNew(x)] ELSE r[x]

\* The moved form of old adapter x: what an earlier, interrupted move left at the
\* new origin is merged in.
Merged(r, x) ==
    IF AsNew(x) \in DOMAIN r
    THEN [buses |-> r[x].buses \cup r[AsNew(x)].buses,
          reply_until |-> Max2(r[x].reply_until, r[AsNew(x)].reply_until)]
    ELSE r[x]

\* Adapters at both origins.
Expanded(r) ==
    LET old == {x \in DOMAIN r : x[1] = "old"}
    IN  [x \in DOMAIN r \cup {AsNew(y) : y \in old} |->
            IF x[1] = "new" /\ <<"old", x[2]>> \in old THEN Merged(r, <<"old", x[2]>>) ELSE r[x]]

Migrated(r) == [x \in {y \in DOMAIN Expanded(r) : y[1] # "old"} |-> Expanded(r)[x]]

\* The connection moves, and the old origin becomes an alias of the new one.
Updated(c) == [connections |-> (c.connections \ {"old"}) \cup {"new"}, aliased |-> TRUE]

OnRecord(o, m) == <<o, m>> \in journal

\* What the move reads once it holds every lock.
Original == [client |-> client, regs |-> regs,
             copied |-> {m \in Mail : OnRecord("old", m) /\ ~OnRecord("new", m)}]

\* Mutant: the receipts stay behind.
FirstStepExpand == "expand"

FirstStep == "copy"

\* Mutant: the old adapters go before the client has switched.
NextStepEarlyMigrate ==
    [copy |-> "migrate", migrate |-> "switch", switch |-> "idle", expand |-> "migrate",
     keep_both |-> "switch_back", switch_back |-> "restore", restore |-> "uncopy",
     uncopy |-> "idle"]

\* The order of the durable steps, forward and back.
NextStep ==
    [copy |-> "expand", expand |-> "switch", switch |-> "migrate", migrate |-> "idle",
     keep_both |-> "switch_back", switch_back |-> "restore", restore |-> "uncopy",
     uncopy |-> "idle"]

\* The write of the step pc is at.
Write ==
    \/ /\ pc = "copy" /\ journal' = journal \cup ({"new"} \X saved.copied)
       /\ UNCHANGED <<client, regs>>
    \/ /\ pc \in {"expand", "keep_both"} /\ regs' = Expanded(saved.regs)
       /\ UNCHANGED <<client, journal>>
    \/ /\ pc = "switch" /\ client' = Updated(saved.client)
       /\ UNCHANGED <<regs, journal>>
    \/ /\ pc = "migrate" /\ regs' = Migrated(saved.regs)
       /\ UNCHANGED <<client, journal>>
    \/ /\ pc = "switch_back" /\ client' = saved.client
       /\ UNCHANGED <<regs, journal>>
    \/ /\ pc = "restore" /\ regs' = saved.regs
       /\ UNCHANGED <<client, journal>>
    \/ /\ pc = "uncopy" /\ journal' = journal \ ({"new"} \X saved.copied)
       /\ UNCHANGED <<client, regs>>

-----------------------------------------------------------------------------
(* The move. *)

Begin ==
    /\ pc = "idle" /\ "old" \in client.connections
    /\ pc' = "pause"
    /\ UNCHANGED <<files, hub, saved, worker, commands, interrupted, faults>>

\* The worker was asked to stop and has released its lock.
AcquireWorker ==
    /\ pc = "pause" /\ envelope = Down
    /\ pc' = "read"
    /\ UNCHANGED <<files, hub, saved, worker, commands, interrupted, faults>>

\* The worker did not pause in time: nothing was moved.
GiveUp ==
    /\ pc = "pause" /\ envelope # Down
    /\ pc' = "idle"
    /\ UNCHANGED <<files, hub, saved, worker, commands, interrupted, faults>>

ReadFiles ==
    /\ pc = "read"
    /\ saved' = Original
    /\ pc' = FirstStep
    /\ UNCHANGED <<files, hub, worker, commands, interrupted, faults>>

Advance ==
    /\ pc \in DOMAIN NextStep
    /\ Write
    /\ pc' = NextStep[pc]
    /\ saved' = IF pc' = "idle" THEN Nothing ELSE saved
    /\ UNCHANGED <<hub, worker, commands, interrupted, faults>>

\* A write fails, before or after its effect: the move is undone.
Fail ==
    /\ pc \in Forward /\ failures < MaxFailures
    /\ Write \/ UNCHANGED files
    /\ pc' = "keep_both"
    /\ failures' = failures + 1
    /\ UNCHANGED <<hub, saved, worker, commands, interrupted, crashes>>

\* A write of the handler fails: the rest of it is skipped.
FailAgain ==
    /\ pc \in Undoing /\ failures < MaxFailures
    /\ Write \/ UNCHANGED files
    /\ pc' = "idle" /\ saved' = Nothing /\ interrupted' = TRUE
    /\ failures' = failures + 1
    /\ UNCHANGED <<hub, worker, commands, crashes>>

MoveDies ==
    /\ pc # "idle" /\ crashes < MaxCrashes
    /\ pc' = "idle" /\ saved' = Nothing /\ interrupted' = (interrupted \/ HoldsFiles)
    /\ crashes' = crashes + 1
    /\ UNCHANGED <<files, hub, worker, commands, failures>>

-----------------------------------------------------------------------------
(* The worker. *)

StartWorker ==
    /\ envelope = Down /\ pc = "idle"
    /\ envelope' = Free
    /\ UNCHANGED <<files, hub, pc, saved, recorded, commands, interrupted, faults>>

StopWorker ==
    /\ envelope = Free
    /\ envelope' = Down
    /\ UNCHANGED <<files, hub, pc, saved, recorded, commands, interrupted, faults>>

active_adapter(r) == r.buses # {} \/ r.reply_until > 0

\* An envelope on record under the origin it came from is only acknowledged.
Fetch(o, m) ==
    /\ envelope = Free
    /\ o \in client.connections
    /\ <<o, Target[m]>> \in DOMAIN regs /\ active_adapter(regs[<<o, Target[m]>>])
    /\ m \notin settled
    /\ envelope' = [at |-> IF OnRecord(o, m) THEN "recorded" ELSE "fetched", url |-> o, mail |-> m]
    /\ UNCHANGED <<files, hub, pc, saved, recorded, commands, interrupted, faults>>

HandOver ==
    /\ envelope.at = "fetched"
    /\ envelope' = [envelope EXCEPT !.at = "handed"]
    /\ UNCHANGED <<files, hub, pc, saved, recorded, commands, interrupted, faults>>

Record ==
    /\ envelope.at = "handed"
    /\ journal' = journal \cup {<<envelope.url, envelope.mail>>}
    /\ recorded' = recorded \cup {envelope.mail}
    /\ envelope' = [envelope EXCEPT !.at = "recorded"]
    /\ UNCHANGED <<client, regs, hub, pc, saved, commands, interrupted, faults>>

Ack ==
    /\ envelope.at = "recorded"
    /\ settled' = settled \cup {envelope.mail}
    /\ envelope' = Free
    /\ UNCHANGED <<files, members, pc, saved, recorded, commands, interrupted, faults>>

AckLost ==
    /\ envelope.at = "recorded" /\ failures < MaxFailures
    /\ envelope' = Free
    /\ failures' = failures + 1
    /\ UNCHANGED <<files, hub, pc, saved, recorded, commands, interrupted, crashes>>

WorkerDies ==
    /\ envelope \notin {Down, Free} /\ crashes < MaxCrashes
    /\ envelope' = Down
    /\ crashes' = crashes + 1
    /\ UNCHANGED <<files, hub, pc, saved, recorded, commands, interrupted, failures>>

-----------------------------------------------------------------------------
(* The sessions' commands: a request over a connection read without a lock, *)
(* then a change to registrations.json under its lock.                      *)

RegisterRequest(s, b, o) ==
    /\ cmd[s] = Nothing /\ changes < MaxChanges /\ o \in client.connections
    /\ members' = [members EXCEPT ![s] = @ \cup {b}]
    /\ cmd' = [cmd EXCEPT ![s] = [op |-> "register", url |-> o, buses |-> members'[s]]]
    /\ changes' = changes + 1
    /\ UNCHANGED <<files, settled, pc, saved, worker, window, astray, stranded, sent, interrupted, faults>>

\* local_agent and the leave request.
LeaveRequest(s, b, o) ==
    /\ cmd[s] = Nothing /\ changes < MaxChanges /\ o \in client.connections
    /\ <<o, s>> \in DOMAIN regs
    /\ members' = [members EXCEPT ![s] = @ \ {b}]
    /\ cmd' = [cmd EXCEPT ![s] = [op |-> "leave", url |-> o, bus |-> b]]
    /\ changes' = changes + 1
    /\ UNCHANGED <<files, settled, pc, saved, worker, window, astray, stranded, sent, interrupted, faults>>

\* A send, whose conversation ends after all before it.
SendRequest(s, o) ==
    /\ cmd[s] = Nothing /\ sent < MaxWindow /\ o \in client.connections
    /\ <<o, s>> \in DOMAIN regs
    /\ cmd' = [cmd EXCEPT ![s] = [op |-> "retain", url |-> o, until |-> sent + 1]]
    /\ sent' = sent + 1
    /\ UNCHANGED <<files, hub, pc, saved, worker, window, astray, stranded, changes, interrupted, faults>>

\* Mutant: the adapter is written where the command started.
HomeUnmoved(s) == <<cmd[s].url, s>>

Home(s) == <<canonical_hub(cmd[s].url), s>>

Finished(s) == cmd' = [cmd EXCEPT ![s] = Nothing]
Changed(s, r) == regs' = [x \in DOMAIN regs \cup {Home(s)} |-> IF x = Home(s) THEN r ELSE regs[x]]

RememberAdapter(s) ==
    /\ cmd[s].op = "register" /\ ~HoldsFiles
    /\ Changed(s, [buses |-> cmd[s].buses,
                   reply_until |-> IF Home(s) \in DOMAIN regs THEN regs[Home(s)].reply_until ELSE 0])
    /\ Finished(s)
    /\ astray' = astray \ {s}
    /\ stranded' = IF canonical_hub(cmd[s].url) \in client.connections THEN stranded ELSE stranded \cup {s}
    /\ UNCHANGED <<client, journal, hub, pc, saved, worker, window, sent, changes, interrupted, faults>>

RetainReplyAdapter(s) ==
    /\ cmd[s].op = "retain" /\ ~HoldsFiles
    /\ IF Home(s) \in DOMAIN regs
       THEN Changed(s, [regs[Home(s)] EXCEPT !.reply_until = Max2(@, cmd[s].until)])
       ELSE UNCHANGED regs
    /\ Finished(s)
    /\ window' = [window EXCEPT ![s] = Max2(@, cmd[s].until)]
    /\ stranded' = IF canonical_hub(cmd[s].url) \in client.connections THEN stranded ELSE stranded \cup {s}
    /\ UNCHANGED <<client, journal, hub, pc, saved, worker, astray, sent, changes, interrupted, faults>>

ForgetBus(s) ==
    /\ cmd[s].op = "leave" /\ ~HoldsFiles
    /\ IF Home(s) \in DOMAIN regs
       THEN Changed(s, [regs[Home(s)] EXCEPT !.buses = @ \ {cmd[s].bus}])
       ELSE UNCHANGED regs
    /\ Finished(s)
    /\ stranded' = IF canonical_hub(cmd[s].url) \in client.connections THEN stranded ELSE stranded \cup {s}
    /\ UNCHANGED <<client, journal, hub, pc, saved, worker, window, astray, sent, changes, interrupted, faults>>

CommandDies(s) ==
    /\ cmd[s] # Nothing /\ crashes < MaxCrashes
    /\ Finished(s)
    /\ astray' = IF cmd[s].op = "retain" THEN astray ELSE astray \cup {s}
    /\ crashes' = crashes + 1
    /\ UNCHANGED <<files, hub, pc, saved, worker, window, stranded, sent, changes, interrupted, failures>>

-----------------------------------------------------------------------------

Move == Begin \/ AcquireWorker \/ GiveUp \/ ReadFiles \/ Advance \/ Fail \/ FailAgain \/ MoveDies

Worker ==
    \/ StartWorker \/ StopWorker \/ HandOver \/ Record \/ Ack \/ AckLost \/ WorkerDies
    \/ \E o \in Origins, m \in Mail : Fetch(o, m)

Commands ==
    \E s \in Sessions :
        \/ RememberAdapter(s) \/ RetainReplyAdapter(s) \/ ForgetBus(s) \/ CommandDies(s)
        \/ \E o \in Origins :
              \/ SendRequest(s, o)
              \/ \E b \in Buses : RegisterRequest(s, b, o) \/ LeaveRequest(s, b, o)

Next == Move \/ Worker \/ Commands

Spec == Init /\ [][Next]_vars

-----------------------------------------------------------------------------
(* Properties. *)

Polled(s, o) == o \in client.connections /\ <<o, s>> \in DOMAIN regs

\* s has an adapter at a connected origin for all its publications and windows.
Reachable(s) ==
    \/ \E o \in Origins : /\ Polled(s, o)
                          /\ members[s] \subseteq regs[<<o, s>>].buses
                          /\ window[s] <= regs[<<o, s>>].reply_until
    \/ members[s] = {} /\ window[s] = 0

Settled(S) == {s \in S : cmd[s] = Nothing}

\* "Every durable prefix remains usable after a crash" (rehome_connection):
\* whatever step the move is at, dies at or is undone from, every session whose
\* command reached the file keeps an adapter, its publications and its reply
\* window at an origin the worker polls.
PrefixUsable == \A s \in Settled(Sessions \ (astray \cup stranded)) : Reachable(s)

\* The same for every session, without excusing adapters written for an origin
\* the move had already given up again: what rolling back should guarantee
\* (test_rollback_prefixes_keep_adapters_reachable_after_final_registration_write).
RollbackReachable == \A s \in Settled(Sessions \ astray) : Reachable(s)

\* Mail put on record before, during or after a move is not handed over again,
\* whichever origin it is fetched from afterwards ("copy dedup first").
DedupMoves == envelope.at = "fetched" => envelope.mail \notin recorded

\* A session that left a bus is not polled for that bus again, unless a move
\* was cut off: its adapters at the new origin are merged in by the next move.
LeftStaysLeft ==
    ~interrupted =>
        \A s \in Settled(Sessions \ (astray \cup stranded)) : \A o \in Origins :
            Polled(s, o) => regs[<<o, s>>].buses \subseteq members[s]
=============================================================================
