# HOMI in TLA+

HOMI lets coding agents (Claude and Codex sessions) on several machines write
to each other. It has two transports that share no state:

- the **bus**: a hub process (`lib/bus_broker.py`, SQLite behind HTTP) and on
  every device a client (`lib/bus.py`) with one delivery worker;
- the **fabric**: one daemon per device (`lib/homi.py`) that owns names with
  durable mailboxes, joined by ssh links, with no hub.

Around them: an MCP server and a command that start the daemon, an installer (`packages/communicate`)
that puts releases, a managed service and client plugins in place, an interactive graph of the bus
in the dashboard (`packages/bus-graph`), shell front ends, and unrelated terminal profiles.

This directory models the bus from the hub to the session; of the fabric, the names, mailboxes and the
start of one daemon; the installer with its first run; and the bus graph. Links between daemons,
asks and moves are not modelled (see *Plan*).

## Inventory

### Bus broker, `lib/bus_broker.py`

State: one SQLite database. `principals`/`tokens` (device credentials),
`grants` (device may use bus), `agents` and `memberships` (session published on
bus), `messages` + `outbound_queue`, `conversations`, `reply_requests`; for
enrolment `invites`, `event_invites`, `event_joins`, `accounts`, `bus_roles`; for
the dashboard `browser_sessions`, SSO `jti`s, `chat_*`.

Operations: one `_op_*` method per request. `handle` (626-695) takes a process
lock and opens `BEGIN IMMEDIATE`, then runs `_expire`, authenticates, runs the
operation in a savepoint, and commits. Requests are therefore atomic; what
interleaves is *requests*, of many devices, over days.

Hard behaviour: four retention rules with different clocks over rows that name
each other; access withdrawn at any moment while mail waits or is on lease; late,
repeated and crossed acknowledgements; replies to replies; repeated reply
requests whose first answer was lost; limits.

What makes it correct: a recipient sees its mail one at a time and in order;
mail never outlives the admission it was sent under; a settled status is final;
a repeated request has one effect; no row names a row that is gone.

### Bus client and worker, `lib/bus.py`

State: `client.json` (connected hubs, aliases), `registrations.json` (session
adapters: where published, until when replies may come), `receipts.sqlite` (the
outcome of every delivery), and lock files `worker`, `worker-start`,
`client`, `registrations`.

Operations: the commands `connect`, `register`, `leave`, `send`, `reply`, `rehome`
(each a request to the hub and then a change of a file), and the `worker` loop:
poll for all active adapters, look the envelope up in the journal, hand it to
the session in a pool thread, journal the outcome, acknowledge.

Hard behaviour: every command is two steps with anybody in between; the worker
may die between handing over, journalling and acknowledging; answers get lost and
leases lapse; rehome rewrites three files in four durable steps, any of which may
fail or be the last one before a death.

What makes it correct: at least once, and more than once only for a crash in one
known window; order per session; a receipt that says what happened; a session
the hub lists is a session the worker polls for; moving the hub's address loses
neither adapters nor the record of what was delivered.

### Fabric daemon, `lib/homi.py` (start, names and mailboxes modelled, the rest not yet)

State: `identities.json` (name -> local, or proxy of a device), per name an
`inbox.jsonl` and a cursor, per link a directory of outgoing envelopes and a
list of ids seen, pending asks in memory, grants of foreign fleets. Threads: one
accept loop per name and per link, a control server, the outbound loop, the
reconciler, one drain per box.

Hard behaviour: a name's kind is read under one lock and used after it, while
`depart`, `release` and `arrive` change it; store-then-remember and
send-then-unlink are two steps with a crash in between; acknowledgements may be
negative and final; the move of an agent spans two daemons and an rsync.

What should make it correct: accepted mail is never lost and is seen in order, no
copy reaches a session twice except after a crash, an ask gets its own answer.

### Start of the daemon, `packages/homi/src/kernel.ts` and `lib/homi.py`

State: `autostart.lock` (starters), `daemon.lock`, `daemon.pid`, `homi.sock` (daemons). Operations: a
call that connects, else takes the lock, spawns and waits; `acquire_singleton`; `shutdown`.

Hard behaviour: nobody is in charge. Any number of callers and the service manager start daemons at
once, every file operation is a step, and every process may be killed between two.

What makes it correct: one daemon serves, under its own socket; no caller is refused for another's
death.

### Installer, `packages/communicate`

State: release directories, client projections, the pointer `current`, executables, the clients'
registrations, the unit file and the loaded job, the ledger `install.json`, `install.lock`; for the guided
run its options, plan and what it has shown.

Operations: `setup`, `rollback`, `uninstall` and `--purge` under `withInstallLock`; `setup` as a guide
(`executeOnboarding`) with packages, profile, bus and model choices around the core.

Hard behaviour: an activation changes six places that cannot be changed at once and undoes them in
another order when a step throws; kills between steps; the next command meets what the last one
left; the user's own service and plugins have to come back at the end; two previews and two consents in
one guided run while other programs change the machine.

What makes it correct: commands exclude each other; a failed one restores, a completed one
repairs; what is recorded is owned and what is owned recorded; a report is true; nothing unseen is changed.

### Bus graph, `packages/bus-graph`

State: one component's variables (model, analysis, nodes, pins, conductor, root, parent choices, the
deferred snapshot, the layout generation) and the queue of layout jobs.

Hard behaviour: polls that withdraw agents arrive while a person drags, while a layout computes, or
while an earlier poll is deferred; layouts are answered for graphs that changed meanwhile.

What makes it correct: what was withdrawn is neither drawn nor remembered; preferences stay with their
device and account; only current layouts are committed; the hierarchy is a forest that honours choices.

### The rest (not modelled)

| part | files | why not |
|---|---|---|
| human chats, admission links, browser sessions of the broker | `lib/bus_broker.py` | planned, next after the messaging core |
| broker HTTP server, dashboard snapshot and UI | `lib/bus_broker.py`, `lib/bus_ui.html` | reads only, no state of its own |
| hub services, connect, session identity | `lib/bus.py` | process management; finding a session is input of the commands |
| seats, adopt, workspaces, peer framing, model profiles | `lib/homi_seat.py`, `lib/homi_adopt.py`, `lib/homi_workspace.py`, `lib/cc_peer.py`, `lib/model_connections.py` | screen scraping, one-shot imports, framing, configuration |
| MCP server | `packages/homi/src/server.ts` | translation of tool calls to control requests |
| drawing and edge routing of the graph | `packages/bus-graph` | geometry |
| profiles, plugins, registry, scripts | `profiles`, ... | separate products, text, tests |

`PROJECT.json` lists every component and every hazard with its line.

## Modules

```
MailQueue            what a worker may rely on, without admissions or clock
  ^ refined by         ^ its hub half is one
BusBroker            BusDelivery      worker, pool, journal, crashes     < BusDeliveryProofs
  ^ composed in
BusAdapters          registrations.json against the real broker; both proved in   < BusBrokerProofs
BusRehome            the move of client.json, registrations.json, journal   < BusRehomeProofs

HomiMail             names and mailboxes of one fabric daemon     < HomiMailProofs
HomiStart            its singleton and the callers that start it
Onboarding           one run of the guide
  both composed in
FirstRun             `homi setup`, and the daemon behind it           < FirstRunProofs

InstallLock          the installation lock
  ^ implemented by
HomiSetup            setup, rollback, uninstall                       < HomiSetupProofs
                                                                      < HomiSetupStateProofs

FlowInference        message graph, hierarchy, repair of choices: functions
  ^ used by
BusGraphView         the interactive component and its layout jobs; both proved in   < BusGraphViewProofs
```

`MC*` modules give constants their values for TLC and, where requests other than
messages have to be bounded, add a counter; they change no definition.

### BusBroker

The database is one record `db`; a request is one action whose body is a
composition of operators *database -> database*, one for each helper of the source:
`Expire` (`_expire`, its statements in the source's order), `CancelInvalid`
(`_cancel_invalid`), `Enqueue`, `OpenConversation`, `LeaseAll`, `Unpublish`,
`WithdrawAccess`. So `_op_send` is `Enqueue(OpenConversation(CancelInvalid(Expire(db,
now), now), ...), ...)` under the conjunction of its early returns. A request the
source refuses is rolled back to the savepoint, except for the `_expire` that came
before: the `Read` action has that effect and covers refusals too.

Abstractions: a token is its principal; target names are resolved; text, labels and
device data are gone; a lease token is its ordinal among the message's leases; times
are small numbers with the source's comparisons (`<`, `<=`, `>`) kept. Invitations,
events and account roles appear as the rows they add to or delete from `grants` and
`memberships` (`Redeem`, `Withdraw`, `Revoke`). No human-chat reader is configured: the
chat tables are then empty and the chat halves of `_cancel_invalid` and the queue do
nothing.

### MailQueue

The abstraction of the broker for the worker: messages with a target, a status, a
lease token and whether the lease is held. Steps: housekeeping (expire, cancel,
forget), accept at the end, lease unheld heads, settle a held lease, lapse.
`BusBroker!ImplementsQueue` says the broker is one under the mapping `Box` (held =
the lease's time is not up); `BusDelivery!IsQueue` says that the hub the worker is
modelled against is one too. So what BusDelivery shows is shown against a hub
that behaves as the broker does, not against a convenient one.

### BusDelivery

`worker` (605-767). Threads of the pool are the `running` envelopes of `batch` and
finish in any order; `Dispatch`, `Journal` and `Ack` are the loop's own, in its order:
all dispatched, then collected one by one, each journalled before it is acknowledged.
Requests and answers may be lost (`PollLost`, `AckLost`), leases lapse at any time, mail
is expired or cancelled under the worker, sessions come and go between the poll
and `deliver_if_live`, and the process dies at any point and is started again. The
journal survives.

Left out: the heartbeat ticker; the `codex queue` child that outlives a SIGKILL of
the worker for the length of one delivery; errors other than BusError, which end
the process as a crash does. `expired` stands for cancelled as well. `Prune` may not
remove the entry of a message that still waits: entries live two days and
`MESSAGE_TTL` is one.

### BusAdapters

Extends BusBroker: every command of a session is a request, which is a step of
BusBroker, and later a change of `registrations.json` computed from that response.
In between run the worker, other sessions, other devices and withdrawals; the command
may die. The worker asks for all active adapters in one `poll_device` and one
`heartbeat`. One session runs one command at a time; two shells in one session are left out. What the worker retains for a message's conversation is written
with the poll that brought the message. Invitations are redeemed by anybody at any time (`join`
changes no adapter), which is also how the device comes to be enrolled.

### BusRehome

`rehome_connection` (784-921): pause the worker, take the locks, read the files, copy the
journal, write adapters for both origins, switch `client.json`, drop the old adapters;
on an error undo in four steps. `Write` is the effect of step `pc`; `Fail` and
`FailAgain` are a write that fails with or without its effect; `MoveDies` is a death,
after which the locks are free and the move may be run again. Around it the worker
(one envelope at a time is enough: they are independent here) and the sessions'
commands, which read the connection without a lock and write under one. The snapshots
that confirm that both origins are the same broker, readmission under a new
principal and other hubs are left out.

### HomiMail

The roster: `ident` is `identities` under `mu`, `saved` is `identities.json`, `parked` the records
whose claim failed at the start. `_do_claim`, `_ensure_proxy` and `_do_release` hold `claim_mu`
from their first change to their write of the file; `mutex` is that lock with the place its
holder is at (`bind`, `seed`, `assign`, `persist`), so that mail, other writers and death come
in between. `_persist_identities` copies the roster under `mu` and writes it without: for the
callers that do not hold `claim_mu` (seat, describe, spawn, restart, the start's last write) that is
`CopyRoster`/`LoadEnd` and then `WriteRoster`. `load` is `_load_identities`, which claims the
names of the file one by one while requests are already served.

The mailbox: `inbox` and `cursor` are the two files, `seen` the ids in memory, `drain` the hand-over
in progress with the snapshot it goes through. A handler is a thread that takes one message in:
`Accept`, `ReadKind` (kind and use are two steps), `Store`, `Wake`. `Tick` is one pass of the reconciler
over a name. A write to a session can fail after the session has the line. A drain holds the socket
it started with, hence `gone` for a session that ended.

Left out: the relay to seats, boxed names, the long poll, bodies (an id stands for a message), the
sweep of old ids (the set keeps up to 500, far above the lines modelled), the inbox that `arrive`
recomposes.

### HomiStart

Every look at the four files or at a process and every change of them is a step, but for the unlink before a
bind and the removal of `autostart.lock` when a starter's wait is over. A daemon goes `mkdir`, `look`, `pid` (it reads
the pid file into `oldpid`), `kill` and `ps` (it tests whoever had that pid, who may have ended since), `reclaim` in
`acquire_singleton`'s attempts; `open`, `write` (the pid file is empty in between), `bind`, `run`; and down through
`Stop` in `shutdown`'s order, `exit` last, when the lock is gone and the process still there. `ps` may fail, which
`_pid_is_homi` takes for "not a homi". `lockdir` says who made the directory, which the code cannot see. `slips` is
history: it notes when a daemon takes the lock although ps failed for a living owner (`blind`), reclaims the lock of
another than the one whose pid it had read (`late`), or leaves the third attempt without a lock (`third`).
A caller is `call` and `autostart` of kernel.ts. Two time-outs appear as what they
depend on: `waitForSocket` gives up when no daemon is on its way, and the wait for a lock of another
starter ends in taking it over. Pids are not reused; `HOMI_AUTOSTART=0` is left out.

### Onboarding and FirstRun

`stage` is where `executeOnboarding` is; `shown` and `agreed` record what the person had seen when the run
was last agreed to, `done` what the run has changed. Tools appear and vanish and the profile's files
are edited by others at any moment (`Drifts`). `Setup` is HomiSetup's result only: done, or failed and
restored. FirstRun runs the guide in its child process, then lets the command and a session call the
daemon (HomiStart's callers), with the service manager from the moment its unit is there. Sessions
opened and daemons killed while the guide still runs are left out.

### InstallLock and HomiSetup

`withInstallLock`: `mkdir`, read the inode, write the owner, work, remove only what has the recorded inode
and owner. `Rename` is what the code's message tells an operator to do; `Careful` says that it is done
when no installer runs. HomiSetup extends it: each process runs one command, one durable step at a
time (`me[p].pc`); `Fails` is a step that throws, `Undo`, `restoreService`, `Restore`, `removeIntegration` the
catch blocks, in their order; `Kill`, `Edit`, `DaemonDies`, `Autostart` are the others.

`troubled` names what went wrong beyond one failing step: a kill, a step of an undo that failed too, a rollback
whose ledger was stale when it took the lock, a job that could not be unloaded. Properties about what
commands leave behind are stated for untroubled histories where the code promises nothing otherwise;
`MutualExclusion` and `SetupHeals` for all, `RegistrationsResolve` for all but stale rollbacks (see
Weaknesses). Left out: `--dry-run`, `doctor`,
`--no-service`, `--service-inherit`, legacy releases, older ledgers, the Codex settings transport.

### FlowInference and BusGraphView

FlowInference is `inferFlow` as functions: components, roots, the distances from a branch's hub, parents,
and the repair of cyclic choices, which is a recursive function because undoing one cycle can expose
another. Link weights `log(1 + n)` are represented by `1 + n` and their sums by products: only their order is
used. Communities are the fallback of the source, connected components; Leiden's partition, the
spectral layout and ELK's coordinates are numerical.

BusGraphView is App.svelte as functions from state to state, composed as the handlers call them
(`update`, `applyRefresh`, `arrange`, `computeFlow`, `dragStop`, ...). A position is `Automatic` or the scope and device under
which a person put the card there, which is what must not cross identities. `jobs` is ELK's queue.

## What is checked

| run | question | properties |
|---|---|---|
| `broker_mail` | exchanges of three messages with all retries; a message and its answer until every retention rule has run; admissions withdrawn and restored around mail; enrolment from an empty database | `NoDangling` `MailAdmitted` `HeadOfLine` `ReplyConfined` `BoundedQueue` `AnsweredOnce` `ImplementsQueue` `ClosedForGood` `UnpublishedEnds` |
| `delivery_worker` | one session that comes and goes with every fault; two sessions in one batch; under fairness | `OncePerCrash` `InQueueOrder` `ReceiptIsTrue` `IsQueue` `AllSettle` |
| `adapters_answers` | a session and a peer's agent registering, sending, answering, leaving and being withdrawn, on two buses | `AnswersReachable` `PublishedIsPolled` |
| `adapters_removed` | a device loses a bus for longer than the retention | `OtherBusesUnaffected` (violated, see Findings) |
| `rehome_move` | moves with two crashes and two failing writes | `PrefixUsable` `DedupMoves` `LeftStaysLeft` |
| `rehome_rollback` | a move that is rolled back | `RollbackReachable` (violated, see Findings) |
| `homi_mail` | a name claimed, proxied, released and loaded while mail is offered twice, sessions come and go, and the daemon dies or a hand-over fails late | `CursorTellsTheTruth` `InOrderOncePerTrouble` `StoredOnce` `MailReachesSession` |
| `homi_restart` | two names, two deaths | `ClaimSurvivesRestart` (violated, see Findings) |
| `setup_activation` | any four of commands, failing steps, kills, edits, daemon deaths and renames, from an empty home and one with the user's service and plugins | `MutualExclusion` `FailedSetupRestores` `SetupHeals` `OriginalKept` `OwnedIsRecorded` `RegistrationsResolve` `RuntimeSelected` |
| `setup_rollback` | a rollback whose last write fails | `FailedRollbackRestores` (violated, see Findings) |
| `view_polls` | two of six snapshots with a person's operations and the layout engine's answers in every order | `NothingWithdrawn` `Organised` `LatestShown` `IdentityKept` `NoStaleCommit` `LayoutSettles` |
| `first_run` | a guided, a scripted, a client-free and a dry run with every answer and failure, then command, session and service manager starting daemons, with a kill of each and daemons that stop while others test their pid | `Singleton` `RefusedForAReason` `ReportTrue` `Consented` |

Every property of a passing run has a mutant in `PROJECT.json`: a one-line bug in a
mapped operator (the operators marked *Mutant* in the modules) that makes it fail. Each module also states its
type invariant (`TypeOK`, `AdaptersTyped`, and in the proof modules); the runs spend their time on the others.

### Bounds

`MaxId`/`MaxMsg` bound messages: two are needed for order and one more for an answer
to an answer; ids are never reused, so a longer history only adds settled rows.
`MaxTime` with small periods: `LEASE_TTL = 1` and `MESSAGE_TTL = 2` let a lease lapse
twice within a message's life. In the source the periods are a minute, a day and seven days; the runs keep the lease shorter than the life
and make the retention just as long as the life, the least `RECEIPT_RETENTION >= MESSAGE_TTL` allows: that brings the
purges closest to the mail. The theorems hold for every choice.
`broker_mail` explores six kinds of behaviours, each with a budget of messages, conversations on record at a time,
time and admission requests (`MCBudgets`): in the one with `until = 5` the clock passes `MESSAGE_TTL + RECEIPT_RETENTION`, when everything a
message left has been purged; with `changes = 3` an agent leaves, comes back and loses its bus; the one that
starts empty needs four requests before the first mail. Their product would not add a case: what
widens admissions touches no message, and purging begins when the mail is over.
`adapters_answers` has two budgets (`MCBusAdapters`): one conversation until its window and its records are
over, around two registrations, leaves or withdrawals, and four of these with no mail, in which a bus is joined, lost,
admitted and joined again. In both one command may die before or after its request reached the hub (`MaxFaults`).
`MAX_PENDING = 2` is reached by sends and by replies. Crashes, losses, stops and failures
are counted down: two of each kind in `rehome_move`, and in `delivery_worker` a crash, a stop and a loss for one session
and a crash for two (`MCBusDelivery!Budgets`), each at every position. `Tokens` counts
lease tokens modulo 2: two leases of one message differ, and a worker never holds more
than one envelope per message. In most budgets both devices start admitted and
published, a state that `Redeem` and `Register` reach (one budget starts from nothing). Symmetry (of devices, processes, releases) is used in runs without liveness only.
In `homi_mail` three lines are one more than the remembered tail (`SEEN_TAIL = 1`, 200 in the
source) has to bridge, two ids give a repetition at distance one and two, and one handler beside
the reconciler and the drain is every pair of threads that meet in a mailbox: senders meet only
in `Store`, which `mail_mu` makes one step. `MaxTroubles = 1` is one death or one late failure.
`homi_restart` has two names, because a start that dies between two of them erases the second.
In `setup_activation` four events are a history of setup, uninstall and two accidents, or of three commands and one; two
releases are an upgrade, a downgrade and a rollback; a process runs one command, so four processes are four commands.
In `first_run` two callers race, a third would repeat one of them. It takes three daemons for one to lose its lock to
a reader of a second one's pid. `MCFew` bounds where they meet: one daemon while the guide runs, two after it with both
callers, all three after a complete run with the service and with one caller; the theorems hold for any number.
Three agents in `view_polls` are the smallest graph with
a cycle of choices; its six snapshots differ by traffic, a link, an agent, a device, an account.
Deadlock checking is off where the bounds or the fault counters stop the system.

### Fairness

`AllSettle`, `MailReachesSession` and `LayoutSettles` need it.

`delivery_worker`. Weakly fair are: the start of a worker that is down
(every send, reply and registration of any session calls `start_worker`, so this says that
somebody goes on using the device), the loop's own steps (every request and delivery
has a time-out), and the lapse of a lease. `MinuteSuffices` says that from some point
on a lease of a minute is long enough to look an envelope up in the journal and
acknowledge it. Deliveries themselves may take longer than their lease every time.
Reachability of a session is not assumed; it is the antecedent of `AllSettle`.

`homi_mail`. Weakly fair are the steps of threads that have work (a claim in progress, a handler,
a drain: their socket writes have time-outs) and `Tick`, because the reconciler passes over every
name each two seconds whatever the last pass did. `LoadSteps` is strongly fair: the start waits for
`claim_mu`, which requests take again and again, and a lock that is released infinitely often is
given to a thread that waits for it. In the model it also waits for the one roster copy that can be on
its way, which the code does not need to. Senders, owners and sessions owe nothing; that a session
stays is the antecedent.

`view_polls`. The layout engine answers every job (`Answer`); polls and the person owe nothing. That polls are
bounded matters: a snapshot whose traffic changed during each layout would keep `computeFlow` in its loop, so
`LayoutSettles` says that it ends once the graph stands still.

## What is proved

`BusBrokerProofs` proves, for any set of principals, agents, buses and request ids, any
number of messages and any periods with `RECEIPT_RETENTION >= MESSAGE_TTL`:

| theorem | says |
|---|---|
| `BrokerInvariant` | `IInv`, the inductive invariant |
| `TypeCorrect` | `TypeOK` |
| `InOrder` | `HeadOfLine`: only a recipient's earliest pending message is on lease |
| `OnlyAdmittedMail` | `MailAdmitted`: what can be fetched is in an open conversation between admitted ends |
| `Referential` | `NoDangling`: retention deletes no row that a row names |
| `Bounded` | `BoundedQueue` |
| `Confined` | `ReplyConfined`: answers at any depth keep to the first message's ends, bus and life |
| `Once` | `AnsweredOnce`: one request id, one answer |

The argument. None of the properties is inductive: a purged conversation is harmless only
because no message names it, an answer is not repeated only because its record
outlives its conversation. `IInv` is the conjunction of

- `Sound(db)`: types, heads of line, references, limits, confinement, fresh ids. Every
  operator on databases keeps it, whatever happens to admissions;
- `Open(db)`: conversations that are not closed have both ends admitted, and pending
  messages are in such conversations. Operators that withdraw admissions break it and
  `CancelInvalid` restores it from `Sound` alone; this is why a request that withdraws must
  end with it, and why the ones that only expire need not begin with it;
- `Timed(db, now)`: every answered request is on record or its conversation is over,
  a record is dated no later than the conversation's end allows, and no conversation
  ends more than a `MESSAGE_TTL` from now. With `RECEIPT_RETENTION >= MESSAGE_TTL` this
  gives `AnsweredOnce`.

Operators fall into kinds with a lemma each: those that *drain* (messages lose pending status
or disappear), those that *narrow* admissions, those that *widen* them, those that
*append* one message. A request's lemma (`SendStep`, `ReplyStep`, ...) composes them; `NextIInv`
has one case per request. Assumption used: `BusAssumption`, which TLC evaluates in the broker's
runs.

The second half of the module proves, under the same assumption, what a single step may never do and the refinement:

| theorem | says |
|---|---|
| `NeverReopened` | `ClosedForGood` |
| `LeavesNothingOpen` | `UnpublishedEnds` |
| `BrokerIsAQueue` | `ImplementsQueue`: the broker is a MailQueue |

`Housekept(d, e)` and `Ages(d, e)` say what `_expire` and `_cancel_invalid` may make of mail and conversations; each
statement of both gets a lemma. `StepKinds` then sorts every request into five kinds: it is quiet, or it appends a
message, leases heads or settles a lease on top of `Base`, the database after both helpers, or it is the clock. The
properties follow kind by kind; `UnpublishedEnds` needs `IInv'` too, since on other buses than general it is
`_cancel_invalid` that ends what an unpublished agent had. Together with `WorkerMeetsAQueue` the two halves meet in
one proved abstraction: hub and worker are both proved against MailQueue.

The last part of `BusBrokerProofs` is about BusAdapters, for any principals, sessions, buses, messages, periods and commands that die half-way:

| theorem | says |
|---|---|
| `AdaptersInvariant` | `AInv`, the inductive invariant |
| `AdaptersOnBroker` | `Spec` of BusBroker: the device is a client like any other |
| `AdaptersTypeCorrect` | `AdaptersTyped` |
| `AnswersArrive` | `AnswersReachable` |
| `PublishedArePolled` | `PublishedIsPolled` |

Neither property speaks of a command that has its response and has not written it down, and there both would
break. `KnownHere` therefore compares the response in hand with the broker as it is now: only the
session's own `register` adds to its memberships, and it runs one command at a time, so they can only have shrunk since
(`ArrivalsPublish`, `NobodyElsePublishes`). `AnswerDue` says that a conversation that is still on record ends when the
response said it would (`Onward`), and that whoever waits for an answer has an adapter. A window is written only if
it is at most a `MESSAGE_TTL` away; that it always is comes from `ConversationsDated` of the broker's `IInv`. The
worker keeps an adapter for one envelope per session, which is enough because a poll leases one message for
each (`PollFetches`, from `Heads`). `BusAssumption` and `AdapterAssumption` are used.

`BusDeliveryProofs`, for any number of sessions, messages, crashes, stops, losses and lease tokens:

| theorem | says |
|---|---|
| `DeliveryInvariant` | `DeliveryInv`, the inductive invariant |
| `AtMostOncePerCrash` | `OncePerCrash` |
| `HandedInOrder` | `InQueueOrder` |
| `ReceiptsAreTrue` | `ReceiptIsTrue` |
| `WorkerMeetsAQueue` | `IsQueue`: the hub's half of every step is a step of MailQueue or none |

`DeliveryInv` has four parts. `Order`: what a session was handed is not later than its envelope in
the batch, that envelope is not later than what waits for the session, and there is one per session.
`Receipts`: a message in the batch is not settled at the hub, what is journalled or settled as delivered was
handed over, an envelope that still runs is not on record. `Counted`: a message that the worker may hand over
*again* (`Again`: not on record, not handed over since the worker started, waiting or fetched) was handed over once per crash at
most. A crash is what makes a message in stage `ended` eligible again, and pays for it. Only `DeliveryAssumption` is used; it needs two lease
tokens, since a poll must never reuse the token of the last lease.

`HomiMailProofs`, for any names, owners, ids, length of the remembered tail, and number of deaths, failed writes and
threads that drain:

| theorem | says |
|---|---|
| `MailInvariant` | `MailInv`, the inductive invariant |
| `MailTypeCorrect` | `TypeOK` |
| `CursorIsTrue` | `CursorTellsTheTruth` |
| `HandedInOrder` | `InOrderOncePerTrouble` |
| `StoredOnceOrExempt` | `StoredOnce` |

Two halves per mailbox. `Outgoing` relates a drain to what the session has seen: the line in hand
exists and is the one after the cursor or, given already, the one the cursor is about to name (`LineInHand`,
`Told`), the sequence of lines given makes no jump forward (`Consecutive`), and its repetitions, together with the one that the
present state still allows (a line given whose cursor is not written, `Doubts`), are at most the troubles (`Accounted`). That
sum is what makes the count inductive: a death turns a line given without a cursor from a possible into an allowed repetition. It is
stated for plain values (cursor, number of lines, drain, session, troubles), so the lemmas on it mention no
state. `Into` covers what arrives: a name that is claimed and seeded remembers its tail, except ids stored
while it had no complete owner (`Remembered`), and the ids that a claim has read but not assigned are still those of
the tail (`ReadIsTail`). No assumption is needed but the module's.

`BusRehomeProofs`, for any sessions, buses, messages, crashes, failing writes and number of moves:

| theorem | says |
|---|---|
| `RehomeInvariant` | `RehomeInv`, the inductive invariant |
| `RehomeTypeCorrect` | `TypeOK` |
| `ReceiptsMove` | `DedupMoves` |
| `EveryPrefixUsable` | `PrefixUsable` |
| `LeftForGood` | `LeftStaysLeft` |

`MoveInv` gives, for each step of the move, what every file holds as a function of what the move read at its
beginning (`Prefix`); between moves the files are unrelated to it. `SessionInv` then speaks of one file only, the
one the move read, since commands wait for its lock meanwhile: what a session was told it has (`Owed`) is in `Base` at
`Origin`, and the lemmas on `Merged`, `Switched` and the roll-back show that each prefix still serves it.
`JournalInv` says which receipts are on record at which origin, and `EnvelopeInv` that the worker's envelope
was fetched from an origin that is still connected, which is what the pause of the worker is for.

`HomiSetupProofs`, for any number of processes, releases and events, whatever the operator does where not said otherwise:

| theorem | says |
|---|---|
| `LockInvariant` | where a process is, what it owns and what is at the path determine each other (`LockInv`) |
| `LockExcludes` | `MutualExclusion`, when operators rename only locks of dead installers |
| `LockLeavesOthers` | `OnlyItsOwn`: no step removes another's directory, whatever operators rename |
| `SetupUsesLock` | every behaviour of HomiSetup is one of InstallLock |
| `SetupExcludes` | hence no two commands change the installation at once |
| `SetupTypesInvariant` | `SetupTypes`: the shape of the installation and of every command's notes, and which steps each command takes |
| `SetupTypeCorrect` | `TypeOK` |

The strengthening of the lock is the inode: a process that is in the lock either finds its own inode at the path or
was set aside, and only a dead one is set aside. `SetupUsesLock` has one case per step: those that take
and leave the lock are its actions, the others leave its variables alone.

`HomiSetupStateProofs`, for any number of commands, releases and events, with a careful operator:

| theorem | says |
|---|---|
| `SetupInvariant` | `SetupInv`, the inductive invariant |
| `FailedSetupIsUndone` | `FailedSetupRestores` |
| `CompletedSetupHeals` | `SetupHeals` |
| `OwnershipIsRecorded` | `OwnedIsRecorded` |
| `RuntimeIsSelected` | `RuntimeSelected` |
| `OriginalIsKept` | `OriginalKept` |
| `RegistrationsAreThere` | `RegistrationsResolve` |

With a careful operator at most one process is between taking and leaving the lock, so the invariant speaks of one
command, `Now` (the one in the lock, or the idle one), and of the machine. `NowMoves` turns every step of the
specification into one of 44 moves of both; the moves are stated in `HomiSetupProofs`, each proved of its action
once, so that the preservation proofs never see a nested `EXCEPT`. What `Now` knows has ten parts; the first five are
proved kept at the end of `HomiSetupProofs`, the others in `HomiSetupStateProofs`:

- `Kept`, `Pointer`, `Staged`, `Selected`: the ledger in memory is the one on disk; the pointer is the old release, the
  new one, or the old one again, by the step; releases that can be selected are staged; ledger and pointer agree.
- `Resolves`, `Regs`, `Owning`: registrations that are there or may come back have their projection; a
  client has what the snapshot says, or the new release, by the step; all of HOMI's is in the ledger or will be.
- `Service`, `Traced`, `Healed`: unit, job and daemon fit together; through `installService` and its two catch blocks
  they are traced back to what the setup found; what is true when a setup is done.

One lemma `<Part>Step` per part goes through the moves. Parts are conditional on `troubled` or on `hurt` (something
outside happened during this command) exactly as far as the code loses track; `Resolves` and `Healed` survive kills. From
the proof came two conditions that no bounded run asked for: a stale rollback (see Weaknesses), and that `None`,
`"user"` and `"refused"` are no releases (`SetupAssumption`).

`FirstRunProofs`, for the start of the daemon, the guide and both together, for any callers, daemons, kills, tools, options and answers:

| theorem | says |
|---|---|
| `FilesTellTheTruth` | `StartInvariant`, the inductive invariant |
| `OneKernel` | `Singleton` |
| `NoCallRefusedForNothing` | `RefusedForAReason` |
| `GuideInvariant` | `ObInvariant`: a stage of the guide says what may be done, shown and agreed there |
| `ReportsAreTrue`, `ChangesAreConsented` | `ReportTrue`, `Consented` |
| `FirstRunStarts` | FirstRun implements HomiStart |
| `FirstRunOneKernel`, `FirstRunRefusals`, `FirstRunReports` | the four properties, of the composition |

`Singleton` is not inductive: a daemon about to reclaim could hold the pid of a living one. `Locking` excludes that: with ps
answering, one that reclaims has tested a daemon that has ended (`OwnerIsGone`, from `Pids`: a pid that was read belongs to
a daemon that wrote it), and whoever is past `acquire_singleton` made the lock (`LockIsOwn`), so a reclaimed lock is either
that of a daemon that has ended or a slip. For refusals the invariant speaks of the time in which nothing was killed or
stopped (`Calm`): whoever met the lock has somebody past it then (`SomeonePassed`), slips or not,
so a daemon that gives way does so to another, and a caller that waits is answered.
Assumptions used are `StartAssumption`, `LockAssumption`, `SetupAssumption`, `NullAssumption` (`None` is not a record),
`OnboardingAssumption`, all evaluated by the runs.

`BusGraphViewProofs`, for any agents, devices, finite snapshots, layouts and number of polls and operations:

| theorem | says |
|---|---|
| `Components` | the components partition the agents; each is what one reaches from any of its agents |
| `FlowIsForest` | what `inferFlow` returns is a forest along the graph's links that honours the choices it accepts |
| `AcceptedSettle`, `FlowAgain` | no cycle passes through an accepted choice; inferring again from the accepted ones changes nothing |
| `NeighborsStay` | a refresh that may wait withdraws no agent, device, link or neighbour |
| `ViewAlways` | `ViewInv`, the inductive invariant |
| `NothingIsWithdrawn`, `LatestIsShown`, `FlowIsOrganised` | `NothingWithdrawn`, `LatestShown`, `Organised` |
| `IdentityIsKept`, `NoStaleIsCommitted` | `IdentityKept`, `NoStaleCommit` |

The functions of FlowInference recurse over numbers (`Spread`, `Ancestors`, the rounds of `acceptedOverrides`) or over
subsets (the folds of the weights). The proofs show that each such function exists (`Iterates`, `FoldExists`), unfold it,
and then argue about sets: what is reached is the least set that links do not leave, and a set that grows in every
round cannot do so more often than it has room, so the number of rounds the code allows is enough. A parent that was
inferred is nearer to the hub (`NearestIsNearer`), so a cycle needs a choice of the person's on it
(`NoCycleDownwards`); the rounds remove every choice on a cycle; hence none is left. These theorems assume what
`weightedGraph` makes of a snapshot (`Weighed`: finitely many agents, counts that are natural numbers), and `GraphOf` proves
that it does.

None of the five properties of BusGraphView is inductive. `ViewInv` says three things of every state. `View`: every
preference, community, card, drawn node and edge refers to the model that is shown (`NothingWithdrawn` speaks of the last
snapshot instead), positions carry its scope and their agent's device, the hierarchy is a forest over its graph and the
choices are honoured. `Follows`: the model shown is the last snapshot or, while a card is held, one that the last
snapshot may keep waiting, from which the properties pass on by `NeighborsStay`. `Work`: a job of the present generation was
asked for the present root and starts from cards of the present scope, so that committing it after the wait restores
`View` although the job was queued under an earlier snapshot; jobs of earlier generations are never committed. Each
handler composes functions on the state; a lemma for each says which fields it changes (`SameBut`) and which parts of
`View` it keeps (`Core`, `Charted`, `Arrangeable`: the invariant in the middle of a handler) or restores (`present`,
`inferCurrentFlow`, `place`). Steps also carry `Faithful` along, from which `IdentityKept` follows: a preference that
survives a step names the same agent on the same device and in the same scope. `ViewAssumption`, `SnapshotAssumption` (a
snapshot is finite and its counts are natural numbers, which is what reading it makes of them) and `NoneAssumption`
(`null` is no snapshot) are used, all evaluated by `view_polls`.

Only model-checked: liveness (`AllSettle`, `MailReachesSession`, `LayoutSettles`), which is beyond the prover, and the
properties of the runs that find a violation. Every safety and action property of a passing run is a theorem.

## Findings

1. `adapters_removed`. `docs/BUSES.md:82-83`: after removing a collaborator "Other buses are
   unaffected". The removed session's adapter stays in the device's `registrations.json` as
   active, because only that session's own `register` and `leave` change it. Its agent row is
   unpublished, and after `RECEIPT_RETENTION` without a heartbeat that reached the hub (the
   device was off) `_expire` deletes it. From then on `poll_device` and `heartbeat`, which name
   all active adapters at once, are refused as a whole with `not_found`: no session of that
   device gets mail, on any bus.
2. `rehome_rollback`. The comment at `lib/bus.py:892-896` and `scripts/test-bus-rehome.py`
   promise that rolling back keeps every adapter at a connected origin. A command that read
   `client.json` between the switch and the switch back holds the new origin, waits for the
   locks, and then stores its adapter under an origin that is no longer connected and no longer
   an alias. The command reports success; the worker skips the adapter.

3. `homi_restart`. `scripts/test-homi-core.sh:92` checks "claim survives restart", and the comment
   at `lib/homi.py:274-277` says that records are kept so that a write does not erase them. Three orders
   lose a claim that was answered. (a) `_persist_identities` copies the roster and writes it
   later; a copy made before a claim, by a writer that does not hold `claim_mu` (the run: the last
   write of the start, while the control socket already answers), lands on the file that the claim
   has just written. (b) At a start every name loaded writes the file with the names so far; a death in
   between erases the others. (c) A parked record is dropped when mail from an agent of
   the same name on another device makes a proxy of it. Each loss shows after the next restart; the
   mailbox stays on disk.

4. `setup_rollback`. `setup.mjs:652` reports "Rollback activation failed; original payload restored". The catch
   block has no counterpart of runSetup's `restoreService` (573): when the managed service was already
   restarted on the older release and the last write of the ledger fails, pointer, registrations and ledger go
   back and the daemon keeps running the older release until it is next restarted.

A fifth contradiction is reached by the model and has no run of its own. `docs/INSTALL.md:246` says "Only one daemon owns a
state root at a time". `acquire_singleton` reads the pid of `daemon.pid`, tests it by `os.kill` and `ps`, and removes
`daemon.lock` in separate steps (`homi.py:341-370`):

- `late`, by an ordinary stop: d is in `shutdown` and has unlinked `homi.sock`; e finds the lock, no answer, and d's pid; d
  unlinks its pid file, removes its lock and exits; f makes the lock; e finds d's pid dead, removes f's lock and makes its
  own. Both come to serve, f or e under a socket the other has unlinked. After a kill of d, two readers of its pid do the
  same to each other.
- `third`: a daemon whose first two attempts met a lock without a pid reads one at the third, finds it dead, and leaves the
  loop with no lock, so the next one makes it and passes too (`docs/studies/2026-08-17-fabric-observations.md:54` notes the
  fall-through).
- `blind`: `ps` fails or takes longer than 5 s while the owner has not bound yet.

`Singleton` therefore begins with `slips = {}`; without it, or when one of the three is not excepted, `first_run` finds two
daemons past the singleton. With it, TLC and the proof show that there is no fourth way, and that `late` and `third` take a
daemon that has ended.

Weaknesses that contradict no text:

- `_seed_seen` reads the inbox and assigns the set without `mail_mu` after the name is served: an id
  stored in between, or after a release, is forgotten and its repetition is stored again. `StoredOnce`
  excepts exactly these (`unowned`) and ids further apart than the tail.
- After a move that died half-way both origins' rows of a session are on disk; a `leave` then updates
  one of them and the retry of the move takes
  the union (`lib/bus.py:861`), so the session's local adapter lists the bus again.
  `LeftStaysLeft` therefore excepts interrupted moves.

- `runRollback` reads the ledger before it waits for the lock (`setup.mjs:594`) and writes it back: what another command
  recorded in between is lost (`"stale"` in HomiSetup). It can also bring back a registration without a directory: a
  setup of r1 is killed after it registered Claude; setups of r2 and r3 keep r1 as the original; a rollback reads
  this ledger; an uninstall gives r1 back, the user takes the client over, the next uninstall removes r1's
  projection; a setup of r3, then the rollback writes its ledger; the last uninstall registers r1 again.
  Eight commands and three releases, beyond the bounds of `setup_activation`; a run scripted to this order
  reaches it. `RegistrationsResolve` therefore excepts stale rollbacks.
- When a setup is killed after the managed unit was written, or a job cannot be unloaded, the next setup may take
  HOMI's own unit for the user's and record it as the original. `OriginalKept` excepts these (`troubled`).
- The bus graph decides `stale` by the signature of the last analysis, not of the graph that Flow laid out: traffic that
  changes, is recomputed by Flow, and changes back leaves a layout of the other graph without an announcement.

## Plan

What is left, most important behaviour first:

1. `HomiLink`: two daemons, outbound queues, acknowledgements, refusals, duplicate rings, refining
   an abstract once-per-id channel; composed with HomiMail's mailbox. Then `HomiMove` (`premove`,
   rsync, `depart`, `arrive`) on both: no accepted mail is lost or left in an inbox nothing drains.
2. `HomiAsk`: tokens, pending slots, natural answers. An answer fills one ask.
3. `BusChat` (human chats on BusBroker's queue) and `BusAdmission` (invites, events, accounts, SSO):
   single use, capacity, revocation; then BusBroker's `Redeem` and `Withdraw` become its steps.
4. A run for `docs/INSTALL.md:246` and the slips of HomiStart; the stale rollback; `--no-service`.
5. Proofs follow each new module; those of the present ones are complete but for liveness. Modules to be proved
   about have no RECURSIVE operator.
