----------------------------- MODULE BusAdapters -----------------------------
(***************************************************************************)
(* The session adapters of one device, registrations.json of lib/bus.py,   *)
(* together with the broker they mirror.                                   *)
(*                                                                         *)
(* A session's command (register, send, reply, leave) is two steps: the    *)
(* request, a step of BusBroker, and then a change to registrations.json   *)
(* made from the response under the "registrations" lock.  Between the two *)
(* the broker, the worker and the commands of other sessions go on, and    *)
(* the command may die.  The worker asks the broker for mail and reports   *)
(* liveness for all the adapters that are active, in one request each.     *)
(*                                                                         *)
(* A session runs one command at a time; the enrolment does not move here  *)
(* (BusRehome is about that).                                              *)
(***************************************************************************)
EXTENDS BusBroker

CONSTANTS
    Device,         \* the principal of this device
    MaxFaults       \* bound: commands that die half-way

ASSUME AdapterAssumption ==
    Device \in Principals \ Admins /\ MaxFaults \in Nat

VARIABLES
    regs,       \* registrations.json: session |-> adapter
    cmd,        \* what each session's command still has to do here
    told,       \* <<session, conversation>>: conversations a session knows it is in (a history)
    astray,     \* sessions whose last registration did not reach registrations.json (a history)
    faults

device == <<regs, cmd, told, astray, faults>>
avars == <<db, now, regs, cmd, told, astray, faults>>

Sessions == {a \in Agents : Owner[a] = Device}
Adapter == [buses : SUBSET Buses, reply_until : Nat]

Idle == [op |-> "idle"]
Todo == {Idle, [op |-> "identified"]}
        \cup [op : {"register", "identify"}, buses : SUBSET Buses]
        \cup [op : {"leave"}, bus : Buses]
        \cup [op : {"retain"}, conv : Ids, expires : Nat]

AdaptersTyped ==
    /\ TypeOK
    /\ regs \in [DOMAIN regs -> Adapter] /\ DOMAIN regs \subseteq Sessions
    /\ cmd \in [Sessions -> Todo]
    /\ told \subseteq Sessions \X Ids
    /\ astray \subseteq Sessions
    /\ faults \in 0..MaxFaults

AdaptersInit ==
    /\ regs = [a \in {} |-> 0]
    /\ cmd = [a \in Sessions |-> Idle]
    /\ told = {} /\ astray = {} /\ faults = 0

active_adapter(r) == r.buses # {} \/ r.reply_until > now
ActiveAdapters == {a \in DOMAIN regs : active_adapter(regs[a])}

\* The "buses" a broker response lists for agent a.
PublishedOn(d, a) == {b \in Buses : <<a, b>> \in d.members}

Await(a, todo) == cmd[a] = Idle /\ cmd' = [cmd EXCEPT ![a] = todo]
Done(a) == cmd' = [cmd EXCEPT ![a] = Idle]

-----------------------------------------------------------------------------
(* register, and the identification an unregistered sender starts with. *)

RegisterRequest(a, b) ==
    /\ Register(a, b)
    /\ Await(a, [op |-> "register", buses |-> PublishedOn(db', a)])
    /\ UNCHANGED <<regs, told, astray, faults>>

\* send on general from a session without an active adapter.
IdentifyRequest(a) ==
    /\ a \notin ActiveAdapters
    /\ Identify(a)
    /\ Await(a, [op |-> "identify", buses |-> PublishedOn(db', a)])
    /\ UNCHANGED <<regs, told, astray, faults>>

\* Mutant: a fresh registration starts without a reply window.
RememberedFresh(a) == [buses |-> cmd[a].buses, reply_until |-> 0]

\* Mutant: an identified sender is published nowhere, whatever the broker says.
RememberedHidden(a) ==
    [buses |-> IF cmd[a].op = "identify" THEN {} ELSE cmd[a].buses,
     reply_until |-> IF a \in DOMAIN regs THEN regs[a].reply_until ELSE 0]

\* The adapter remember_adapter writes: the broker's memberships, and the reply
\* window the session already had.
Remembered(a) ==
    [buses |-> cmd[a].buses,
     reply_until |-> IF a \in DOMAIN regs THEN regs[a].reply_until ELSE 0]

RememberAdapter(a) ==
    /\ cmd[a].op \in {"register", "identify"}
    /\ regs' = [x \in DOMAIN regs \cup {a} |-> IF x = a THEN Remembered(a) ELSE regs[x]]
    /\ cmd' = [cmd EXCEPT ![a] = IF cmd[a].op = "identify" THEN [op |-> "identified"] ELSE Idle]
    /\ astray' = astray \ {a}
    /\ UNCHANGED <<db, now, told, faults>>

-----------------------------------------------------------------------------
(* send and reply, which keep an adapter for the conversation's answers. *)

Sender(a) == \/ cmd[a].op = "identified"
             \/ cmd[a] = Idle /\ a \in DOMAIN regs

AwaitAnswer(a, c) ==
    cmd' = [cmd EXCEPT ![a] = [op |-> "retain", conv |-> c, expires |-> db'.convs[c].expires]]

SendRequest(a, target, b) ==
    /\ Sender(a)
    /\ cmd[a].op = "identified" => b = General
    /\ Send(a, target, b)
    /\ AwaitAnswer(a, db.next)
    /\ UNCHANGED <<regs, told, astray, faults>>

ReplyRequest(a, m, k) ==
    /\ cmd[a] = Idle /\ a \in DOMAIN regs
    /\ Reply(a, m, k)
    /\ AwaitAnswer(a, db'.msgs[db.next].conv)
    /\ UNCHANGED <<regs, told, astray, faults>>

Earlier(x, y) == IF x < y THEN x ELSE y

\* Adapter r after a response that says its conversation expires at t.
Retained(r, t) ==
    LET expiry == Earlier(t, now + MESSAGE_TTL)
    IN  IF t > now /\ expiry > r.reply_until THEN [r EXCEPT !.reply_until = expiry] ELSE r

RetainReplyAdapter(a) ==
    /\ cmd[a].op = "retain"
    /\ regs' = IF a \in DOMAIN regs
               THEN [regs EXCEPT ![a] = Retained(regs[a], cmd[a].expires)] ELSE regs
    /\ told' = told \cup {<<a, cmd[a].conv>>}
    /\ Done(a)
    /\ UNCHANGED <<db, now, astray, faults>>

-----------------------------------------------------------------------------
(* leave *)

LeaveRequest(a, b) ==
    /\ a \in DOMAIN regs
    /\ Leave(Device, a, b)
    /\ Await(a, [op |-> "leave", bus |-> b])
    /\ UNCHANGED <<regs, told, astray, faults>>

ForgetBus(a) ==
    /\ cmd[a].op = "leave"
    /\ regs' = IF a \in DOMAIN regs
               THEN [regs EXCEPT ![a].buses = @ \ {cmd[a].bus}] ELSE regs
    /\ Done(a)
    /\ UNCHANGED <<db, now, told, astray, faults>>

\* The command dies after its request: its response is lost, or it is killed.
Die(a) ==
    /\ cmd[a] # Idle /\ faults < MaxFaults
    /\ Done(a)
    /\ faults' = faults + 1
    /\ astray' = IF cmd[a].op = "register" THEN astray \cup {a} ELSE astray
    /\ UNCHANGED <<db, now, regs, told>>

-----------------------------------------------------------------------------
(* The worker: one request for all the active adapters that are reachable. *)

NewlyLeased == {m \in DOMAIN db'.msgs : db'.msgs[m].lease # db.msgs[m].lease}

\* Each envelope's conversation keeps its recipient's adapter.
KeptForAnswers(S) ==
    [a \in DOMAIN regs |->
        LET mine == {m \in S : db'.msgs[m].target = a}
        IN  IF mine = {} THEN regs[a]
            ELSE Retained(regs[a], db'.msgs[CHOOSE m \in mine : TRUE].expires)]

WorkerPoll(A) ==
    /\ A \subseteq ActiveAdapters
    /\ Poll(Device, A)
    /\ regs' = KeptForAnswers(NewlyLeased)
    /\ told' = told \cup {<<db'.msgs[m].target, db'.msgs[m].conv>> : m \in NewlyLeased}
    /\ UNCHANGED <<cmd, astray, faults>>

WorkerHeartbeat ==
    /\ ActiveAdapters # {}
    /\ Heartbeat(Device, ActiveAdapters)
    /\ UNCHANGED device

WorkerAck(a, m, l, st) == a \in Sessions /\ Ack(a, m, l, st) /\ UNCHANGED device

-----------------------------------------------------------------------------
(* Everybody else: other devices' agents, owners and administrators; and the *)
(* invitations redeemed anywhere, on this device too: `join' changes no      *)
(* adapter.                                                                  *)

Elsewhere ==
    /\ \/ \E a \in Agents \ Sessions, target \in Agents, b \in Buses : Send(a, target, b)
       \/ \E a \in Agents \ Sessions, m \in Ids : Reply(a, m, NoKey)
       \/ \E a \in Agents \ Sessions : Poll(Owner[a], {a})
       \/ \E a \in Agents \ Sessions, b \in Buses : Register(a, b)
       \/ \E p \in Admins : Read(p)
       \/ \E p \in Principals, b \in Buses : Redeem(p, b)
    /\ UNCHANGED device

\* The device or an agent of it loses something without this device's doing.
Withdrawals ==
    /\ \/ \E p \in Admins, a \in Sessions, b \in Buses : Leave(p, a, b)
       \/ \E b \in Buses : Withdraw({Device}, b)
    /\ UNCHANGED device

Commands ==
    \/ \E a \in Sessions :
          \/ IdentifyRequest(a) \/ RememberAdapter(a) \/ RetainReplyAdapter(a)
          \/ ForgetBus(a) \/ Die(a)
          \/ \E b \in Buses : RegisterRequest(a, b) \/ LeaveRequest(a, b)
          \/ \E target \in Agents, b \in Buses : SendRequest(a, target, b)
          \/ \E m \in Ids, k \in Keys \cup {NoKey} : ReplyRequest(a, m, k)

Delivery ==
    \/ \E A \in SUBSET Sessions : WorkerPoll(A)
    \/ WorkerHeartbeat
    \/ \E a \in Sessions, m \in Ids, l \in 1..(MaxTime + 1), st \in Outcomes : WorkerAck(a, m, l, st)

AdaptersNext ==
    Commands \/ Delivery \/ Elsewhere \/ Withdrawals \/ (Tick /\ UNCHANGED device)

AdaptersSpec == Init /\ AdaptersInit /\ [][AdaptersNext]_avars

-----------------------------------------------------------------------------
(* Properties. *)

\* While a conversation a session was told of is open, the session has an
\* adapter that is polled until the conversation ends, published or not: an
\* answer to it can be delivered ("The worker retains unpublished adapters
\* only through their outstanding reply windows", docs/BUSES.md).
AnswersReachable ==
    \A x \in told :
        x[2] \in DOMAIN db.convs /\ ~db.convs[x[2]].closed /\ db.convs[x[2]].expires > now =>
            x[1] \in DOMAIN regs /\ regs[x[1]].reply_until >= db.convs[x[2]].expires

\* A bus on which the broker lists a session of this device is one its adapter
\* is polled for, once the session's command is over; only a registration that
\* died half-way may differ, until the next registration or identification.
PublishedIsPolled ==
    \A a \in Sessions \ astray : cmd[a] = Idle =>
        PublishedOn(db, a) \subseteq IF a \in DOMAIN regs THEN regs[a].buses ELSE {}

\* "Other buses are unaffected" when a device loses its access to one
\* (docs/BUSES.md): while session a is published, the broker answers the one
\* request that polls for all adapters, those of the lost bus included.
OtherBusesUnaffected ==
    \A a, x \in ActiveAdapters :
        /\ PublishedOn(db, a) # {}
        /\ cmd[x] = Idle /\ \A b \in regs[x].buses : ~Granted(db, Device, b)
        => Owned(Expire(db, now), x)
=============================================================================
