------------------------------ MODULE BusBroker ------------------------------
(***************************************************************************)
(* The messaging half of the bus broker, lib/bus_broker.py.                *)
(*                                                                         *)
(* Broker.handle runs every request under one lock and inside one BEGIN    *)
(* IMMEDIATE transaction, so a request is one step: the database goes from *)
(* a value to the value the handler computes, or (an error rolls back to   *)
(* the savepoint) stays as it was.  The tables are therefore one record,   *)
(* db, and every helper of the source is an operator from database to      *)
(* database; `t' is the clock reading the transaction took.                *)
(*                                                                         *)
(* The module is the broker with no human-chat reader configured: the      *)
(* chat tables are then empty and _cancel_chat_invalid, _chat_close and    *)
(* the chat half of the queue have nothing to do.  Who may redeem which    *)
(* invitation is the admission component's business: here Redeem and       *)
(* Withdraw are the rows those operations add to and delete from `grants'  *)
(* and `memberships'.                                                      *)
(***************************************************************************)
EXTENDS Integers, FiniteSets

CONSTANTS
    Principals,         \* device credentials that may ever be enrolled
    Admins,             \* principals with is_admin = 1; they exist from the start
    Agents,             \* (principal, session_key) pairs that may ever be registered
    Owner,              \* the principal of each agent
    Buses,              \* buses; all exist
    General,            \* the bus every admitted device may send to
    Keys, NoKey,        \* reply request ids, and "the request carries none"
    MESSAGE_TTL, LEASE_TTL, RECEIPT_RETENTION, MAX_PENDING,
    POLL_LIMIT,         \* rows one poll_device may lease
    Outcomes,           \* the delivery outcomes workers acknowledge with
    MaxId, MaxTime      \* bounds: messages ever sent, clock

ASSUME BusAssumption ==
    /\ Admins \subseteq Principals
    /\ Owner \in [Agents -> Principals]
    /\ General \in Buses
    /\ NoKey \notin Agents \X (1..MaxId) \X Keys
    /\ MESSAGE_TTL \in Nat \ {0}
    /\ LEASE_TTL \in Nat \ {0}
    /\ RECEIPT_RETENTION \in Nat /\ RECEIPT_RETENTION >= MESSAGE_TTL
    /\ MAX_PENDING \in Nat \ {0}
    /\ POLL_LIMIT \in Nat \ {0}
    /\ Outcomes \subseteq {"delivered", "queued", "failed"}
    /\ MaxId \in Nat /\ MaxTime \in Nat

VARIABLES
    db,     \* the SQLite database
    now     \* the broker's clock
vars == <<db, now>>

(***************************************************************************)
(* Rows.  A message's id is its position in outbound_queue: both rows are  *)
(* inserted by the same transaction.  The conversation a send opens has    *)
(* the id of that first message.  `req' is the reply request a message     *)
(* answers: the broker keeps it in reply_requests, next to the result.     *)
(* A lease token is its ordinal among the leases of the message; 0 is NULL.*)
(***************************************************************************)
Ids == 1..MaxId
ACTIVE == {"accepted", "leased"}
TERMINAL == {"delivered", "queued", "failed", "expired", "cancelled"}
Requests == Agents \X Ids \X Keys

Message == [status : ACTIVE \cup TERMINAL, sender : Agents, target : Agents,
            bus : Buses, conv : Ids, expires : Nat, updated : Nat,
            lease : Nat, until : Nat, req : Requests \cup {NoKey}]
Conversation == [initiator : Agents, published : Agents, bus : Buses,
                 expires : Nat, closed : BOOLEAN]
ReplyRow == [id : Ids, at : Nat]

IsDatabase(d) ==
    /\ d = [principals |-> d.principals, revoked |-> d.revoked, grants |-> d.grants,
            agents |-> d.agents, members |-> d.members, msgs |-> d.msgs,
            convs |-> d.convs, replies |-> d.replies, next |-> d.next]
    /\ d.principals \subseteq Principals
    /\ d.revoked \subseteq Principals
    /\ d.grants \subseteq Principals \X Buses
    /\ d.agents \in [DOMAIN d.agents -> Nat] /\ DOMAIN d.agents \subseteq Agents
    /\ d.members \subseteq Agents \X Buses
    /\ d.msgs \in [DOMAIN d.msgs -> Message] /\ DOMAIN d.msgs \subseteq Ids
    /\ d.convs \in [DOMAIN d.convs -> Conversation] /\ DOMAIN d.convs \subseteq Ids
    /\ d.replies \in [DOMAIN d.replies -> ReplyRow]
    /\ DOMAIN d.replies \subseteq Requests
    /\ d.next \in 1..(MaxId + 1)

\* Types of the tables and the clock; every stored status is one the source names.
TypeOK == now \in 0..MaxTime /\ IsDatabase(db)

\* A fresh database: the operator's principal, no device, no agent, no mail.
Init ==
    /\ now = 0
    /\ db = [principals |-> Admins, revoked |-> {}, grants |-> {},
             agents |-> [a \in {} |-> 0], members |-> {},
             msgs |-> [m \in {} |-> 0], convs |-> [c \in {} |-> 0],
             replies |-> [r \in {} |-> 0], next |-> 1]

-----------------------------------------------------------------------------
(* Admission: grants admit a principal, memberships publish an agent. *)

Granted(d, p, b) ==
    /\ p \in d.principals \ d.revoked
    /\ p \in Admins \/ <<p, b>> \in d.grants

Member(d, a, b) ==
    /\ a \in DOMAIN d.agents
    /\ Granted(d, Owner[a], b)
    /\ <<a, b>> \in d.members

\* The two ends of conversation c are still admitted: the recipient must be
\* published on the bus; on general an unpublished initiator only needs its
\* device's admission.
Admitted(d, c) ==
    LET conv == d.convs[c] IN
    /\ Member(d, conv.published, conv.bus)
    /\ IF conv.bus # General
       THEN Member(d, conv.initiator, conv.bus)
       ELSE /\ conv.initiator \in DOMAIN d.agents
            /\ Granted(d, Owner[conv.initiator], conv.bus)

ConversationValid(d, c, t) ==
    /\ c \in DOMAIN d.convs
    /\ ~d.convs[c].closed
    /\ d.convs[c].expires > t
    /\ Admitted(d, c)

Active(d, m) == d.msgs[m].status \in ACTIVE
Pending(d, a) == {m \in DOMAIN d.msgs : Active(d, m) /\ d.msgs[m].target = a}

-----------------------------------------------------------------------------
(* _expire: what every request does before its own work. *)

\* Mutant: the stored result of a reply is dropped after a lease, not after
\* the receipt retention.
PurgeRepliesEarly(d, t) ==
    [d EXCEPT !.replies = [r \in {q \in DOMAIN @ : @[q].at > t - LEASE_TTL} |-> @[r]]]

PurgeReplies(d, t) ==
    [d EXCEPT !.replies =
        [r \in {q \in DOMAIN @ : @[q].at >= t - RECEIPT_RETENTION} |-> @[r]]]

ExpireMessages(d, t) ==
    [d EXCEPT !.msgs =
        [m \in DOMAIN @ |-> IF Active(d, m) /\ @[m].expires <= t
                            THEN [@[m] EXCEPT !.status = "expired", !.updated = t]
                            ELSE @[m]]]

PurgeMessages(d, t) ==
    [d EXCEPT !.msgs =
        [m \in {x \in DOMAIN @ : Active(d, x) \/ @[x].updated >= t - RECEIPT_RETENTION}
            |-> @[m]]]

\* Mutant: conversations go as soon as they are old enough, mail or not.
PurgeConversationsAnyway(d, t) ==
    [d EXCEPT !.convs =
        [c \in {x \in DOMAIN @ : @[x].expires >= t - MESSAGE_TTL} |-> @[c]]]

PurgeConversations(d, t) ==
    LET used == {d.msgs[m].conv : m \in DOMAIN d.msgs} IN
    [d EXCEPT !.convs =
        [c \in {x \in DOMAIN @ : x \in used \/ @[x].expires >= t - RECEIPT_RETENTION}
            |-> @[c]]]

\* Agents a membership, a stored message or a conversation still names.
Referenced(d) ==
    {x[1] : x \in d.members}
    \cup {d.msgs[m].sender : m \in DOMAIN d.msgs}
    \cup {d.msgs[m].target : m \in DOMAIN d.msgs}
    \cup {d.convs[c].initiator : c \in DOMAIN d.convs}
    \cup {d.convs[c].published : c \in DOMAIN d.convs}

PurgeAgents(d, t) ==
    [d EXCEPT !.agents =
        [a \in {x \in DOMAIN @ : x \in Referenced(d) \/ @[x] >= t - RECEIPT_RETENTION}
            |-> @[a]]]

Expire(d, t) ==
    PurgeAgents(PurgeConversations(PurgeMessages(ExpireMessages(
        PurgeReplies(d, t), t), t), t), t)

(* _cancel_invalid: close what lost its admission, for good, then cancel its mail. *)

\* Mutant: `closed' follows the current admission, so rejoining reopens.
CloseOrReopen(d, t) ==
    [d EXCEPT !.convs =
        [c \in DOMAIN @ |-> [@[c] EXCEPT !.closed = ~(Admitted(d, c) /\ d.convs[c].expires > t)]]]

CloseInvalid(d, t) ==
    [d EXCEPT !.convs =
        [c \in DOMAIN @ |-> IF ConversationValid(d, c, t) THEN @[c]
                            ELSE [@[c] EXCEPT !.closed = TRUE]]]

CancelPending(d, t) ==
    [d EXCEPT !.msgs =
        [m \in DOMAIN @ |->
            IF Active(d, m) /\ ~ConversationValid(d, @[m].conv, t)
            THEN [@[m] EXCEPT !.status = "cancelled", !.updated = t]
            ELSE @[m]]]

CancelInvalid(d, t) == CancelPending(CloseInvalid(d, t), t)

-----------------------------------------------------------------------------
(* Queue operators. *)

\* Mutant: one message too many fits.
HasRoomOffByOne(d, a) == Cardinality(Pending(d, a)) <= MAX_PENDING

HasRoom(d, a) == Cardinality(Pending(d, a)) < MAX_PENDING

NewMessage(sender, target, bus, conv, expires, req, t) ==
    [status |-> "accepted", sender |-> sender, target |-> target, bus |-> bus,
     conv |-> conv, expires |-> expires, updated |-> t, lease |-> 0, until |-> 0,
     req |-> req]

Enqueue(d, row) ==
    [d EXCEPT !.msgs = [m \in DOMAIN @ \cup {d.next} |-> IF m = d.next THEN row ELSE @[m]],
              !.next = @ + 1]

OpenConversation(d, initiator, published, b, t) ==
    LET conv == [initiator |-> initiator, published |-> published, bus |-> b,
                 expires |-> t + MESSAGE_TTL, closed |-> FALSE]
    IN [d EXCEPT !.convs = [c \in DOMAIN @ \cup {d.next} |-> IF c = d.next THEN conv ELSE @[c]]]

\* Mutant: any pending message may be leased, not only its target's earliest.
HeadsOfAnyOrder(d, A, t) ==
    {m \in DOMAIN d.msgs :
        /\ Active(d, m) /\ d.msgs[m].target \in A
        /\ d.msgs[m].status = "accepted" \/ d.msgs[m].until <= t}

\* Mutant: the earliest pending message again, whoever still holds its lease.
HeadsWhileLeased(d, A, t) ==
    {m \in DOMAIN d.msgs :
        /\ Active(d, m) /\ d.msgs[m].target \in A
        /\ \A e \in Pending(d, d.msgs[m].target) : m <= e}

\* The earliest pending message of each target in A, if nobody holds a lease on it.
Heads(d, A, t) ==
    {m \in DOMAIN d.msgs :
        /\ Active(d, m) /\ d.msgs[m].target \in A
        /\ d.msgs[m].status = "accepted" \/ d.msgs[m].until <= t
        /\ \A e \in Pending(d, d.msgs[m].target) : m <= e}

\* ORDER BY ordering LIMIT.
Fetched(d, A, t) ==
    {m \in Heads(d, A, t) :
        Cardinality({e \in Heads(d, A, t) : e < m}) < POLL_LIMIT}

LeaseAll(d, S, t) ==
    [d EXCEPT !.msgs =
        [m \in DOMAIN @ |->
            IF m \in S
            THEN [@[m] EXCEPT !.status = "leased", !.lease = d.msgs[m].lease + 1,
                              !.until = t + LEASE_TTL, !.updated = t]
            ELSE @[m]]]

-----------------------------------------------------------------------------
(* Requests.  A request that fails leaves the database as it was.  What a row *)
(* that _expire never rewrites says (target, lease) is read from db.          *)

Authenticated(p) == p \in db.principals \ db.revoked
Owned(d, a) == Authenticated(Owner[a]) /\ a \in DOMAIN d.agents

\* _op_send, with the target already resolved to one agent id.
Send(a, target, b) ==
    LET d1 == Expire(db, now)
        d2 == CancelInvalid(d1, now)
    IN  /\ db.next <= MaxId
        /\ Owned(d1, a)
        /\ Granted(d1, Owner[a], b)
        /\ b # General => Member(d1, a, b)
        /\ Member(d1, target, b)
        /\ HasRoom(d2, target)
        /\ db' = Enqueue(OpenConversation(d2, a, target, b, now),
                         NewMessage(a, target, b, db.next, now + MESSAGE_TTL, NoKey, now))
        /\ UNCHANGED now

\* Mutant: an answer always goes to whoever opened the conversation.
ReplyToInitiator(d, a, m, req, t) ==
    LET conv == d.convs[d.msgs[m].conv]
    IN  Enqueue(d, NewMessage(a, conv.initiator, d.msgs[m].bus, d.msgs[m].conv,
                              conv.expires, req, t))

\* The row _reply enqueues: back to the sender, within the conversation's life.
EnqueueReply(d, a, m, req, t) ==
    Enqueue(d, NewMessage(a, d.msgs[m].sender, d.msgs[m].bus, d.msgs[m].conv,
                          d.convs[d.msgs[m].conv].expires, req, t))

RememberReply(d, req, id, t) ==
    [d EXCEPT !.replies = [r \in DOMAIN @ \cup {req} |->
                              IF r = req THEN [id |-> id, at |-> t] ELSE @[r]]]

\* _op_reply for a request id not yet answered, or (k = NoKey) without one.
Reply(a, m, k) ==
    LET d1 == Expire(db, now)
        d2 == CancelInvalid(d1, now)
        req == IF k = NoKey THEN NoKey ELSE <<a, m, k>>
        d3 == EnqueueReply(d2, a, m, req, now)
    IN  /\ db.next <= MaxId
        /\ m \in DOMAIN db.msgs /\ db.msgs[m].target = a
        /\ Owned(d1, a)
        /\ req \notin DOMAIN d1.replies
        /\ m \in DOMAIN d1.msgs
        /\ d1.msgs[m].status \in {"leased", "delivered", "queued"}
        /\ ConversationValid(d2, d1.msgs[m].conv, now)
        /\ HasRoom(d2, d1.msgs[m].sender)
        /\ db' = IF k = NoKey THEN d3 ELSE RememberReply(d3, req, db.next, now)
        /\ UNCHANGED now

\* _op_reply for a request id already answered: the stored result again.
ReplyAgain(a, m, k) ==
    LET d1 == Expire(db, now)
    IN  /\ <<a, m, k>> \in DOMAIN db.replies
        /\ Owned(d1, a)
        /\ <<a, m, k>> \in DOMAIN d1.replies
        /\ db' = d1
        /\ UNCHANGED now

\* _op_poll and _op_poll_device: p asks for agents A, all of them its own.
Poll(p, A) ==
    LET d1 == Expire(db, now)
        d2 == CancelInvalid(d1, now)
    IN  /\ A # {}
        /\ \A a \in A : Owner[a] = p /\ Owned(d1, a)
        /\ db' = LeaseAll(d2, Fetched(d2, A, now), now)
        /\ UNCHANGED now

\* Mutant: the lease decides, whatever became of the message meanwhile.
SettlesOnLeaseOnly(d, m, st, t) == d.msgs[m].until > t

\* An acknowledgement settles a message whose lease still runs.
Settles(d, m, st, t) == d.msgs[m].status = "leased" /\ d.msgs[m].until > t

Settle(d, m, st, t) ==
    [d EXCEPT !.msgs = [@ EXCEPT ![m].status = st, ![m].updated = t]]

\* _op_ack with lease token l: settle, or repeat the answer already given.
Ack(a, m, l, st) ==
    LET d1 == Expire(db, now)
        d2 == CancelInvalid(d1, now)
    IN  /\ m \in DOMAIN db.msgs /\ db.msgs[m].target = a
        /\ db.msgs[m].lease # 0 /\ db.msgs[m].lease = l
        /\ Owned(d1, a)
        /\ m \in DOMAIN d1.msgs
        /\ \/ d2.msgs[m].status = st /\ db' = d2
           \/ /\ d2.msgs[m].status # st
              /\ Settles(d2, m, st, now)
              /\ db' = Settle(d2, m, st, now)
        /\ UNCHANGED now

\* _op_receipt, asked by either end's device.
Receipt(p, m) ==
    LET d2 == CancelInvalid(Expire(db, now), now)
    IN  /\ m \in DOMAIN db.msgs /\ Authenticated(p)
        /\ m \in DOMAIN d2.msgs
        /\ p \in {Owner[d2.msgs[m].sender], Owner[d2.msgs[m].target]}
        /\ db' = d2
        /\ UNCHANGED now

\* Any request that only reads the messaging tables (snapshot, device, ...).
Read(p) ==
    /\ Authenticated(p)
    /\ db' = Expire(db, now)
    /\ UNCHANGED now

-----------------------------------------------------------------------------
(* Admission and publication. *)

Touch(d, A, t) ==
    [d EXCEPT !.agents = [a \in DOMAIN @ \cup A |-> IF a \in A THEN t ELSE @[a]]]

\* _op_register: publish agent a on bus b.
Register(a, b) ==
    LET d1 == Expire(db, now)
    IN  /\ Authenticated(Owner[a])
        /\ Granted(d1, Owner[a], b)
        /\ db' = [Touch(d1, {a}, now) EXCEPT !.members = @ \cup {<<a, b>>}]
        /\ UNCHANGED now

\* _op_identify: a reply adapter for outbound general mail, published nowhere.
Identify(a) ==
    LET d1 == Expire(db, now)
    IN  /\ Authenticated(Owner[a])
        /\ Granted(d1, Owner[a], General)
        /\ db' = Touch(d1, {a}, now)
        /\ UNCHANGED now

\* _op_heartbeat for agents A of device p; one foreign agent fails them all.
Heartbeat(p, A) ==
    LET d1 == Expire(db, now)
    IN  /\ Authenticated(p)
        /\ \A a \in A : Owner[a] = p /\ a \in DOMAIN d1.agents
        /\ db' = Touch(d1, A, now)
        /\ UNCHANGED now

\* Mutant: leaving only unpublishes the agent.
UnpublishOnly(d, a, b) == [d EXCEPT !.members = @ \ {<<a, b>>}]

\* Unpublish agent a on bus b and end every conversation it has there.
Unpublish(d, a, b) ==
    [d EXCEPT !.members = @ \ {<<a, b>>},
              !.convs = [c \in DOMAIN @ |->
                  IF @[c].bus = b /\ a \in {@[c].initiator, @[c].published}
                  THEN [@[c] EXCEPT !.closed = TRUE] ELSE @[c]]]

\* _op_leave, by the agent's device or an administrator.
Leave(p, a, b) ==
    LET d1 == Expire(db, now)
    IN  /\ Authenticated(p)
        /\ a \in DOMAIN d1.agents
        /\ p = Owner[a] \/ p \in Admins
        /\ db' = CancelInvalid(Unpublish(d1, a, b), now)
        /\ UNCHANGED now

\* _op_redeem: an invitation admits principal p, enrolling it if it is new.
Redeem(p, b) ==
    /\ p \notin db.revoked
    /\ db' = Expire([db EXCEPT !.principals = @ \cup {p}, !.grants = @ \cup {<<p, b>>}], now)
    /\ UNCHANGED now

\* Mutant: withdrawing an admission forgets to look at the mail.
WithdrawQuietly(d, P, b, t) ==
    [d EXCEPT !.grants = @ \ (P \X {b}),
              !.members = {x \in @ : ~(x[2] = b /\ Owner[x[1]] \in P)}]

\* Principals P lose bus b: their grants, their agents' publications, and
\* with them the conversations these admitted.
WithdrawAccess(d, P, b, t) ==
    CancelInvalid([d EXCEPT !.grants = @ \ (P \X {b}),
                            !.members = {x \in @ : ~(x[2] = b /\ Owner[x[1]] \in P)}], t)

\* _op_event_remove (one device) and _op_member_remove (an account's devices).
Withdraw(P, b) ==
    /\ b # General
    /\ db' = WithdrawAccess(Expire(db, now), P, b, now)
    /\ UNCHANGED now

\* _op_revoke: the device's credential is gone for good.
Revoke(p) ==
    LET d1 == Expire(db, now)
        d2 == [d1 EXCEPT !.revoked = @ \cup {p},
                         !.grants = {x \in @ : x[1] # p},
                         !.members = {x \in @ : Owner[x[1]] # p}]
    IN  /\ p \in db.principals \ Admins
        /\ db' = CancelInvalid(d2, now)
        /\ UNCHANGED now

Tick == now < MaxTime /\ now' = now + 1 /\ UNCHANGED db

-----------------------------------------------------------------------------

Messaging ==
    \/ \E a, target \in Agents, b \in Buses : Send(a, target, b)
    \/ \E a \in Agents, m \in Ids, k \in Keys \cup {NoKey} : Reply(a, m, k)
    \/ \E a \in Agents, m \in Ids, k \in Keys : ReplyAgain(a, m, k)
    \/ \E p \in Principals, A \in SUBSET Agents : Poll(p, A)
    \/ \E a \in Agents, m \in Ids, l \in 1..(MaxTime + 1), st \in Outcomes : Ack(a, m, l, st)
    \/ \E p \in Principals, m \in Ids : Receipt(p, m)
    \/ \E p \in Principals : Read(p)

Admission ==
    \/ \E a \in Agents, b \in Buses : Register(a, b)
    \/ \E a \in Agents : Identify(a)
    \/ \E p \in Principals, A \in SUBSET Agents : Heartbeat(p, A)
    \/ \E p \in Principals, a \in Agents, b \in Buses : Leave(p, a, b)
    \/ \E p \in Principals, b \in Buses : Redeem(p, b)
    \/ \E P \in SUBSET Principals, b \in Buses : Withdraw(P, b)
    \/ \E p \in Principals : Revoke(p)

Next == Messaging \/ Admission \/ Tick

Spec == Init /\ [][Next]_vars

-----------------------------------------------------------------------------
(* What the broker promises.  The operators on a database are also what the *)
(* proofs carry through the helpers above.                                   *)

LeasedAreHeads(d) ==
    \A m \in DOMAIN d.msgs : d.msgs[m].status = "leased" =>
        \A e \in Pending(d, d.msgs[m].target) : m <= e

\* Only the earliest pending message of a recipient is ever on lease: a
\* recipient never works on two deliveries at once and sees them in queue order
\* (_poll's NOT EXISTS, against leases that ran out and later enqueues).
HeadOfLine == LeasedAreHeads(db)

OpenAreAdmitted(d) == \A c \in DOMAIN d.convs : d.convs[c].closed \/ Admitted(d, c)

PendingAreOpen(d) ==
    \A m \in DOMAIN d.msgs : Active(d, m) =>
        /\ d.msgs[m].conv \in DOMAIN d.convs
        /\ ~d.convs[d.msgs[m].conv].closed

\* Mail can only be waiting or on lease in a conversation that is open, and an
\* open conversation has both ends admitted: whichever request withdraws an
\* admission or a publication leaves nothing behind to be fetched.
MailAdmitted == OpenAreAdmitted(db) /\ PendingAreOpen(db)

ReferencesExist(d) ==
    /\ \A m \in DOMAIN d.msgs : d.msgs[m].conv \in DOMAIN d.convs
    /\ Referenced(d) \subseteq DOMAIN d.agents

\* Every row a stored row names is stored: _poll joins the sender's row and
\* _reply the conversation's without checking, and _expire deletes all kinds.
NoDangling == ReferencesExist(db)

QueuesBounded(d) ==
    \A a \in Agents : Cardinality(Pending(d, a)) <= MAX_PENDING

\* No recipient has more than MAX_PENDING messages waiting, counting those on
\* lease and the answers of its own conversations.
BoundedQueue == QueuesBounded(db)

WithinConversation(d) ==
    \A m \in DOMAIN d.msgs : d.msgs[m].conv \in DOMAIN d.convs =>
        LET conv == d.convs[d.msgs[m].conv] IN
        /\ {d.msgs[m].sender, d.msgs[m].target} = {conv.initiator, conv.published}
        /\ d.msgs[m].bus = conv.bus
        /\ d.msgs[m].expires = conv.expires

\* However long the exchange of answers, it stays between the two agents of
\* the first message, on its bus, and ends a MESSAGE_TTL after that message.
ReplyConfined == WithinConversation(db)

RequestsAnsweredOnce(d) ==
    \A x, y \in DOMAIN d.msgs :
        d.msgs[x].req = d.msgs[y].req /\ d.msgs[x].req # NoKey => x = y

\* A reply request repeated after a lost response never enqueues a second
\* answer: its stored result outlives the conversation it could answer in.
AnsweredOnce == RequestsAnsweredOnce(db)

Kept(d, e) == DOMAIN d \cap DOMAIN e

\* A withdrawn conversation is never reactivated, even if both agents are
\* admitted and published again (comment in _cancel_invalid).
ClosedForGood ==
    [][\A c \in Kept(db.convs, db'.convs) :
          db.convs[c].closed => db'.convs[c].closed]_vars

\* An agent that stops being published on a bus keeps no open conversation
\* there, as recipient or as initiator: the general bus does not require an
\* initiator to be published, so this is not implied by admission.
UnpublishedEnds ==
    [][\A x \in db.members \ db'.members : \A c \in DOMAIN db'.convs :
          db'.convs[c].bus = x[2] /\ x[1] \in {db'.convs[c].initiator, db'.convs[c].published}
             => db'.convs[c].closed]_vars

-----------------------------------------------------------------------------
(* The queue a fetching worker sees; a lease is held until its time is up. *)

Box == [m \in DOMAIN db.msgs |->
            [target |-> db.msgs[m].target, status |-> db.msgs[m].status,
             lease |-> db.msgs[m].lease, held |-> db.msgs[m].until > now]]

Queue == INSTANCE MailQueue WITH box <- Box, next <- db.next

\* Seen by its workers the broker is a MailQueue: every request, with the
\* expiry, cancellation and retention it starts with, is one step of it.
ImplementsQueue == Queue!QueueSpec

-----------------------------------------------------------------------------
(* The inductive invariant of the proofs (BusBrokerProofs). *)

IdsFresh(d) ==
    /\ \A m \in DOMAIN d.msgs : m < d.next
    /\ \A c \in DOMAIN d.convs : c < d.next

\* What every helper keeps, whatever happens to admissions.
Sound(d) ==
    /\ IsDatabase(d)
    /\ LeasedAreHeads(d)
    /\ ReferencesExist(d)
    /\ QueuesBounded(d)
    /\ WithinConversation(d)
    /\ IdsFresh(d)

Open(d) == OpenAreAdmitted(d) /\ PendingAreOpen(d)

\* An answered request is on record for as long as its conversation can live.
AnswersRecorded(d, t) ==
    \A x \in DOMAIN d.msgs : d.msgs[x].req # NoKey =>
        LET r == d.msgs[x].req IN
        /\ r[2] \in DOMAIN d.msgs => d.msgs[r[2]].conv = d.msgs[x].conv
        /\ r[2] < x
        /\ r \in DOMAIN d.replies \/ d.msgs[x].expires <= t
        /\ r \in DOMAIN d.replies => d.msgs[x].expires <= d.replies[r].at + MESSAGE_TTL

ConversationsDated(d, t) ==
    \A c \in DOMAIN d.convs : d.convs[c].expires <= t + MESSAGE_TTL

Timed(d, t) ==
    AnswersRecorded(d, t) /\ ConversationsDated(d, t) /\ RequestsAnsweredOnce(d)

\* All of the above together: the strengthening that every request preserves.
IInv == now \in 0..MaxTime /\ Sound(db) /\ Open(db) /\ Timed(db, now)
=============================================================================
