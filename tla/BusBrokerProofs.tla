--------------------------- MODULE BusBrokerProofs ---------------------------
(***************************************************************************)
(* What BusBroker's runs check on two devices, for any principals, agents, *)
(* buses, message count and periods.  The requests are compositions of     *)
(* operators on a database, so most of the argument is about single        *)
(* databases: which parts of the invariant each operator keeps (Sound,     *)
(* Timed) and that CancelInvalid establishes the rest (Open).              *)
(*                                                                         *)
(* The second half says what a single request may never do, and that the   *)
(* broker is a MailQueue.  Every request begins with _expire and mostly    *)
(* with _cancel_invalid.  For these, and for each table a request          *)
(* rewrites, lemmas say what becomes of the mail (Housekept) and of the    *)
(* conversations (Ages); the invariant IInv supplies the rest.             *)
(*                                                                         *)
(* The last part proves two properties of BusAdapters for any sessions,    *)
(* any broker traffic and any number of commands that die half-way: an     *)
(* answer to a conversation a session was told of can still be delivered   *)
(* to it, and a session is polled for every bus it is published on.  The   *)
(* registrations are written from responses, after the broker may have     *)
(* moved on.  The invariant therefore relates what a command still has to  *)
(* write, cmd, to the broker as it is now: memberships only shrink behind  *)
(* a registering session's back (KnownHere), and a conversation keeps the  *)
(* end it was answered with (AnswerDue).                                   *)
(***************************************************************************)
EXTENDS BusAdapters, FiniteSetTheorems, TLAPS

-----------------------------------------------------------------------------
(* Databases as records. *)

\* e is d with the given columns replaced.
SameAdmission(d, e) ==
    /\ e.principals = d.principals /\ e.revoked = d.revoked
    /\ e.grants = d.grants /\ e.members = d.members

SameExceptMsgs(d, e) ==
    /\ SameAdmission(d, e) /\ e.agents = d.agents /\ e.convs = d.convs
    /\ e.replies = d.replies /\ e.next = d.next

SameExceptConvs(d, e) ==
    /\ SameAdmission(d, e) /\ e.agents = d.agents /\ e.msgs = d.msgs
    /\ e.replies = d.replies /\ e.next = d.next

SameExceptAgents(d, e) ==
    /\ SameAdmission(d, e) /\ e.msgs = d.msgs /\ e.convs = d.convs
    /\ e.replies = d.replies /\ e.next = d.next

SameExceptReplies(d, e) ==
    /\ SameAdmission(d, e) /\ e.agents = d.agents /\ e.msgs = d.msgs
    /\ e.convs = d.convs /\ e.next = d.next

\* Replacing the messages table by another of the right type.
LEMMA SetMsgs ==
    ASSUME NEW d, IsDatabase(d), NEW S \in SUBSET Ids, NEW f \in [S -> Message],
           NEW e, e = [d EXCEPT !.msgs = f]
    PROVE  IsDatabase(e) /\ e.msgs = f /\ SameExceptMsgs(d, e)
<1>1. e = [principals |-> d.principals, revoked |-> d.revoked, grants |-> d.grants,
           agents |-> d.agents, members |-> d.members, msgs |-> f,
           convs |-> d.convs, replies |-> d.replies, next |-> d.next]
  BY DEF IsDatabase
<1>2. e.msgs = f /\ SameExceptMsgs(d, e)
  BY <1>1 DEF SameExceptMsgs, SameAdmission
<1>3. DOMAIN e.msgs = S
  BY <1>2
<1>4. IsDatabase(e)
  BY <1>1, <1>2, <1>3 DEF IsDatabase, SameExceptMsgs, SameAdmission
<1> QED BY <1>2, <1>4

\* Replacing the conversations table by another of the right type.
LEMMA SetConvs ==
    ASSUME NEW d, IsDatabase(d), NEW S \in SUBSET Ids, NEW f \in [S -> Conversation],
           NEW e, e = [d EXCEPT !.convs = f]
    PROVE  IsDatabase(e) /\ e.convs = f /\ SameExceptConvs(d, e)
<1>1. e = [principals |-> d.principals, revoked |-> d.revoked, grants |-> d.grants,
           agents |-> d.agents, members |-> d.members, msgs |-> d.msgs,
           convs |-> f, replies |-> d.replies, next |-> d.next]
  BY DEF IsDatabase
<1>2. e.convs = f /\ SameExceptConvs(d, e)
  BY <1>1 DEF SameExceptConvs, SameAdmission
<1>3. DOMAIN e.convs = S
  BY <1>2
<1>4. IsDatabase(e)
  BY <1>1, <1>2, <1>3 DEF IsDatabase, SameExceptConvs, SameAdmission
<1> QED BY <1>2, <1>4

\* Replacing the agents table by another of the right type.
LEMMA SetAgents ==
    ASSUME NEW d, IsDatabase(d), NEW S \in SUBSET Agents, NEW f \in [S -> Nat],
           NEW e, e = [d EXCEPT !.agents = f]
    PROVE  IsDatabase(e) /\ e.agents = f /\ SameExceptAgents(d, e)
<1>1. e = [principals |-> d.principals, revoked |-> d.revoked, grants |-> d.grants,
           agents |-> f, members |-> d.members, msgs |-> d.msgs,
           convs |-> d.convs, replies |-> d.replies, next |-> d.next]
  BY DEF IsDatabase
<1>2. e.agents = f /\ SameExceptAgents(d, e)
  BY <1>1 DEF SameExceptAgents, SameAdmission
<1>3. DOMAIN e.agents = S
  BY <1>2
<1>4. IsDatabase(e)
  BY <1>1, <1>2, <1>3 DEF IsDatabase, SameExceptAgents, SameAdmission
<1> QED BY <1>2, <1>4

\* Replacing the reply results by another table of the right type.
LEMMA SetReplies ==
    ASSUME NEW d, IsDatabase(d), NEW S \in SUBSET Requests, NEW f \in [S -> ReplyRow],
           NEW e, e = [d EXCEPT !.replies = f]
    PROVE  IsDatabase(e) /\ e.replies = f /\ SameExceptReplies(d, e)
<1>1. e = [principals |-> d.principals, revoked |-> d.revoked, grants |-> d.grants,
           agents |-> d.agents, members |-> d.members, msgs |-> d.msgs,
           convs |-> d.convs, replies |-> f, next |-> d.next]
  BY DEF IsDatabase
<1>2. e.replies = f /\ SameExceptReplies(d, e)
  BY <1>1 DEF SameExceptReplies, SameAdmission
<1>3. DOMAIN e.replies = S
  BY <1>2
<1>4. IsDatabase(e)
  BY <1>1, <1>2, <1>3 DEF IsDatabase, SameExceptReplies, SameAdmission
<1> QED BY <1>2, <1>4

-----------------------------------------------------------------------------
(* Messages only leave the queue: what such a change keeps. *)

SameRow(d, e, m) ==
    /\ e.msgs[m].sender = d.msgs[m].sender /\ e.msgs[m].target = d.msgs[m].target
    /\ e.msgs[m].bus = d.msgs[m].bus /\ e.msgs[m].conv = d.msgs[m].conv
    /\ e.msgs[m].expires = d.msgs[m].expires /\ e.msgs[m].req = d.msgs[m].req

Drains(d, e) ==
    /\ SameExceptMsgs(d, e)
    /\ DOMAIN e.msgs \subseteq DOMAIN d.msgs
    /\ \A m \in DOMAIN e.msgs :
          /\ SameRow(d, e, m)
          /\ Active(e, m) => Active(d, m)
          /\ e.msgs[m].status = "leased" => d.msgs[m].status = "leased"
    /\ \A m \in DOMAIN d.msgs : Active(d, m) => m \in DOMAIN e.msgs

LEMMA PendingFinite ==
    ASSUME NEW d, IsDatabase(d), NEW a
    PROVE  IsFiniteSet(Pending(d, a)) /\ Cardinality(Pending(d, a)) \in Nat
<1>1. IsFiniteSet(Ids)
  BY BusAssumption, FS_Interval DEF Ids
<1>2. Pending(d, a) \subseteq Ids
  BY DEF Pending, IsDatabase
<1> QED BY <1>1, <1>2, FS_Subset, FS_CardinalityType

LEMMA FewerPending ==
    ASSUME NEW d, IsDatabase(d), QueuesBounded(d), NEW e,
           \A a \in Agents : Pending(e, a) \subseteq Pending(d, a)
    PROVE  QueuesBounded(e)
<1> SUFFICES ASSUME NEW a \in Agents
             PROVE  Cardinality(Pending(e, a)) <= MAX_PENDING
  BY DEF QueuesBounded
<1>1. Cardinality(Pending(e, a)) <= Cardinality(Pending(d, a)) /\ IsFiniteSet(Pending(e, a))
  BY PendingFinite, FS_Subset
<1>2. Cardinality(Pending(e, a)) \in Nat /\ Cardinality(Pending(d, a)) \in Nat
  BY <1>1, PendingFinite, FS_CardinalityType
<1> QED BY <1>1, <1>2, BusAssumption DEF QueuesBounded

LEMMA DrainKeepsSound ==
    ASSUME NEW d, NEW e, Sound(d), IsDatabase(e), Drains(d, e)
    PROVE  Sound(e)
<1> USE DEF Drains, SameExceptMsgs, SameAdmission
<1>1. \A a \in Agents : Pending(e, a) \subseteq Pending(d, a)
  BY DEF Pending, SameRow
<1>2. LeasedAreHeads(e)
  <2> SUFFICES ASSUME NEW m \in DOMAIN e.msgs, e.msgs[m].status = "leased",
                      NEW x \in Pending(e, e.msgs[m].target)
               PROVE  m <= x
    BY DEF LeasedAreHeads
  <2>1. x \in Pending(d, d.msgs[m].target)
    BY DEF Pending, SameRow
  <2> QED BY <2>1 DEF Sound, LeasedAreHeads
<1>3. ReferencesExist(e)
  BY DEF Sound, ReferencesExist, Referenced, SameRow
<1>4. QueuesBounded(e)
  BY <1>1, FewerPending DEF Sound
<1>5. WithinConversation(e)
  BY DEF Sound, WithinConversation, SameRow
<1>6. IdsFresh(e)
  BY DEF Sound, IdsFresh
<1> QED BY <1>2, <1>3, <1>4, <1>5, <1>6 DEF Sound

LEMMA DrainKeepsOpen ==
    ASSUME NEW d, NEW e, Open(d), Drains(d, e)
    PROVE  Open(e)
<1> USE DEF Drains, SameExceptMsgs, SameAdmission
<1>1. \A c \in DOMAIN e.convs : Admitted(d, c) => Admitted(e, c)
  BY DEF Admitted, Member, Granted
<1>2. OpenAreAdmitted(e)
  BY <1>1 DEF Open, OpenAreAdmitted
<1>3. PendingAreOpen(e)
  BY DEF Open, PendingAreOpen, SameRow
<1> QED BY <1>2, <1>3 DEF Open

LEMMA DrainKeepsTimed ==
    ASSUME NEW d, NEW e, NEW t, Timed(d, t), Drains(d, e)
    PROVE  Timed(e, t)
<1> USE DEF Drains, SameExceptMsgs, SameAdmission
<1>1. AnswersRecorded(e, t)
  BY DEF Timed, AnswersRecorded, SameRow
<1>2. ConversationsDated(e, t)
  BY DEF Timed, ConversationsDated
<1>3. RequestsAnsweredOnce(e)
  BY DEF Timed, RequestsAnsweredOnce, SameRow
<1> QED BY <1>1, <1>2, <1>3 DEF Timed

LEMMA ExpireMessagesDrains ==
    ASSUME NEW d, IsDatabase(d), NEW t \in Nat
    PROVE  IsDatabase(ExpireMessages(d, t)) /\ Drains(d, ExpireMessages(d, t))
<1> DEFINE f == [m \in DOMAIN d.msgs |->
                    IF Active(d, m) /\ d.msgs[m].expires <= t
                    THEN [d.msgs[m] EXCEPT !.status = "expired", !.updated = t]
                    ELSE d.msgs[m]]
           e == ExpireMessages(d, t)
<1>1. f \in [DOMAIN d.msgs -> Message] /\ DOMAIN d.msgs \in SUBSET Ids
  BY ZenonT(60) DEF IsDatabase, Message, TERMINAL
<1>2. e = [d EXCEPT !.msgs = f]
  BY DEF ExpireMessages
<1> HIDE DEF f, e
<1>3. IsDatabase(e) /\ e.msgs = f /\ SameExceptMsgs(d, e)
  BY <1>1, <1>2, SetMsgs
<1>4. DOMAIN e.msgs = DOMAIN d.msgs
  BY <1>3 DEF f
<1>5. ASSUME NEW m \in DOMAIN e.msgs
      PROVE  /\ SameRow(d, e, m)
             /\ Active(e, m) => Active(d, m)
             /\ e.msgs[m].status = "leased" => d.msgs[m].status = "leased"
  <2>1. d.msgs[m] \in Message
    BY <1>4 DEF IsDatabase
  <2> QED BY <2>1, <1>3, <1>4 DEF f, SameRow, Active, ACTIVE, Message
<1> QED BY <1>3, <1>4, <1>5 DEF Drains, e

LEMMA PurgeMessagesDrains ==
    ASSUME NEW d, IsDatabase(d), NEW t \in Nat
    PROVE  IsDatabase(PurgeMessages(d, t)) /\ Drains(d, PurgeMessages(d, t))
<1> DEFINE kept == {x \in DOMAIN d.msgs :
                       Active(d, x) \/ d.msgs[x].updated >= t - RECEIPT_RETENTION}
           f == [m \in kept |-> d.msgs[m]]
           e == PurgeMessages(d, t)
<1>1. f \in [kept -> Message] /\ kept \in SUBSET Ids
  BY DEF IsDatabase
<1>2. e = [d EXCEPT !.msgs = f]
  BY DEF PurgeMessages
<1>3. /\ kept \subseteq DOMAIN d.msgs
      /\ \A m \in DOMAIN d.msgs : Active(d, m) => m \in kept
  OBVIOUS
<1> HIDE DEF kept, e
<1>4. IsDatabase(e) /\ e.msgs = f /\ SameExceptMsgs(d, e)
  BY <1>1, <1>2, SetMsgs
<1> QED BY <1>3, <1>4 DEF Drains, SameRow, Active, e

LEMMA CancelPendingDrains ==
    ASSUME NEW d, IsDatabase(d), NEW t \in Nat
    PROVE  /\ IsDatabase(CancelPending(d, t)) /\ Drains(d, CancelPending(d, t))
           /\ \A m \in DOMAIN CancelPending(d, t).msgs :
                 Active(CancelPending(d, t), m) => ConversationValid(d, d.msgs[m].conv, t)
<1> DEFINE f == [m \in DOMAIN d.msgs |->
                    IF Active(d, m) /\ ~ConversationValid(d, d.msgs[m].conv, t)
                    THEN [d.msgs[m] EXCEPT !.status = "cancelled", !.updated = t]
                    ELSE d.msgs[m]]
           e == CancelPending(d, t)
<1>1. f \in [DOMAIN d.msgs -> Message] /\ DOMAIN d.msgs \in SUBSET Ids
  BY ZenonT(60) DEF IsDatabase, Message, TERMINAL
<1>2. e = [d EXCEPT !.msgs = f]
  BY DEF CancelPending
<1> HIDE DEF f, e
<1>3. IsDatabase(e) /\ e.msgs = f /\ SameExceptMsgs(d, e)
  BY <1>1, <1>2, SetMsgs
<1>4. DOMAIN e.msgs = DOMAIN d.msgs
  BY <1>3 DEF f
<1>5. ASSUME NEW m \in DOMAIN e.msgs
      PROVE  /\ SameRow(d, e, m)
             /\ Active(e, m) => Active(d, m) /\ ConversationValid(d, d.msgs[m].conv, t)
             /\ e.msgs[m].status = "leased" => d.msgs[m].status = "leased"
  <2>1. d.msgs[m] \in Message
    BY <1>4 DEF IsDatabase
  <2> QED BY <2>1, <1>3, <1>4 DEF f, SameRow, Active, ACTIVE, Message
<1> QED BY <1>3, <1>4, <1>5 DEF Drains, e

LEMMA SettleDrains ==
    ASSUME NEW d, IsDatabase(d), NEW t \in Nat, NEW m \in DOMAIN d.msgs,
           NEW st \in {"delivered", "queued", "failed"}
    PROVE  IsDatabase(Settle(d, m, st, t)) /\ Drains(d, Settle(d, m, st, t))
<1> DEFINE f == [d.msgs EXCEPT ![m].status = st, ![m].updated = t]
           row == [d.msgs[m] EXCEPT !.status = st, !.updated = t]
           e == Settle(d, m, st, t)
<1>1. f \in [DOMAIN d.msgs -> Message] /\ DOMAIN d.msgs \in SUBSET Ids
  <2>1. d.msgs[m] \in Message /\ d.msgs \in [DOMAIN d.msgs -> Message]
    BY DEF IsDatabase
  <2>2. row \in Message
    BY <2>1 DEF Message, TERMINAL
  <2>3. f = [d.msgs EXCEPT ![m] = row]
    OBVIOUS
  <2> HIDE DEF row, f
  <2> QED BY <2>1, <2>2, <2>3 DEF IsDatabase
<1>2. e = [d EXCEPT !.msgs = f]
  BY DEF Settle
<1> HIDE DEF f, e
<1>3. IsDatabase(e) /\ e.msgs = f /\ SameExceptMsgs(d, e)
  BY <1>1, <1>2, SetMsgs
<1>4. DOMAIN e.msgs = DOMAIN d.msgs
  BY <1>1, <1>3
<1>5. ASSUME NEW x \in DOMAIN e.msgs
      PROVE  /\ SameRow(d, e, x)
             /\ Active(e, x) => Active(d, x)
             /\ e.msgs[x].status = "leased" => d.msgs[x].status = "leased"
  <2>1. d.msgs[x] \in Message /\ d.msgs \in [DOMAIN d.msgs -> Message]
    BY <1>4 DEF IsDatabase
  <2> QED BY <2>1, <1>3, <1>4 DEF f, SameRow, Active, ACTIVE, Message
<1> QED BY <1>3, <1>4, <1>5 DEF Drains, e

-----------------------------------------------------------------------------
(* _expire.  Everything a request relies on, for the clock it took. *)

Clean(d, t) == Sound(d) /\ Open(d) /\ Timed(d, t)

\* Every message of e is a message of d, with the columns no request rewrites.
Follows(d, e) ==
    /\ e.next = d.next
    /\ DOMAIN e.msgs \subseteq DOMAIN d.msgs
    /\ \A m \in DOMAIN e.msgs : SameRow(d, e, m)

LEMMA PurgeRepliesKeeps ==
    ASSUME NEW d, NEW t \in Nat, Clean(d, t)
    PROVE  LET e == PurgeReplies(d, t) IN Clean(e, t) /\ Follows(d, e) /\ SameAdmission(d, e)
<1> DEFINE kept == {q \in DOMAIN d.replies : d.replies[q].at >= t - RECEIPT_RETENTION}
           f == [r \in kept |-> d.replies[r]]
           e == PurgeReplies(d, t)
<1>0. IsDatabase(d)
  BY DEF Clean, Sound
<1>1. f \in [kept -> ReplyRow] /\ kept \in SUBSET Requests
  BY <1>0 DEF IsDatabase
<1>2. e = [d EXCEPT !.replies = f]
  BY DEF PurgeReplies
<1>3. /\ DOMAIN f \subseteq DOMAIN d.replies
      /\ \A r \in DOMAIN f : f[r] = d.replies[r]
      /\ \A r \in DOMAIN d.replies \ DOMAIN f : ~(d.replies[r].at >= t - RECEIPT_RETENTION)
  OBVIOUS
<1> HIDE DEF kept, f, e
<1>4. IsDatabase(e) /\ e.replies = f /\ SameExceptReplies(d, e)
  BY <1>0, <1>1, <1>2, SetReplies
<1> USE DEF SameExceptReplies, SameAdmission
<1>5. Sound(e)
  BY <1>4 DEF Clean, Sound, LeasedAreHeads, Pending, Active, ReferencesExist, Referenced,
              QueuesBounded, WithinConversation, IdsFresh
<1>6. Open(e)
  BY <1>4 DEF Clean, Open, OpenAreAdmitted, Admitted, Member, Granted, PendingAreOpen, Active
<1>7. AnswersRecorded(e, t)
  <2> SUFFICES ASSUME NEW x \in DOMAIN d.msgs, NEW r, r = d.msgs[x].req, r # NoKey
               PROVE  /\ r[2] \in DOMAIN d.msgs => d.msgs[r[2]].conv = d.msgs[x].conv
                      /\ r[2] < x
                      /\ r \in DOMAIN f \/ d.msgs[x].expires <= t
                      /\ r \in DOMAIN f => d.msgs[x].expires <= f[r].at + MESSAGE_TTL
    BY <1>4 DEF AnswersRecorded
  <2>1. /\ r[2] \in DOMAIN d.msgs => d.msgs[r[2]].conv = d.msgs[x].conv
        /\ r[2] < x
        /\ r \in DOMAIN d.replies \/ d.msgs[x].expires <= t
        /\ r \in DOMAIN d.replies => d.msgs[x].expires <= d.replies[r].at + MESSAGE_TTL
    BY DEF Clean, Timed, AnswersRecorded
  <2>2. CASE r \in DOMAIN d.replies \ DOMAIN f
    <3>1. ~(d.replies[r].at >= t - RECEIPT_RETENTION)
      BY <2>2, <1>3
    <3>2. d.replies[r].at \in Nat /\ d.msgs[x].expires \in Nat
      BY <2>2, <1>0 DEF IsDatabase, ReplyRow, Message
    <3> QED BY <2>1, <2>2, <3>1, <3>2, BusAssumption
  <2> QED BY <2>1, <2>2, <1>3
<1>8. Timed(e, t)
  BY <1>4, <1>7 DEF Clean, Timed, ConversationsDated, RequestsAnsweredOnce
<1>9. Follows(d, e)
  BY <1>4 DEF Follows, SameRow
<1> QED BY <1>4, <1>5, <1>6, <1>8, <1>9 DEF e, Clean

\* Conversations that still hold mail stay, so mail never loses its conversation.
LEMMA PurgeConversationsKeeps ==
    ASSUME NEW d, NEW t \in Nat, Clean(d, t)
    PROVE  LET e == PurgeConversations(d, t) IN Clean(e, t) /\ Follows(d, e) /\ SameAdmission(d, e)
<1> DEFINE kept == {x \in DOMAIN d.convs : x \in {d.msgs[m].conv : m \in DOMAIN d.msgs}
                                           \/ d.convs[x].expires >= t - RECEIPT_RETENTION}
           f == [c \in kept |-> d.convs[c]]
           e == PurgeConversations(d, t)
<1>0. IsDatabase(d)
  BY DEF Clean, Sound
<1>1. f \in [kept -> Conversation] /\ kept \in SUBSET Ids
  BY <1>0 DEF IsDatabase
<1>2. e = [d EXCEPT !.convs = f]
  BY DEF PurgeConversations
<1>3. /\ DOMAIN f \subseteq DOMAIN d.convs
      /\ \A c \in DOMAIN f : f[c] = d.convs[c]
      /\ \A m \in DOMAIN d.msgs : d.msgs[m].conv \in DOMAIN d.convs => d.msgs[m].conv \in DOMAIN f
  OBVIOUS
<1> HIDE DEF kept, f, e
<1>4. IsDatabase(e) /\ e.convs = f /\ SameExceptConvs(d, e)
  BY <1>0, <1>1, <1>2, SetConvs
<1> USE DEF SameExceptConvs, SameAdmission
<1>5. ReferencesExist(e)
  BY <1>3, <1>4 DEF Clean, Sound, ReferencesExist, Referenced
<1>6. WithinConversation(e)
  BY <1>3, <1>4 DEF Clean, Sound, WithinConversation
<1>7. Sound(e)
  BY <1>3, <1>4, <1>5, <1>6
     DEF Clean, Sound, LeasedAreHeads, Pending, Active, QueuesBounded, IdsFresh
<1>8. Open(e)
  <2>1. \A c \in DOMAIN f : Admitted(d, c) => Admitted(e, c)
    BY <1>3, <1>4 DEF Admitted, Member, Granted
  <2>2. OpenAreAdmitted(e)
    BY <2>1, <1>3, <1>4 DEF Clean, Open, OpenAreAdmitted
  <2>3. PendingAreOpen(e)
    BY <1>3, <1>4 DEF Clean, Open, PendingAreOpen, Active
  <2> QED BY <2>2, <2>3 DEF Open
<1>9. Timed(e, t)
  BY <1>3, <1>4 DEF Clean, Timed, AnswersRecorded, ConversationsDated, RequestsAnsweredOnce
<1>10. Follows(d, e)
  BY <1>4 DEF Follows, SameRow
<1> QED BY <1>4, <1>7, <1>8, <1>9, <1>10 DEF e, Clean

LEMMA PurgeAgentsKeeps ==
    ASSUME NEW d, NEW t \in Nat, Clean(d, t)
    PROVE  LET e == PurgeAgents(d, t) IN Clean(e, t) /\ Follows(d, e) /\ SameAdmission(d, e)
<1> DEFINE kept == {x \in DOMAIN d.agents : x \in Referenced(d)
                                            \/ d.agents[x] >= t - RECEIPT_RETENTION}
           f == [a \in kept |-> d.agents[a]]
           e == PurgeAgents(d, t)
<1>0. IsDatabase(d)
  BY DEF Clean, Sound
<1>1. f \in [kept -> Nat] /\ kept \in SUBSET Agents
  BY <1>0 DEF IsDatabase
<1>2. e = [d EXCEPT !.agents = f]
  BY DEF PurgeAgents
<1>3. \A a \in Referenced(d) : a \in DOMAIN d.agents => a \in DOMAIN f
  OBVIOUS
<1> HIDE DEF kept, f, e
<1>4. IsDatabase(e) /\ e.agents = f /\ SameExceptAgents(d, e)
  BY <1>0, <1>1, <1>2, SetAgents
<1> USE DEF SameExceptAgents, SameAdmission
<1>5. Referenced(e) = Referenced(d)
  BY <1>4 DEF Referenced
<1>6. ReferencesExist(e)
  BY <1>3, <1>4, <1>5 DEF Clean, Sound, ReferencesExist
<1>7. Sound(e)
  BY <1>4, <1>6 DEF Clean, Sound, LeasedAreHeads, Pending, Active, QueuesBounded,
                    WithinConversation, IdsFresh
<1>8. Open(e)
  <2>1. \A c \in DOMAIN d.convs : d.convs[c].initiator \in Referenced(d)
                                  /\ d.convs[c].published \in Referenced(d)
    BY DEF Referenced
  <2>2. \A c \in DOMAIN d.convs : Admitted(d, c) => Admitted(e, c)
    BY <2>1, <1>3, <1>4 DEF Admitted, Member, Granted
  <2>3. OpenAreAdmitted(e)
    BY <2>2, <1>4 DEF Clean, Open, OpenAreAdmitted
  <2>4. PendingAreOpen(e)
    BY <1>4 DEF Clean, Open, PendingAreOpen, Active
  <2> QED BY <2>3, <2>4 DEF Open
<1>9. Timed(e, t)
  BY <1>4 DEF Clean, Timed, AnswersRecorded, ConversationsDated, RequestsAnsweredOnce
<1>10. Follows(d, e)
  BY <1>4 DEF Follows, SameRow
<1> QED BY <1>4, <1>7, <1>8, <1>9, <1>10 DEF e, Clean

LEMMA DrainKeepsClean ==
    ASSUME NEW d, NEW e, NEW t, Clean(d, t), IsDatabase(e), Drains(d, e)
    PROVE  Clean(e, t) /\ Follows(d, e) /\ SameAdmission(d, e)
<1>1. Clean(e, t)
  BY DrainKeepsSound, DrainKeepsOpen, DrainKeepsTimed DEF Clean
<1> QED BY <1>1 DEF Drains, Follows, SameExceptMsgs

LEMMA FollowsTransitive ==
    ASSUME NEW d, NEW e, NEW g, Follows(d, e), Follows(e, g),
           SameAdmission(d, e), SameAdmission(e, g)
    PROVE  Follows(d, g) /\ SameAdmission(d, g)
BY DEF Follows, SameRow, SameAdmission

LEMMA ExpireKeepsClean ==
    ASSUME NEW d, NEW t \in Nat, Clean(d, t)
    PROVE  LET e == Expire(d, t) IN Clean(e, t) /\ Follows(d, e) /\ SameAdmission(d, e)
<1> DEFINE d1 == PurgeReplies(d, t)
           d2 == ExpireMessages(d1, t)
           d3 == PurgeMessages(d2, t)
           d4 == PurgeConversations(d3, t)
           d5 == PurgeAgents(d4, t)
<1>0. Expire(d, t) = d5
  BY DEF Expire
<1> HIDE DEF d1, d2, d3, d4, d5
<1>1. Clean(d1, t) /\ Follows(d, d1) /\ SameAdmission(d, d1)
  BY PurgeRepliesKeeps DEF d1
<1>2. Clean(d2, t) /\ Follows(d1, d2) /\ SameAdmission(d1, d2)
  <2>1. IsDatabase(d2) /\ Drains(d1, d2)
    BY <1>1, ExpireMessagesDrains DEF d2, Clean, Sound
  <2> QED BY <1>1, <2>1, DrainKeepsClean
<1>3. Clean(d3, t) /\ Follows(d2, d3) /\ SameAdmission(d2, d3)
  <2>1. IsDatabase(d3) /\ Drains(d2, d3)
    BY <1>2, PurgeMessagesDrains DEF d3, Clean, Sound
  <2> QED BY <1>2, <2>1, DrainKeepsClean
<1>4. Clean(d4, t) /\ Follows(d3, d4) /\ SameAdmission(d3, d4)
  BY <1>3, PurgeConversationsKeeps DEF d4
<1>5. Clean(d5, t) /\ Follows(d4, d5) /\ SameAdmission(d4, d5)
  BY <1>4, PurgeAgentsKeeps DEF d5
<1>6. Follows(d, d2) /\ SameAdmission(d, d2)
  BY <1>1, <1>2, FollowsTransitive
<1>7. Follows(d, d3) /\ SameAdmission(d, d3)
  BY <1>6, <1>3, FollowsTransitive
<1>8. Follows(d, d4) /\ SameAdmission(d, d4)
  BY <1>7, <1>4, FollowsTransitive
<1>9. Follows(d, d5) /\ SameAdmission(d, d5)
  BY <1>8, <1>5, FollowsTransitive
<1> QED BY <1>0, <1>5, <1>9

-----------------------------------------------------------------------------
(* Withdrawals and _cancel_invalid. *)

\* Publications are deleted and conversations closed, nothing more.
Narrows(d, e) ==
    /\ e.agents = d.agents /\ e.msgs = d.msgs /\ e.replies = d.replies /\ e.next = d.next
    /\ e.members \subseteq d.members
    /\ DOMAIN e.convs = DOMAIN d.convs
    /\ \A c \in DOMAIN d.convs :
          /\ e.convs[c].initiator = d.convs[c].initiator
          /\ e.convs[c].published = d.convs[c].published
          /\ e.convs[c].bus = d.convs[c].bus
          /\ e.convs[c].expires = d.convs[c].expires

LEMMA NarrowKeeps ==
    ASSUME NEW d, NEW e, NEW t, Sound(d), Timed(d, t), IsDatabase(e), Narrows(d, e)
    PROVE  Sound(e) /\ Timed(e, t) /\ Follows(d, e)
<1> USE DEF Narrows
<1>1. ReferencesExist(e)
  BY DEF Sound, ReferencesExist, Referenced
<1>2. WithinConversation(e)
  <2> SUFFICES ASSUME NEW m \in DOMAIN d.msgs, NEW c \in DOMAIN d.convs, c = d.msgs[m].conv
               PROVE  /\ {d.msgs[m].sender, d.msgs[m].target}
                            = {e.convs[c].initiator, e.convs[c].published}
                      /\ d.msgs[m].bus = e.convs[c].bus
                      /\ d.msgs[m].expires = e.convs[c].expires
    BY SMTT(30) DEF WithinConversation
  <2> QED BY DEF Sound, WithinConversation
<1>3. Sound(e)
  BY <1>1, <1>2 DEF Sound, LeasedAreHeads, Pending, Active, QueuesBounded, IdsFresh
<1>4. Timed(e, t)
  BY DEF Timed, AnswersRecorded, ConversationsDated, RequestsAnsweredOnce
<1> QED BY <1>3, <1>4 DEF Follows, SameRow

LEMMA CloseInvalidNarrows ==
    ASSUME NEW d, IsDatabase(d), NEW t \in Nat
    PROVE  LET e == CloseInvalid(d, t) IN
           /\ IsDatabase(e) /\ Narrows(d, e) /\ SameAdmission(d, e)
           /\ \A c \in DOMAIN e.convs : ~e.convs[c].closed => Admitted(e, c)
<1> DEFINE f == [c \in DOMAIN d.convs |->
                    IF ConversationValid(d, c, t) THEN d.convs[c]
                    ELSE [d.convs[c] EXCEPT !.closed = TRUE]]
           e == CloseInvalid(d, t)
<1>1. f \in [DOMAIN d.convs -> Conversation] /\ DOMAIN d.convs \in SUBSET Ids
  BY DEF IsDatabase, Conversation
<1>2. e = [d EXCEPT !.convs = f]
  BY DEF CloseInvalid
<1> HIDE DEF f, e
<1>3. IsDatabase(e) /\ e.convs = f /\ SameExceptConvs(d, e)
  BY <1>1, <1>2, SetConvs
<1>4. DOMAIN e.convs = DOMAIN d.convs
  BY <1>3 DEF f
<1>5. ASSUME NEW c \in DOMAIN d.convs
      PROVE  /\ e.convs[c].initiator = d.convs[c].initiator
             /\ e.convs[c].published = d.convs[c].published
             /\ e.convs[c].bus = d.convs[c].bus
             /\ e.convs[c].expires = d.convs[c].expires
             /\ ~e.convs[c].closed => ConversationValid(d, c, t)
  <2>1. d.convs[c] \in Conversation
    BY DEF IsDatabase
  <2> QED BY <2>1, <1>3 DEF f, Conversation
<1>6. \A c \in DOMAIN d.convs : Admitted(d, c) => Admitted(e, c)
  BY <1>3, <1>5 DEF Admitted, Member, Granted, SameExceptConvs, SameAdmission
<1>7. \A c \in DOMAIN e.convs : ~e.convs[c].closed => Admitted(e, c)
  BY <1>4, <1>5, <1>6 DEF ConversationValid
<1>8. Narrows(d, e) /\ SameAdmission(d, e)
  BY <1>3, <1>4, <1>5 DEF Narrows, SameExceptConvs, SameAdmission
<1> QED BY <1>3, <1>7, <1>8 DEF e

\* _cancel_invalid restores Open after any withdrawal.
LEMMA CancelInvalidCleans ==
    ASSUME NEW d, NEW t \in Nat, Sound(d), Timed(d, t)
    PROVE  LET e == CancelInvalid(d, t) IN
           /\ Clean(e, t) /\ Follows(d, e) /\ SameAdmission(d, e)
           /\ e.agents = d.agents /\ e.replies = d.replies
<1> DEFINE c1 == CloseInvalid(d, t)
           e == CancelPending(c1, t)
<1>0. CancelInvalid(d, t) = e
  BY DEF CancelInvalid
<1> HIDE DEF c1, e
<1>1. /\ IsDatabase(c1) /\ Narrows(d, c1) /\ SameAdmission(d, c1)
      /\ \A c \in DOMAIN c1.convs : ~c1.convs[c].closed => Admitted(c1, c)
  BY CloseInvalidNarrows DEF c1, Sound
<1>2. Sound(c1) /\ Timed(c1, t) /\ Follows(d, c1)
  BY <1>1, NarrowKeeps
<1>3. /\ IsDatabase(e) /\ Drains(c1, e)
      /\ \A m \in DOMAIN e.msgs : Active(e, m) => ConversationValid(c1, c1.msgs[m].conv, t)
  BY <1>1, CancelPendingDrains DEF e
<1>4. Sound(e) /\ Timed(e, t)
  BY <1>2, <1>3, DrainKeepsSound, DrainKeepsTimed
<1>5. OpenAreAdmitted(e)
  BY <1>1, <1>3 DEF OpenAreAdmitted, Admitted, Member, Granted, Drains, SameExceptMsgs, SameAdmission
<1>6. PendingAreOpen(e)
  BY <1>3 DEF PendingAreOpen, ConversationValid, Drains, SameExceptMsgs, SameRow
<1>7. Follows(d, e) /\ SameAdmission(d, e)
  <2>1. Follows(c1, e) /\ SameAdmission(c1, e)
    BY <1>3 DEF Drains, Follows, SameExceptMsgs
  <2> QED BY <1>1, <1>2, <2>1, FollowsTransitive
<1>8. e.agents = d.agents /\ e.replies = d.replies
  BY <1>1, <1>3 DEF Narrows, Drains, SameExceptMsgs
<1> QED BY <1>0, <1>4, <1>5, <1>6, <1>7, <1>8 DEF Clean, Open

\* The two together, as most requests begin.
LEMMA ExpireThenCancelCleans ==
    ASSUME NEW d, NEW t \in Nat, Clean(d, t)
    PROVE  LET d1 == Expire(d, t)
               d2 == CancelInvalid(d1, t) IN
           /\ Clean(d1, t) /\ Follows(d, d1) /\ SameAdmission(d, d1)
           /\ Clean(d2, t) /\ Follows(d, d2) /\ Follows(d1, d2) /\ SameAdmission(d1, d2)
           /\ d2.agents = d1.agents /\ d2.replies = d1.replies
<1> DEFINE d1 == Expire(d, t)
           d2 == CancelInvalid(d1, t)
<1> HIDE DEF d1, d2
<1>1. Clean(d1, t) /\ Follows(d, d1) /\ SameAdmission(d, d1)
  BY ExpireKeepsClean DEF d1
<1>2. /\ Clean(d2, t) /\ Follows(d1, d2) /\ SameAdmission(d1, d2)
      /\ d2.agents = d1.agents /\ d2.replies = d1.replies
  BY <1>1, CancelInvalidCleans DEF d2, Clean
<1> QED BY <1>1, <1>2, FollowsTransitive DEF d1, d2

LEMMA UnpublishNarrows ==
    ASSUME NEW d, IsDatabase(d), NEW a, NEW b
    PROVE  IsDatabase(Unpublish(d, a, b)) /\ Narrows(d, Unpublish(d, a, b))
<1> DEFINE f == [c \in DOMAIN d.convs |->
                    IF d.convs[c].bus = b /\ a \in {d.convs[c].initiator, d.convs[c].published}
                    THEN [d.convs[c] EXCEPT !.closed = TRUE] ELSE d.convs[c]]
           e == Unpublish(d, a, b)
<1>1. f \in [DOMAIN d.convs -> Conversation]
  BY DEF IsDatabase, Conversation
<1>2. e = [d EXCEPT !.members = @ \ {<<a, b>>}, !.convs = f]
  BY DEF Unpublish
<1>3. DOMAIN f = DOMAIN d.convs
  OBVIOUS
<1>4. ASSUME NEW c \in DOMAIN d.convs
      PROVE  /\ f[c].initiator = d.convs[c].initiator
             /\ f[c].published = d.convs[c].published
             /\ f[c].bus = d.convs[c].bus /\ f[c].expires = d.convs[c].expires
  <2>1. d.convs[c] \in Conversation
    BY DEF IsDatabase
  <2> QED BY <2>1 DEF Conversation
<1> HIDE DEF f, e
<1>5. e = [principals |-> d.principals, revoked |-> d.revoked, grants |-> d.grants,
           agents |-> d.agents, members |-> d.members \ {<<a, b>>}, msgs |-> d.msgs,
           convs |-> f, replies |-> d.replies, next |-> d.next]
  BY <1>2 DEF IsDatabase
<1>6. IsDatabase(e)
  BY <1>1, <1>3, <1>5 DEF IsDatabase
<1>7. Narrows(d, e)
  BY <1>3, <1>4, <1>5 DEF Narrows
<1> QED BY <1>6, <1>7 DEF e

-----------------------------------------------------------------------------
(* Admissions: what only adds rows to the admission tables. *)

Widens(d, e) ==
    /\ e.msgs = d.msgs /\ e.convs = d.convs /\ e.replies = d.replies /\ e.next = d.next
    /\ e.revoked = d.revoked
    /\ d.principals \subseteq e.principals /\ d.grants \subseteq e.grants
    /\ d.members \subseteq e.members
    /\ DOMAIN d.agents \subseteq DOMAIN e.agents
    /\ \A x \in e.members : x \in d.members \/ x[1] \in DOMAIN e.agents

LEMMA WidenKeepsClean ==
    ASSUME NEW d, NEW e, NEW t, Clean(d, t), IsDatabase(e), Widens(d, e)
    PROVE  Clean(e, t)
<1> USE DEF Widens
<1>1. ReferencesExist(e)
  BY DEF Clean, Sound, ReferencesExist, Referenced
<1>2. Sound(e)
  BY <1>1 DEF Clean, Sound, LeasedAreHeads, Pending, Active, QueuesBounded,
              WithinConversation, IdsFresh
<1>3. Open(e)
  <2>1. \A c \in DOMAIN d.convs : Admitted(d, c) => Admitted(e, c)
    BY DEF Admitted, Member, Granted
  <2> QED BY <2>1 DEF Clean, Open, OpenAreAdmitted, PendingAreOpen, Active
<1>4. Timed(e, t)
  BY DEF Clean, Timed, AnswersRecorded, ConversationsDated, RequestsAnsweredOnce
<1> QED BY <1>2, <1>3, <1>4 DEF Clean

LEMMA TouchWidens ==
    ASSUME NEW d, IsDatabase(d), NEW A \in SUBSET Agents, NEW t \in Nat
    PROVE  LET e == Touch(d, A, t) IN
           /\ IsDatabase(e) /\ Widens(d, e) /\ A \subseteq DOMAIN e.agents
           /\ SameAdmission(d, e)
<1> DEFINE f == [a \in DOMAIN d.agents \cup A |-> IF a \in A THEN t ELSE d.agents[a]]
           e == Touch(d, A, t)
<1>1. f \in [DOMAIN d.agents \cup A -> Nat] /\ DOMAIN d.agents \cup A \in SUBSET Agents
  BY DEF IsDatabase
<1>2. e = [d EXCEPT !.agents = f]
  BY DEF Touch
<1>3. DOMAIN f = DOMAIN d.agents \cup A
  OBVIOUS
<1> HIDE DEF f, e
<1>4. IsDatabase(e) /\ e.agents = f /\ SameExceptAgents(d, e)
  BY <1>1, <1>2, SetAgents
<1> QED BY <1>3, <1>4 DEF Widens, SameExceptAgents, SameAdmission, e

-----------------------------------------------------------------------------
(* The queue grows: Send and Reply. *)

\* What Enqueue relies on.  Send has already opened the conversation that will
\* share the next id, so only the messages are older than d.next.
Enqueueable(d) ==
    /\ IsDatabase(d) /\ LeasedAreHeads(d) /\ ReferencesExist(d)
    /\ QueuesBounded(d) /\ WithinConversation(d)
    /\ \A m \in DOMAIN d.msgs : m < d.next
    /\ \A c \in DOMAIN d.convs : c <= d.next
    /\ d.next \in Ids

\* A row that may join the queue of d.
Fits(d, row) ==
    /\ row \in Message /\ row.status = "accepted"
    /\ row.conv \in DOMAIN d.convs
    /\ row.sender \in DOMAIN d.agents /\ row.target \in DOMAIN d.agents
    /\ {row.sender, row.target} = {d.convs[row.conv].initiator, d.convs[row.conv].published}
    /\ row.bus = d.convs[row.conv].bus /\ row.expires = d.convs[row.conv].expires
    /\ HasRoom(d, row.target)

\* e is d with row appended to its messages.
Appended(d, e, row) ==
    /\ SameAdmission(d, e) /\ e.agents = d.agents /\ e.convs = d.convs
    /\ e.replies = d.replies /\ e.next = d.next + 1
    /\ DOMAIN e.msgs = DOMAIN d.msgs \cup {d.next}
    /\ e.msgs[d.next] = row
    /\ \A m \in DOMAIN d.msgs : e.msgs[m] = d.msgs[m]

LEMMA EnqueueAppends ==
    ASSUME NEW d, NEW row, Enqueueable(d), Fits(d, row)
    PROVE  IsDatabase(Enqueue(d, row)) /\ Appended(d, Enqueue(d, row), row)
<1> DEFINE f == [m \in DOMAIN d.msgs \cup {d.next} |-> IF m = d.next THEN row ELSE d.msgs[m]]
           e == Enqueue(d, row)
<1>1. f \in [DOMAIN d.msgs \cup {d.next} -> Message]
  BY DEF Enqueueable, Fits, IsDatabase
<1>2. e = [d EXCEPT !.msgs = f, !.next = d.next + 1]
  BY DEF Enqueue
<1>3. /\ DOMAIN f = DOMAIN d.msgs \cup {d.next}
      /\ f[d.next] = row
      /\ \A m \in DOMAIN d.msgs : m < d.next => f[m] = d.msgs[m]
  BY DEF Enqueueable, IsDatabase, Ids
<1> HIDE DEF f, e
<1>4. e = [principals |-> d.principals, revoked |-> d.revoked, grants |-> d.grants,
           agents |-> d.agents, members |-> d.members, msgs |-> f,
           convs |-> d.convs, replies |-> d.replies, next |-> d.next + 1]
  BY <1>2 DEF Enqueueable, IsDatabase
<1>5. d.next \in 1..MaxId /\ d.next + 1 \in 1..(MaxId + 1) /\ MaxId \in Nat
  BY BusAssumption DEF Enqueueable, Ids
<1>6. IsDatabase(e)
  BY <1>1, <1>3, <1>4, <1>5 DEF Enqueueable, IsDatabase, Ids
<1>7. Appended(d, e, row)
  BY <1>3, <1>4 DEF Appended, SameAdmission, Enqueueable
<1> QED BY <1>6, <1>7 DEF e

LEMMA AppendKeepsSound ==
    ASSUME NEW d, NEW e, NEW row, Enqueueable(d), Fits(d, row), IsDatabase(e),
           Appended(d, e, row)
    PROVE  Sound(e)
<1> USE DEF Appended
<1>0. DOMAIN d.msgs \subseteq Ids /\ d.next \in Ids /\ Ids \subseteq Nat
  BY DEF Enqueueable, IsDatabase, Ids
<1>1. \A a : Pending(e, a) = IF a = row.target THEN Pending(d, a) \cup {d.next} ELSE Pending(d, a)
  <2>1. d.next \notin DOMAIN d.msgs
    BY <1>0 DEF Enqueueable, Ids
  <2> QED BY <2>1 DEF Pending, Active, ACTIVE, Fits
<1>2. LeasedAreHeads(e)
  <2> SUFFICES ASSUME NEW m \in DOMAIN e.msgs, e.msgs[m].status = "leased",
                      NEW x \in Pending(e, e.msgs[m].target)
               PROVE  m <= x
    BY DEF LeasedAreHeads
  <2>1. m \in DOMAIN d.msgs /\ e.msgs[m] = d.msgs[m]
    BY DEF Fits
  <2>2. CASE x = d.next
    BY <2>1, <2>2, <1>0 DEF Enqueueable, Ids
  <2>3. CASE x \in Pending(d, d.msgs[m].target)
    BY <2>1, <2>3 DEF Enqueueable, LeasedAreHeads
  <2> QED BY <2>1, <2>2, <2>3, <1>1
<1>3. ReferencesExist(e)
  <2>1. \A m \in DOMAIN e.msgs : e.msgs[m].conv \in DOMAIN e.convs
    BY DEF Enqueueable, Fits, ReferencesExist
  <2>2. Referenced(e) = Referenced(d) \cup {row.sender, row.target}
    BY DEF Referenced, SameAdmission
  <2> QED BY <2>1, <2>2 DEF Enqueueable, Fits, ReferencesExist
<1>4. QueuesBounded(e)
  <2> SUFFICES ASSUME NEW a \in Agents PROVE Cardinality(Pending(e, a)) <= MAX_PENDING
    BY DEF QueuesBounded
  <2>1. IsFiniteSet(Pending(d, a)) /\ Cardinality(Pending(d, a)) \in Nat
    BY PendingFinite DEF Enqueueable
  <2>2. Cardinality(Pending(d, a)) <= MAX_PENDING
    BY DEF Enqueueable, QueuesBounded
  <2>3. CASE a = row.target
    <3>1. Pending(e, a) = Pending(d, a) \cup {d.next}
      BY <1>1, <2>3
    <3>2. d.next \notin Pending(d, a)
      BY <1>0 DEF Pending, Enqueueable, Ids
    <3>3. Cardinality(Pending(e, a)) = Cardinality(Pending(d, a)) + 1
      BY <2>1, <3>1, <3>2, FS_AddElement
    <3>4. Cardinality(Pending(d, a)) < MAX_PENDING
      BY <2>3 DEF Fits, HasRoom
    <3> QED BY <2>1, <3>3, <3>4, BusAssumption
  <2>4. CASE a # row.target
    BY <1>1, <2>2, <2>4
  <2> QED BY <2>3, <2>4
<1>5. WithinConversation(e)
  <2> SUFFICES ASSUME NEW m \in DOMAIN e.msgs, NEW c \in DOMAIN d.convs, c = e.msgs[m].conv
               PROVE  /\ {e.msgs[m].sender, e.msgs[m].target}
                            = {d.convs[c].initiator, d.convs[c].published}
                      /\ e.msgs[m].bus = d.convs[c].bus
                      /\ e.msgs[m].expires = d.convs[c].expires
    BY DEF WithinConversation
  <2>1. CASE m = d.next
    BY <2>1 DEF Fits
  <2>2. CASE m \in DOMAIN d.msgs
    <3>1. e.msgs[m] = d.msgs[m] /\ d.msgs[m].conv \in DOMAIN d.convs
      BY <2>2
    <3> QED BY <3>1, <2>2 DEF Enqueueable, WithinConversation
  <2> QED BY <2>1, <2>2
<1>6. IdsFresh(e)
  <2>1. \A c \in DOMAIN d.convs : c <= d.next /\ c \in Nat
    BY <1>0 DEF Enqueueable, IsDatabase, Ids
  <2> QED BY <1>0, <2>1 DEF IdsFresh, Enqueueable, Ids
<1> QED BY <1>2, <1>3, <1>4, <1>5, <1>6 DEF Sound

LEMMA AppendKeepsOpen ==
    ASSUME NEW d, NEW e, NEW row, Open(d), Fits(d, row), ~d.convs[row.conv].closed,
           Appended(d, e, row)
    PROVE  Open(e)
<1> USE DEF Appended
<1>1. OpenAreAdmitted(e)
  BY DEF Open, OpenAreAdmitted, Admitted, Member, Granted, SameAdmission
<1>2. PendingAreOpen(e)
  <2> SUFFICES ASSUME NEW m \in DOMAIN e.msgs, Active(e, m)
               PROVE  e.msgs[m].conv \in DOMAIN e.convs /\ ~e.convs[e.msgs[m].conv].closed
    BY DEF PendingAreOpen
  <2>1. CASE m = d.next
    BY <2>1 DEF Fits
  <2>2. CASE m \in DOMAIN d.msgs
    BY <2>2 DEF Open, PendingAreOpen, Active
  <2> QED BY <2>1, <2>2
<1> QED BY <1>1, <1>2 DEF Open

\* The conversation of a send, about to receive its first message.
LEMMA OpenConversationKeeps ==
    ASSUME NEW d, NEW t \in Nat, Clean(d, t), d.next \in Ids,
           NEW a \in Agents, NEW p \in Agents, NEW b \in Buses,
           Member(d, p, b), a \in DOMAIN d.agents,
           IF b # General THEN Member(d, a, b) ELSE Granted(d, Owner[a], b)
    PROVE  LET e == OpenConversation(d, a, p, b, t) IN
           /\ Enqueueable(e) /\ Open(e) /\ Timed(e, t)
           /\ SameExceptConvs(d, e) /\ d.next \in DOMAIN e.convs
           /\ e.convs[d.next] = [initiator |-> a, published |-> p, bus |-> b,
                                 expires |-> t + MESSAGE_TTL, closed |-> FALSE]
<1> DEFINE conv == [initiator |-> a, published |-> p, bus |-> b,
                    expires |-> t + MESSAGE_TTL, closed |-> FALSE]
           f == [c \in DOMAIN d.convs \cup {d.next} |-> IF c = d.next THEN conv ELSE d.convs[c]]
           e == OpenConversation(d, a, p, b, t)
<1>0. IsDatabase(d) /\ MESSAGE_TTL \in Nat
  BY BusAssumption DEF Clean, Sound
<1>1. conv \in Conversation
  BY <1>0 DEF Conversation
<1>2. f \in [DOMAIN d.convs \cup {d.next} -> Conversation] /\ DOMAIN d.convs \cup {d.next} \in SUBSET Ids
  <2> HIDE DEF conv
  <2> QED BY <1>0, <1>1 DEF IsDatabase
<1>3. e = [d EXCEPT !.convs = f]
  BY DEF OpenConversation
<1>4. /\ DOMAIN f = DOMAIN d.convs \cup {d.next}
      /\ f[d.next] = conv
      /\ \A c \in DOMAIN d.convs : c # d.next => f[c] = d.convs[c]
  OBVIOUS
<1>5. \A c \in DOMAIN d.convs : c < d.next /\ c # d.next
  BY <1>0 DEF Clean, Sound, IdsFresh, IsDatabase, Ids
<1> HIDE DEF f, e
<1>6. IsDatabase(e) /\ e.convs = f /\ SameExceptConvs(d, e)
  BY <1>0, <1>2, <1>3, SetConvs
<1> USE DEF SameExceptConvs, SameAdmission
<1>7. conv.initiator = a /\ conv.published = p /\ conv.bus = b
      /\ conv.expires = t + MESSAGE_TTL /\ conv.closed = FALSE
  OBVIOUS
<1> HIDE DEF conv
<1>8. ReferencesExist(e)
  <2>1. \A m \in DOMAIN e.msgs : e.msgs[m].conv \in DOMAIN e.convs
    BY <1>4, <1>6 DEF Clean, Sound, ReferencesExist
  <2>2. Referenced(e) = Referenced(d) \cup {a, p}
    BY <1>4, <1>5, <1>6, <1>7 DEF Referenced
  <2> QED BY <1>6, <2>1, <2>2 DEF Clean, Sound, ReferencesExist, Member
<1>9. WithinConversation(e)
  <2>1. \A m \in DOMAIN d.msgs : d.msgs[m].conv \in DOMAIN d.convs
                                 /\ e.convs[d.msgs[m].conv] = d.convs[d.msgs[m].conv]
    BY <1>4, <1>5, <1>6 DEF Clean, Sound, ReferencesExist
  <2> QED BY <1>6, <2>1 DEF Clean, Sound, WithinConversation
<1>10. Enqueueable(e)
  <2>1. LeasedAreHeads(e) /\ QueuesBounded(e)
    BY <1>6 DEF Clean, Sound, LeasedAreHeads, QueuesBounded, Pending, Active
  <2>2. \A c \in DOMAIN e.convs : c <= e.next
    BY <1>4, <1>5, <1>6 DEF Ids, IsDatabase
  <2>3. (\A m \in DOMAIN e.msgs : m < e.next) /\ e.next \in Ids
    BY <1>6 DEF Clean, Sound, IdsFresh
  <2> QED BY <1>6, <1>8, <1>9, <2>1, <2>2, <2>3 DEF Enqueueable
<1>11. Open(e)
  <2>1. OpenAreAdmitted(e)
    <3> SUFFICES ASSUME NEW c \in DOMAIN f, ~f[c].closed PROVE Admitted(e, c)
      BY <1>6 DEF OpenAreAdmitted
    <3>1. CASE c = d.next
      BY <3>1, <1>4, <1>6, <1>7 DEF Admitted, Member, Granted
    <3>2. CASE c \in DOMAIN d.convs
      <4>1. Admitted(d, c) /\ f[c] = d.convs[c]
        BY <3>2, <1>4, <1>5 DEF Clean, Open, OpenAreAdmitted
      <4> QED BY <4>1, <1>6 DEF Admitted, Member, Granted
    <3> QED BY <3>1, <3>2, <1>4
  <2>2. PendingAreOpen(e)
    BY <1>4, <1>5, <1>6 DEF Clean, Open, PendingAreOpen, Active
  <2> QED BY <2>1, <2>2 DEF Open
<1>12. Timed(e, t)
  <2>1. ConversationsDated(e, t)
    <3> SUFFICES ASSUME NEW c \in DOMAIN f PROVE f[c].expires <= t + MESSAGE_TTL
      BY <1>6 DEF ConversationsDated
    <3>1. CASE c = d.next
      BY <3>1, <1>0, <1>4, <1>7
    <3>2. CASE c \in DOMAIN d.convs
      BY <3>2, <1>4, <1>5 DEF Clean, Timed, ConversationsDated
    <3> QED BY <3>1, <3>2, <1>4
  <2> QED BY <2>1, <1>6 DEF Clean, Timed, AnswersRecorded, RequestsAnsweredOnce
<1> QED BY <1>4, <1>6, <1>10, <1>11, <1>12 DEF e, conv

\* A message that answers no request leaves the record of answers alone.
LEMMA AppendKeepsTimed ==
    ASSUME NEW d, NEW e, NEW row, NEW t, Enqueueable(d), Timed(d, t), row.req = NoKey,
           Appended(d, e, row)
    PROVE  Timed(e, t)
<1> USE DEF Appended
<1>0. d.next \notin DOMAIN d.msgs /\ d.next \in Nat /\ DOMAIN d.msgs \subseteq Nat
  BY DEF Enqueueable, IsDatabase, Ids
<1>1. AnswersRecorded(e, t)
  <2> SUFFICES ASSUME NEW x \in DOMAIN d.msgs, NEW r, r = d.msgs[x].req, r # NoKey
               PROVE  /\ r[2] \in DOMAIN e.msgs => e.msgs[r[2]].conv = e.msgs[x].conv
                      /\ r[2] < x
                      /\ r \in DOMAIN e.replies \/ e.msgs[x].expires <= t
                      /\ r \in DOMAIN e.replies => e.msgs[x].expires <= e.replies[r].at + MESSAGE_TTL
    BY DEF AnswersRecorded
  <2>1. /\ r[2] \in DOMAIN d.msgs => d.msgs[r[2]].conv = d.msgs[x].conv
        /\ r[2] < x
        /\ r \in DOMAIN d.replies \/ d.msgs[x].expires <= t
        /\ r \in DOMAIN d.replies => d.msgs[x].expires <= d.replies[r].at + MESSAGE_TTL
    BY DEF Timed, AnswersRecorded
  <2>2. x < d.next
    BY DEF Enqueueable
  <2>3. d.msgs[x] \in Message
    BY DEF Enqueueable, IsDatabase
  <2>4. r \in Requests
    BY <2>3 DEF Message
  <2>5. r[2] \in Nat
    BY <2>4 DEF Requests, Ids
  <2>6. r[2] # d.next
    BY <1>0, <2>1, <2>2, <2>5
  <2> QED BY <2>1, <2>6
<1>2. ConversationsDated(e, t)
  BY DEF Timed, ConversationsDated
<1>3. RequestsAnsweredOnce(e)
  BY <1>0 DEF Timed, RequestsAnsweredOnce
<1> QED BY <1>1, <1>2, <1>3 DEF Timed

LEMMA SendKeepsClean ==
    ASSUME NEW d, NEW t \in Nat, Clean(d, t), d.next \in Ids,
           NEW a \in Agents, NEW p \in Agents, NEW b \in Buses,
           Member(d, p, b), a \in DOMAIN d.agents,
           IF b # General THEN Member(d, a, b) ELSE Granted(d, Owner[a], b),
           HasRoom(d, p)
    PROVE  Clean(Enqueue(OpenConversation(d, a, p, b, t),
                         NewMessage(a, p, b, d.next, t + MESSAGE_TTL, NoKey, t)), t)
<1> DEFINE c1 == OpenConversation(d, a, p, b, t)
           row == NewMessage(a, p, b, d.next, t + MESSAGE_TTL, NoKey, t)
           e == Enqueue(c1, row)
<1>1. /\ Enqueueable(c1) /\ Open(c1) /\ Timed(c1, t)
      /\ SameExceptConvs(d, c1) /\ d.next \in DOMAIN c1.convs
      /\ c1.convs[d.next] = [initiator |-> a, published |-> p, bus |-> b,
                             expires |-> t + MESSAGE_TTL, closed |-> FALSE]
  BY OpenConversationKeeps
<1>2. row \in Message /\ row.req = NoKey
  BY BusAssumption DEF NewMessage, Message, ACTIVE
<1>3. /\ row.status = "accepted" /\ row.conv = d.next /\ row.sender = a /\ row.target = p
      /\ row.bus = b /\ row.expires = t + MESSAGE_TTL
  BY DEF NewMessage
<1> HIDE DEF c1, row
<1>4. Fits(c1, row)
  <2>1. p \in DOMAIN d.agents
    BY DEF Member
  <2>2. HasRoom(c1, p)
    BY <1>1 DEF HasRoom, Pending, Active, SameExceptConvs
  <2> QED BY <1>1, <1>2, <1>3, <2>1, <2>2 DEF Fits, SameExceptConvs
<1>5. IsDatabase(e) /\ Appended(c1, e, row)
  BY <1>1, <1>4, EnqueueAppends
<1> HIDE DEF e
<1>6. Sound(e)
  BY <1>1, <1>4, <1>5, AppendKeepsSound
<1>7. ~c1.convs[row.conv].closed
  BY <1>1, <1>3
<1>8. Open(e)
  BY <1>1, <1>4, <1>5, <1>7, AppendKeepsOpen
<1>9. Timed(e, t)
  BY <1>1, <1>2, <1>5, AppendKeepsTimed
<1> QED BY <1>6, <1>8, <1>9 DEF Clean, e, c1, row

\* Agent a may answer message m, and there is room for the answer.
Answerable(d, t, a, m) ==
    /\ Clean(d, t) /\ t \in Nat /\ d.next \in Ids
    /\ a \in Agents /\ m \in DOMAIN d.msgs /\ d.msgs[m].target = a
    /\ ConversationValid(d, d.msgs[m].conv, t) /\ HasRoom(d, d.msgs[m].sender)

Answer(d, t, a, m, req) ==
    NewMessage(a, d.msgs[m].sender, d.msgs[m].bus, d.msgs[m].conv,
               d.convs[d.msgs[m].conv].expires, req, t)

\* What _reply appends, seen from the message m that agent a answers.
LEMMA ReplyFits ==
    ASSUME NEW d, NEW t, NEW a, NEW m, Answerable(d, t, a, m),
           NEW req, req \in Requests \/ req = NoKey
    PROVE  LET row == Answer(d, t, a, m, req) IN
           /\ Enqueueable(d) /\ Fits(d, row) /\ ~d.convs[row.conv].closed
           /\ row.req = req /\ row.conv = d.msgs[m].conv
           /\ row.expires = d.convs[d.msgs[m].conv].expires
<1> DEFINE c == d.msgs[m].conv
           row == Answer(d, t, a, m, req)
<1> USE DEF Answerable
<1>1. IsDatabase(d) /\ d.msgs[m] \in Message /\ c \in DOMAIN d.convs /\ d.convs[c] \in Conversation
  BY DEF Clean, Sound, IsDatabase, ConversationValid
<1>2. Enqueueable(d)
  <2>1. \A x \in DOMAIN d.convs : x <= d.next
    BY <1>1 DEF Clean, Sound, IdsFresh, IsDatabase, Ids
  <2> QED BY <2>1 DEF Clean, Sound, IdsFresh, Enqueueable
<1>3. /\ row.status = "accepted" /\ row.conv = c /\ row.sender = a /\ row.target = d.msgs[m].sender
      /\ row.bus = d.msgs[m].bus /\ row.expires = d.convs[c].expires /\ row.req = req
  BY DEF Answer, NewMessage
<1>4. row \in Message
  BY <1>1, BusAssumption DEF Answer, NewMessage, Message, ACTIVE, Conversation
<1>5. /\ {a, d.msgs[m].sender} = {d.convs[c].initiator, d.convs[c].published}
      /\ d.msgs[m].bus = d.convs[c].bus
  BY <1>1 DEF Clean, Sound, WithinConversation
<1>6. a \in DOMAIN d.agents /\ d.msgs[m].sender \in DOMAIN d.agents
  BY DEF Clean, Sound, ReferencesExist, Referenced
<1> HIDE DEF row
<1>7. Fits(d, row)
  BY <1>1, <1>3, <1>4, <1>5, <1>6 DEF Fits
<1> QED BY <1>2, <1>3, <1>7 DEF ConversationValid, row

\* A reply without a request id.
LEMMA PlainReplyKeepsClean ==
    ASSUME NEW d, NEW t, NEW a, NEW m, Answerable(d, t, a, m)
    PROVE  Clean(EnqueueReply(d, a, m, NoKey, t), t)
<1>a. Clean(d, t) /\ t \in Nat /\ d.next \in Ids /\ a \in Agents /\ m \in DOMAIN d.msgs
  BY DEF Answerable
<1>b. d.msgs[m].target = a /\ ConversationValid(d, d.msgs[m].conv, t)
  BY DEF Answerable
<1> USE <1>a, <1>b
<1> DEFINE row == Answer(d, t, a, m, NoKey)
           e == EnqueueReply(d, a, m, NoKey, t)
<1>0. e = Enqueue(d, row)
  BY DEF EnqueueReply, Answer
<1> HIDE DEF e
<1>1. Enqueueable(d) /\ Fits(d, row) /\ ~d.convs[row.conv].closed /\ row.req = NoKey
  BY ReplyFits
<1> HIDE DEF row
<1>2. IsDatabase(e) /\ Appended(d, e, row)
  BY <1>0, <1>1, EnqueueAppends
<1>3. Sound(e) /\ Open(e) /\ Timed(e, t)
  BY <1>1, <1>2, AppendKeepsSound, AppendKeepsOpen, AppendKeepsTimed DEF Clean
<1> QED BY <1>3 DEF Clean, e

\* A reply with a request id that has no stored result.  No message can have
\* answered it before: its result would have been dropped only once the
\* conversation was over, and the conversation is still valid.
LEMMA KeyedReplyKeepsClean ==
    ASSUME NEW d, NEW t, NEW a, NEW m, Answerable(d, t, a, m),
           NEW k \in Keys, <<a, m, k>> \notin DOMAIN d.replies
    PROVE  Clean(RememberReply(EnqueueReply(d, a, m, <<a, m, k>>, t), <<a, m, k>>, d.next, t), t)
<1>a. Clean(d, t) /\ t \in Nat /\ d.next \in Ids /\ a \in Agents /\ m \in DOMAIN d.msgs
  BY DEF Answerable
<1>b. d.msgs[m].target = a /\ ConversationValid(d, d.msgs[m].conv, t)
  BY DEF Answerable
<1> USE <1>a, <1>b
<1> DEFINE req == <<a, m, k>>
           row == Answer(d, t, a, m, req)
           q == EnqueueReply(d, a, m, req, t)
           f == [r \in DOMAIN q.replies \cup {req} |->
                    IF r = req THEN [id |-> d.next, at |-> t] ELSE q.replies[r]]
           e == RememberReply(q, req, d.next, t)
<1>0. req \in Requests /\ req # NoKey /\ req[2] = m /\ m \in Ids /\ IsDatabase(d)
  BY BusAssumption DEF Requests, Ids, Clean, Sound, IsDatabase
<1>1. q = Enqueue(d, row) /\ e = [q EXCEPT !.replies = f]
  BY DEF EnqueueReply, RememberReply, Answer
<1>2. /\ Enqueueable(d) /\ Fits(d, row) /\ ~d.convs[row.conv].closed
      /\ row.req = req /\ row.conv = d.msgs[m].conv
      /\ row.expires = d.convs[d.msgs[m].conv].expires
  <2> HIDE DEF req
  <2> QED BY <1>0, ReplyFits
<1> HIDE DEF row, q
<1>3. IsDatabase(q) /\ Appended(d, q, row)
  BY <1>1, <1>2, EnqueueAppends
<1>4. Sound(q) /\ Open(q)
  BY <1>2, <1>3, AppendKeepsSound, AppendKeepsOpen DEF Clean
<1>5. /\ f \in [DOMAIN q.replies \cup {req} -> ReplyRow]
      /\ DOMAIN q.replies \cup {req} \in SUBSET Requests
  BY <1>0, <1>3 DEF IsDatabase, ReplyRow
<1>6. /\ DOMAIN f = DOMAIN d.replies \cup {req}
      /\ f[req] = [id |-> d.next, at |-> t]
      /\ \A r \in DOMAIN d.replies : f[r] = d.replies[r]
  BY <1>3 DEF Appended
<1> HIDE DEF f, e
<1>7. IsDatabase(e) /\ e.replies = f /\ SameExceptReplies(q, e)
  BY <1>1, <1>3, <1>5, SetReplies
<1> USE DEF SameExceptReplies, SameAdmission
<1>8. Sound(e)
  BY <1>4, <1>7 DEF Sound, LeasedAreHeads, Pending, Active, ReferencesExist, Referenced,
                    QueuesBounded, WithinConversation, IdsFresh
<1>9. Open(e)
  BY <1>4, <1>7 DEF Open, OpenAreAdmitted, Admitted, Member, Granted, PendingAreOpen, Active
<1>10. \A x \in DOMAIN d.msgs : d.msgs[x].req # req
  <2> SUFFICES ASSUME NEW x \in DOMAIN d.msgs, d.msgs[x].req = req PROVE FALSE
    OBVIOUS
  <2>1. d.msgs[m].conv = d.msgs[x].conv /\ d.msgs[x].expires <= t
    BY <1>0 DEF Clean, Timed, AnswersRecorded
  <2>2. d.msgs[x].expires = d.convs[d.msgs[m].conv].expires
    BY <2>1 DEF Clean, Sound, WithinConversation, ConversationValid
  <2>3. d.convs[d.msgs[m].conv].expires > t /\ d.msgs[x].expires \in Nat
    BY <1>0 DEF ConversationValid, IsDatabase, Message
  <2> QED BY <2>1, <2>2, <2>3
<1>11. /\ DOMAIN e.msgs = DOMAIN d.msgs \cup {d.next} /\ e.msgs[d.next] = row
       /\ \A x \in DOMAIN d.msgs : e.msgs[x] = d.msgs[x]
       /\ e.convs = d.convs
  BY <1>3, <1>7 DEF Appended
<1>12. d.next \notin DOMAIN d.msgs /\ d.next \in Nat /\ \A x \in DOMAIN d.msgs : x \in Nat /\ x < d.next
  BY <1>0 DEF Clean, Sound, IdsFresh, IsDatabase, Ids
<1>13. AnswersRecorded(e, t)
  <2> SUFFICES ASSUME NEW x \in DOMAIN e.msgs, NEW r, r = e.msgs[x].req, r # NoKey
               PROVE  /\ r[2] \in DOMAIN e.msgs => e.msgs[r[2]].conv = e.msgs[x].conv
                      /\ r[2] < x
                      /\ r \in DOMAIN f \/ e.msgs[x].expires <= t
                      /\ r \in DOMAIN f => e.msgs[x].expires <= f[r].at + MESSAGE_TTL
    BY <1>7 DEF AnswersRecorded
  <2>1. CASE x = d.next
    <3>1. d.convs[d.msgs[m].conv].expires <= t + MESSAGE_TTL
      BY DEF Clean, Timed, ConversationsDated, ConversationValid
    <3> QED BY <2>1, <3>1, <1>0, <1>2, <1>6, <1>11, <1>12
  <2>2. CASE x \in DOMAIN d.msgs
    <3>1. /\ r[2] \in DOMAIN d.msgs => d.msgs[r[2]].conv = d.msgs[x].conv
          /\ r[2] < x
          /\ r \in DOMAIN d.replies \/ d.msgs[x].expires <= t
          /\ r \in DOMAIN d.replies => d.msgs[x].expires <= d.replies[r].at + MESSAGE_TTL
      BY <2>2, <1>11 DEF Clean, Timed, AnswersRecorded
    <3>2. r \in Requests
      BY <2>2, <1>0, <1>11 DEF IsDatabase, Message
    <3>3. r[2] \in Nat
      BY <3>2 DEF Requests, Ids
    <3>4. r[2] # d.next
      BY <3>1, <3>3, <1>12, <2>2
    <3> QED BY <2>2, <3>1, <3>4, <1>6, <1>10, <1>11
  <2> QED BY <2>1, <2>2, <1>11
<1>14. ConversationsDated(e, t)
  BY <1>11 DEF Clean, Timed, ConversationsDated
<1>15. RequestsAnsweredOnce(e)
  BY <1>2, <1>10, <1>11 DEF Clean, Timed, RequestsAnsweredOnce
<1> QED BY <1>8, <1>9, <1>13, <1>14, <1>15 DEF Clean, Timed, e, q

-----------------------------------------------------------------------------
(* Poll. *)

LEMMA LeaseKeepsClean ==
    ASSUME NEW d, NEW t \in Nat, Clean(d, t), NEW A, NEW S \in SUBSET Heads(d, A, t)
    PROVE  Clean(LeaseAll(d, S, t), t)
<1> DEFINE f == [m \in DOMAIN d.msgs |->
                    IF m \in S
                    THEN [d.msgs[m] EXCEPT !.status = "leased", !.lease = d.msgs[m].lease + 1,
                                           !.until = t + LEASE_TTL, !.updated = t]
                    ELSE d.msgs[m]]
           e == LeaseAll(d, S, t)
<1>0. IsDatabase(d) /\ LEASE_TTL \in Nat
  BY BusAssumption DEF Clean, Sound
<1>1. f \in [DOMAIN d.msgs -> Message] /\ DOMAIN d.msgs \in SUBSET Ids
  <2> SUFFICES ASSUME NEW m \in DOMAIN d.msgs PROVE f[m] \in Message
    BY <1>0 DEF IsDatabase
  <2> DEFINE row == [d.msgs[m] EXCEPT !.status = "leased", !.lease = d.msgs[m].lease + 1,
                                      !.until = t + LEASE_TTL, !.updated = t]
  <2>1. d.msgs[m] \in Message /\ d.msgs[m].lease + 1 \in Nat /\ t + LEASE_TTL \in Nat
    BY <1>0 DEF IsDatabase, Message
  <2>2. row \in Message
    BY <2>1 DEF Message, ACTIVE
  <2>3. f[m] = IF m \in S THEN row ELSE d.msgs[m]
    OBVIOUS
  <2> HIDE DEF row, f
  <2> QED BY <2>1, <2>2, <2>3
<1>2. e = [d EXCEPT !.msgs = f]
  BY DEF LeaseAll
<1> HIDE DEF f, e
<1>3. IsDatabase(e) /\ e.msgs = f /\ SameExceptMsgs(d, e)
  BY <1>0, <1>1, <1>2, SetMsgs
<1>4. DOMAIN e.msgs = DOMAIN d.msgs
  BY <1>3 DEF f
<1>5. ASSUME NEW m \in DOMAIN d.msgs
      PROVE  /\ SameRow(d, e, m)
             /\ Active(e, m) <=> Active(d, m)
             /\ e.msgs[m].status = "leased" => m \in S \/ d.msgs[m].status = "leased"
  <2> DEFINE row == [d.msgs[m] EXCEPT !.status = "leased", !.lease = d.msgs[m].lease + 1,
                                      !.until = t + LEASE_TTL, !.updated = t]
  <2>1. d.msgs[m] \in Message /\ (m \in S => Active(d, m))
    BY <1>0 DEF IsDatabase, Heads
  <2>2. e.msgs[m] = IF m \in S THEN row ELSE d.msgs[m]
    BY <1>3 DEF f
  <2>3. /\ row.status = "leased"
        /\ row.sender = d.msgs[m].sender /\ row.target = d.msgs[m].target
        /\ row.bus = d.msgs[m].bus /\ row.conv = d.msgs[m].conv
        /\ row.expires = d.msgs[m].expires /\ row.req = d.msgs[m].req
    BY <2>1 DEF Message
  <2> HIDE DEF row
  <2> QED BY <2>1, <2>2, <2>3 DEF SameRow, Active, ACTIVE
<1> USE DEF SameExceptMsgs, SameAdmission
<1>6. \A a : Pending(e, a) = Pending(d, a)
  BY <1>4, <1>5 DEF Pending, SameRow
<1>7. LeasedAreHeads(e)
  <2> SUFFICES ASSUME NEW m \in DOMAIN d.msgs, e.msgs[m].status = "leased",
                      NEW x \in Pending(d, d.msgs[m].target)
               PROVE  m <= x
    BY <1>4, <1>5, <1>6 DEF LeasedAreHeads, SameRow
  <2>1. CASE m \in S
    BY <2>1 DEF Heads
  <2>2. CASE d.msgs[m].status = "leased"
    BY <2>2 DEF Clean, Sound, LeasedAreHeads
  <2> QED BY <2>1, <2>2, <1>5
<1>8. ReferencesExist(e) /\ WithinConversation(e)
  <2>1. Referenced(e) = Referenced(d)
    BY <1>3, <1>4, <1>5 DEF Referenced, SameRow
  <2>2. ReferencesExist(e)
    BY <2>1, <1>3, <1>4, <1>5 DEF Clean, Sound, ReferencesExist, SameRow
  <2>3. WithinConversation(e)
    BY <1>3, <1>4, <1>5 DEF Clean, Sound, WithinConversation, SameRow
  <2> QED BY <2>2, <2>3
<1>9. Sound(e)
  BY <1>3, <1>4, <1>6, <1>7, <1>8 DEF Clean, Sound, QueuesBounded, IdsFresh
<1>10. Open(e)
  BY <1>3, <1>4, <1>5 DEF Clean, Open, OpenAreAdmitted, Admitted, Member, Granted,
                          PendingAreOpen, SameRow
<1>11. Timed(e, t)
  BY <1>3, <1>4, <1>5 DEF Clean, Timed, AnswersRecorded, ConversationsDated,
                          RequestsAnsweredOnce, SameRow
<1> QED BY <1>9, <1>10, <1>11 DEF Clean, e

-----------------------------------------------------------------------------
(* The invariant.  One lemma per request, all from the clock reading `now'. *)

LEMMA InitIInv == Init => IInv
<1> SUFFICES ASSUME Init PROVE IInv
  OBVIOUS
<1>1. now \in 0..MaxTime
  BY BusAssumption DEF Init
<1>2. /\ db.principals = Admins /\ db.revoked = {} /\ db.grants = {} /\ db.members = {}
      /\ db.next = 1
      /\ DOMAIN db.agents = {} /\ DOMAIN db.msgs = {} /\ DOMAIN db.convs = {}
      /\ DOMAIN db.replies = {}
  BY DEF Init
<1>3. IsDatabase(db)
  <2>1. db = [principals |-> db.principals, revoked |-> db.revoked, grants |-> db.grants,
              agents |-> db.agents, members |-> db.members, msgs |-> db.msgs,
              convs |-> db.convs, replies |-> db.replies, next |-> db.next]
    BY DEF Init
  <2>2. /\ db.agents \in [{} -> Nat] /\ db.msgs \in [{} -> Message]
        /\ db.convs \in [{} -> Conversation] /\ db.replies \in [{} -> ReplyRow]
    BY DEF Init
  <2> QED BY <1>2, <2>1, <2>2, BusAssumption DEF IsDatabase
<1>4. QueuesBounded(db)
  <2> SUFFICES ASSUME NEW a \in Agents PROVE Cardinality(Pending(db, a)) <= MAX_PENDING
    BY DEF QueuesBounded
  <2>1. Pending(db, a) = {}
    BY <1>2 DEF Pending
  <2> QED BY <2>1, FS_EmptySet, BusAssumption
<1>5. Sound(db)
  BY <1>2, <1>3, <1>4 DEF Sound, LeasedAreHeads, ReferencesExist, Referenced,
                          WithinConversation, IdsFresh
<1>6. Open(db)
  BY <1>2 DEF Open, OpenAreAdmitted, PendingAreOpen
<1>7. Timed(db, now)
  BY <1>2 DEF Timed, AnswersRecorded, ConversationsDated, RequestsAnsweredOnce
<1> QED BY <1>1, <1>5, <1>6, <1>7 DEF IInv

LEMMA NowNat ==
    ASSUME IInv
    PROVE  now \in Nat /\ Clean(db, now)
BY BusAssumption DEF IInv, Clean

\* It is enough that a step leaves a clean database for its clock reading.
LEMMA CleanIInv ==
    ASSUME now' \in 0..MaxTime, Clean(db', now')
    PROVE  IInv'
BY DEF IInv, Clean, Sound, Open, Timed, LeasedAreHeads, ReferencesExist, QueuesBounded,
       WithinConversation, IdsFresh, OpenAreAdmitted, PendingAreOpen, AnswersRecorded,
       ConversationsDated, RequestsAnsweredOnce, IsDatabase, Pending, Active, Referenced,
       Admitted, Member, Granted

LEMMA StepIInv ==
    ASSUME IInv, now' = now, Clean(db', now)
    PROVE  IInv'
<1>1. now' \in 0..MaxTime /\ Clean(db', now')
  BY DEF IInv
<1> QED BY <1>1, CleanIInv

\* Cancelling deletes no message.
LEMMA CancelInvalidKeepsRows ==
    ASSUME NEW d, NEW t \in Nat, IsDatabase(d)
    PROVE  DOMAIN CancelInvalid(d, t).msgs = DOMAIN d.msgs
<1> DEFINE c1 == CloseInvalid(d, t)
           f == [x \in DOMAIN c1.msgs |->
                    IF Active(c1, x) /\ ~ConversationValid(c1, c1.msgs[x].conv, t)
                    THEN [c1.msgs[x] EXCEPT !.status = "cancelled", !.updated = t]
                    ELSE c1.msgs[x]]
           e == CancelInvalid(d, t)
<1>1. c1.msgs = d.msgs /\ IsDatabase(c1)
  BY CloseInvalidNarrows DEF Narrows
<1> HIDE DEF c1
<1>2. e = [c1 EXCEPT !.msgs = f]
  BY DEF CancelInvalid, CancelPending, c1
<1>3. DOMAIN f = DOMAIN c1.msgs
  OBVIOUS
<1> HIDE DEF e, f
<1>4. e.msgs = f
  BY <1>1, <1>2 DEF IsDatabase
<1> QED BY <1>1, <1>3, <1>4 DEF e

LEMMA SendStep ==
    ASSUME IInv, NEW a \in Agents, NEW target \in Agents, NEW b \in Buses, Send(a, target, b)
    PROVE  IInv'
<1> DEFINE d1 == Expire(db, now)
           d2 == CancelInvalid(d1, now)
<1>1. /\ db.next <= MaxId
      /\ Owned(d1, a) /\ Granted(d1, Owner[a], b) /\ (b # General => Member(d1, a, b))
      /\ Member(d1, target, b) /\ HasRoom(d2, target)
      /\ db' = Enqueue(OpenConversation(d2, a, target, b, now),
                       NewMessage(a, target, b, db.next, now + MESSAGE_TTL, NoKey, now))
      /\ now' = now
  BY DEF Send
<1>2. now \in Nat /\ Clean(db, now)
  BY NowNat
<1>3. /\ Clean(d2, now) /\ Follows(db, d2) /\ SameAdmission(d1, d2) /\ d2.agents = d1.agents
  BY <1>2, ExpireThenCancelCleans
<1> HIDE DEF d1, d2
<1>4. d2.next = db.next /\ d2.next \in Ids
  BY <1>1, <1>2, <1>3, BusAssumption DEF Follows, Clean, Sound, IsDatabase, Ids
<1>5. /\ Member(d2, target, b) /\ a \in DOMAIN d2.agents
      /\ IF b # General THEN Member(d2, a, b) ELSE Granted(d2, Owner[a], b)
  BY <1>1, <1>3 DEF Owned, Member, Granted, SameAdmission
<1>6. Clean(db', now)
  BY <1>1, <1>2, <1>3, <1>4, <1>5, SendKeepsClean
<1> QED BY <1>1, <1>6, StepIInv

LEMMA ReplyStep ==
    ASSUME IInv, NEW a \in Agents, NEW m \in Ids, NEW k \in Keys \cup {NoKey}, Reply(a, m, k)
    PROVE  IInv'
<1> DEFINE d1 == Expire(db, now)
           d2 == CancelInvalid(d1, now)
           req == IF k = NoKey THEN NoKey ELSE <<a, m, k>>
           d3 == EnqueueReply(d2, a, m, req, now)
<1>1. /\ db.next <= MaxId /\ m \in DOMAIN db.msgs /\ db.msgs[m].target = a
      /\ Owned(d1, a) /\ req \notin DOMAIN d1.replies /\ m \in DOMAIN d1.msgs
      /\ ConversationValid(d2, d1.msgs[m].conv, now) /\ HasRoom(d2, d1.msgs[m].sender)
      /\ db' = IF k = NoKey THEN d3 ELSE RememberReply(d3, req, db.next, now)
      /\ now' = now
  BY DEF Reply
<1>2. now \in Nat /\ Clean(db, now)
  BY NowNat
<1>3. /\ Clean(d2, now) /\ Follows(db, d2) /\ Follows(d1, d2) /\ d2.replies = d1.replies
  BY <1>2, ExpireThenCancelCleans
<1>4. DOMAIN d2.msgs = DOMAIN d1.msgs
  BY <1>2, ExpireKeepsClean, CancelInvalidKeepsRows DEF Clean, Sound
<1> HIDE DEF d1, d2
<1>5. d2.next = db.next /\ d2.next \in Ids
  BY <1>1, <1>2, <1>3, BusAssumption DEF Follows, Clean, Sound, IsDatabase, Ids
<1>6. /\ m \in DOMAIN d2.msgs /\ d2.msgs[m].target = a
      /\ d2.msgs[m].conv = d1.msgs[m].conv /\ d2.msgs[m].sender = d1.msgs[m].sender
  BY <1>1, <1>3, <1>4 DEF Follows, SameRow
<1>7. Answerable(d2, now, a, m)
  BY <1>1, <1>2, <1>3, <1>5, <1>6 DEF Answerable
<1>8. CASE k = NoKey
  BY <1>1, <1>7, <1>8, PlainReplyKeepsClean, StepIInv
<1>9. CASE k # NoKey
  <2>1. k \in Keys /\ req = <<a, m, k>> /\ <<a, m, k>> \notin DOMAIN d2.replies
    BY <1>1, <1>3, <1>9
  <2>2. Clean(RememberReply(EnqueueReply(d2, a, m, <<a, m, k>>, now), <<a, m, k>>, d2.next, now), now)
    BY <1>7, <2>1, KeyedReplyKeepsClean
  <2> QED BY <1>1, <1>5, <1>9, <2>1, <2>2, StepIInv
<1> QED BY <1>8, <1>9

LEMMA ReplyAgainStep ==
    ASSUME IInv, NEW a \in Agents, NEW m \in Ids, NEW k \in Keys, ReplyAgain(a, m, k)
    PROVE  IInv'
BY NowNat, ExpireKeepsClean, StepIInv DEF ReplyAgain

LEMMA PollStep ==
    ASSUME IInv, NEW p \in Principals, NEW A \in SUBSET Agents, Poll(p, A)
    PROVE  IInv'
<1> DEFINE d2 == CancelInvalid(Expire(db, now), now)
<1>1. db' = LeaseAll(d2, Fetched(d2, A, now), now) /\ now' = now
  BY DEF Poll
<1>2. now \in Nat /\ Clean(d2, now)
  BY NowNat, ExpireThenCancelCleans
<1> HIDE DEF d2
<1>3. Fetched(d2, A, now) \in SUBSET Heads(d2, A, now)
  BY DEF Fetched
<1> QED BY <1>1, <1>2, <1>3, LeaseKeepsClean, StepIInv

LEMMA AckStep ==
    ASSUME IInv, NEW a \in Agents, NEW m \in Ids, NEW l, NEW st \in Outcomes, Ack(a, m, l, st)
    PROVE  IInv'
<1> DEFINE d1 == Expire(db, now)
           d2 == CancelInvalid(d1, now)
<1>1. /\ now' = now
      /\ \/ db' = d2
         \/ Settles(d2, m, st, now) /\ db' = Settle(d2, m, st, now)
  BY DEF Ack
<1>2. now \in Nat /\ Clean(d1, now) /\ Clean(d2, now)
  BY NowNat, ExpireThenCancelCleans
<1>5. m \in DOMAIN d2.msgs
  BY <1>2, CancelInvalidKeepsRows DEF Ack, Clean, Sound
<1> HIDE DEF d1, d2
<1>3. CASE db' = d2
  BY <1>1, <1>2, <1>3, StepIInv
<1>4. CASE m \in DOMAIN d2.msgs /\ db' = Settle(d2, m, st, now)
  <2>1. st \in {"delivered", "queued", "failed"}
    BY BusAssumption
  <2>2. IsDatabase(db') /\ Drains(d2, db')
    BY <1>2, <1>4, <2>1, SettleDrains DEF Clean, Sound
  <2> QED BY <1>1, <1>2, <2>2, DrainKeepsClean, StepIInv
<1> QED BY <1>1, <1>3, <1>4, <1>5

LEMMA ReceiptStep ==
    ASSUME IInv, NEW p \in Principals, NEW m \in Ids, Receipt(p, m)
    PROVE  IInv'
BY NowNat, ExpireThenCancelCleans, StepIInv DEF Receipt

LEMMA ReadStep ==
    ASSUME IInv, NEW p \in Principals, Read(p)
    PROVE  IInv'
BY NowNat, ExpireKeepsClean, StepIInv DEF Read

LEMMA RegisterStep ==
    ASSUME IInv, NEW a \in Agents, NEW b \in Buses, Register(a, b)
    PROVE  IInv'
<1> DEFINE d1 == Expire(db, now)
           d2 == Touch(d1, {a}, now)
<1>1. db' = [d2 EXCEPT !.members = @ \cup {<<a, b>>}] /\ now' = now
  BY DEF Register
<1>2. now \in Nat /\ Clean(d1, now)
  BY NowNat, ExpireKeepsClean
<1> HIDE DEF d1
<1>3. /\ IsDatabase(d2) /\ Widens(d1, d2) /\ {a} \subseteq DOMAIN d2.agents
      /\ SameAdmission(d1, d2)
  BY <1>2, TouchWidens DEF Clean, Sound
<1> HIDE DEF d2
<1>4. db' = [principals |-> d2.principals, revoked |-> d2.revoked, grants |-> d2.grants,
             agents |-> d2.agents, members |-> d2.members \cup {<<a, b>>}, msgs |-> d2.msgs,
             convs |-> d2.convs, replies |-> d2.replies, next |-> d2.next]
  BY <1>1, <1>3 DEF IsDatabase
<1>5. IsDatabase(db')
  BY <1>3, <1>4 DEF IsDatabase
<1>6. Widens(d1, db')
  BY <1>3, <1>4 DEF Widens, SameAdmission
<1> QED BY <1>1, <1>2, <1>5, <1>6, WidenKeepsClean, StepIInv

LEMMA IdentifyStep ==
    ASSUME IInv, NEW a \in Agents, Identify(a)
    PROVE  IInv'
<1> DEFINE d1 == Expire(db, now)
<1>1. db' = Touch(d1, {a}, now) /\ now' = now
  BY DEF Identify
<1>2. now \in Nat /\ Clean(d1, now)
  BY NowNat, ExpireKeepsClean
<1> HIDE DEF d1
<1>3. IsDatabase(db') /\ Widens(d1, db')
  BY <1>1, <1>2, TouchWidens DEF Clean, Sound
<1> QED BY <1>1, <1>2, <1>3, WidenKeepsClean, StepIInv

LEMMA HeartbeatStep ==
    ASSUME IInv, NEW p \in Principals, NEW A \in SUBSET Agents, Heartbeat(p, A)
    PROVE  IInv'
<1> DEFINE d1 == Expire(db, now)
<1>1. db' = Touch(d1, A, now) /\ now' = now
  BY DEF Heartbeat
<1>2. now \in Nat /\ Clean(d1, now)
  BY NowNat, ExpireKeepsClean
<1> HIDE DEF d1
<1>3. IsDatabase(db') /\ Widens(d1, db')
  BY <1>1, <1>2, TouchWidens DEF Clean, Sound
<1> QED BY <1>1, <1>2, <1>3, WidenKeepsClean, StepIInv

LEMMA LeaveStep ==
    ASSUME IInv, NEW p \in Principals, NEW a \in Agents, NEW b \in Buses, Leave(p, a, b)
    PROVE  IInv'
<1> DEFINE d1 == Expire(db, now)
           d2 == Unpublish(d1, a, b)
<1>1. db' = CancelInvalid(d2, now) /\ now' = now
  BY DEF Leave
<1>2. now \in Nat /\ Clean(d1, now)
  BY NowNat, ExpireKeepsClean
<1>3. IsDatabase(d2) /\ Narrows(d1, d2)
  BY <1>2, UnpublishNarrows DEF Clean, Sound
<1> HIDE DEF d1, d2
<1>4. Sound(d2) /\ Timed(d2, now)
  BY <1>2, <1>3, NarrowKeeps DEF Clean
<1> QED BY <1>1, <1>2, <1>4, CancelInvalidCleans, StepIInv

LEMMA RedeemStep ==
    ASSUME IInv, NEW p \in Principals, NEW b \in Buses, Redeem(p, b)
    PROVE  IInv'
<1> DEFINE d1 == [db EXCEPT !.principals = @ \cup {p}, !.grants = @ \cup {<<p, b>>}]
<1>1. db' = Expire(d1, now) /\ now' = now
  BY DEF Redeem
<1>2. now \in Nat /\ Clean(db, now)
  BY NowNat
<1>0. IsDatabase(db)
  BY <1>2 DEF Clean, Sound
<1> DEFINE P == db.principals \cup {p}
           G == db.grants \cup {<<p, b>>}
<1>a. d1 = [db EXCEPT !.principals = P, !.grants = G]
  OBVIOUS
<1> HIDE DEF d1, P, G
<1>3. d1 = [principals |-> P, revoked |-> db.revoked,
            grants |-> G, agents |-> db.agents,
            members |-> db.members, msgs |-> db.msgs, convs |-> db.convs,
            replies |-> db.replies, next |-> db.next]
  BY <1>0, <1>a DEF IsDatabase
<1>4. IsDatabase(d1)
  BY <1>2, <1>3 DEF Clean, Sound, IsDatabase, P, G
<1>5. Widens(db, d1)
  BY <1>3 DEF Widens, P, G
<1>6. Clean(d1, now)
  BY <1>2, <1>4, <1>5, WidenKeepsClean
<1> QED BY <1>1, <1>2, <1>6, ExpireKeepsClean, StepIInv

LEMMA WithdrawStep ==
    ASSUME IInv, NEW P \in SUBSET Principals, NEW b \in Buses, Withdraw(P, b)
    PROVE  IInv'
<1> DEFINE d1 == Expire(db, now)
           d2 == [d1 EXCEPT !.grants = @ \ (P \X {b}),
                            !.members = {x \in @ : ~(x[2] = b /\ Owner[x[1]] \in P)}]
<1>1. db' = CancelInvalid(d2, now) /\ now' = now
  BY DEF Withdraw, WithdrawAccess
<1>2. now \in Nat /\ Clean(d1, now)
  BY NowNat, ExpireKeepsClean
<1> HIDE DEF d1
<1>0. IsDatabase(d1)
  BY <1>2 DEF Clean, Sound
<1> DEFINE G == d1.grants \ (P \X {b})
           M == {x \in d1.members : ~(x[2] = b /\ Owner[x[1]] \in P)}
<1>a. d2 = [d1 EXCEPT !.grants = G, !.members = M]
  OBVIOUS
<1> HIDE DEF d2, G, M
<1>3. d2 = [principals |-> d1.principals, revoked |-> d1.revoked,
            grants |-> G, agents |-> d1.agents,
            members |-> M,
            msgs |-> d1.msgs, convs |-> d1.convs, replies |-> d1.replies, next |-> d1.next]
  BY <1>0, <1>a DEF IsDatabase
<1>4. IsDatabase(d2)
  BY <1>2, <1>3 DEF Clean, Sound, IsDatabase, G, M
<1>5. Narrows(d1, d2)
  BY <1>3 DEF Narrows, G, M
<1>6. Sound(d2) /\ Timed(d2, now)
  BY <1>2, <1>4, <1>5, NarrowKeeps DEF Clean
<1> QED BY <1>1, <1>2, <1>6, CancelInvalidCleans, StepIInv

LEMMA RevokeStep ==
    ASSUME IInv, NEW p \in Principals, Revoke(p)
    PROVE  IInv'
<1> DEFINE d1 == Expire(db, now)
           d2 == [d1 EXCEPT !.revoked = @ \cup {p},
                            !.grants = {x \in @ : x[1] # p},
                            !.members = {x \in @ : Owner[x[1]] # p}]
<1>1. db' = CancelInvalid(d2, now) /\ now' = now
  BY DEF Revoke
<1>2. now \in Nat /\ Clean(d1, now)
  BY NowNat, ExpireKeepsClean
<1> HIDE DEF d1
<1>0. IsDatabase(d1)
  BY <1>2 DEF Clean, Sound
<1> DEFINE R == d1.revoked \cup {p}
           G == {x \in d1.grants : x[1] # p}
           M == {x \in d1.members : Owner[x[1]] # p}
<1>a. d2 = [d1 EXCEPT !.revoked = R, !.grants = G, !.members = M]
  OBVIOUS
<1> HIDE DEF d2, R, G, M
<1>3. d2 = [principals |-> d1.principals, revoked |-> R,
            grants |-> G, agents |-> d1.agents,
            members |-> M,
            msgs |-> d1.msgs, convs |-> d1.convs, replies |-> d1.replies, next |-> d1.next]
  BY <1>0, <1>a DEF IsDatabase
<1>4. IsDatabase(d2)
  BY <1>2, <1>3 DEF Clean, Sound, IsDatabase, R, G, M
<1>5. Narrows(d1, d2)
  BY <1>3 DEF Narrows, R, G, M
<1>6. Sound(d2) /\ Timed(d2, now)
  BY <1>2, <1>4, <1>5, NarrowKeeps DEF Clean
<1> QED BY <1>1, <1>2, <1>6, CancelInvalidCleans, StepIInv

LEMMA TickStep ==
    ASSUME IInv, Tick
    PROVE  IInv'
<1>1. now < MaxTime /\ now' = now + 1 /\ db' = db
  BY DEF Tick
<1>2. now \in 0..MaxTime /\ now' \in 0..MaxTime /\ now \in Nat
  BY <1>1, BusAssumption DEF IInv
<1>3. IsDatabase(db)
  BY DEF IInv, Sound
<1>4. AnswersRecorded(db, now + 1)
  <2> SUFFICES ASSUME NEW x \in DOMAIN db.msgs, db.msgs[x].expires <= now
               PROVE  db.msgs[x].expires <= now + 1
    BY DEF IInv, Timed, AnswersRecorded
  <2> QED BY <1>2, <1>3 DEF IsDatabase, Message
<1>5. ConversationsDated(db, now + 1)
  <2> SUFFICES ASSUME NEW c \in DOMAIN db.convs
               PROVE  db.convs[c].expires <= (now + 1) + MESSAGE_TTL
    BY DEF ConversationsDated
  <2>1. db.convs[c].expires <= now + MESSAGE_TTL /\ db.convs[c].expires \in Nat
    BY <1>3 DEF IInv, Timed, ConversationsDated, IsDatabase, Conversation
  <2> QED BY <1>2, <2>1, BusAssumption
<1>6. Clean(db, now + 1)
  BY <1>4, <1>5 DEF IInv, Clean, Timed
<1>7. Clean(db', now')
  BY <1>1, <1>6
<1> QED BY <1>2, <1>7, CleanIInv

LEMMA NextIInv == IInv /\ [Next]_vars => IInv'
<1> SUFFICES ASSUME IInv, [Next]_vars PROVE IInv'
  OBVIOUS
<1>1. CASE Messaging
  BY <1>1, SendStep, ReplyStep, ReplyAgainStep, PollStep, AckStep, ReceiptStep, ReadStep
     DEF Messaging
<1>2. CASE Admission
  BY <1>2, RegisterStep, IdentifyStep, HeartbeatStep, LeaveStep, RedeemStep, WithdrawStep,
     RevokeStep DEF Admission
<1>3. CASE Tick
  BY <1>3, TickStep
<1>4. CASE UNCHANGED vars
  <2>1. db' = db /\ now' = now
    BY <1>4 DEF vars
  <2> QED BY <2>1, NowNat, StepIInv
<1> QED BY <1>1, <1>2, <1>3, <1>4 DEF Next

-----------------------------------------------------------------------------
(* The theorems. *)

\* The strengthened invariant holds in every reachable state, for any number of
\* devices, agents, buses and messages and any periods that satisfy BusAssumption.
THEOREM BrokerInvariant == Spec => []IInv
BY InitIInv, NextIInv, PTL DEF Spec

\* Every table keeps its type, whatever requests arrive.
THEOREM TypeCorrect == Spec => []TypeOK
<1>1. IInv => TypeOK
  BY DEF IInv, Sound, TypeOK
<1> QED BY <1>1, BrokerInvariant, PTL

\* A recipient only ever works on its earliest pending message.
THEOREM InOrder == Spec => []HeadOfLine
<1>1. IInv => HeadOfLine
  BY DEF IInv, Sound, HeadOfLine
<1> QED BY <1>1, BrokerInvariant, PTL

\* Mail that can still be delivered belongs to two admitted ends.
THEOREM OnlyAdmittedMail == Spec => []MailAdmitted
<1>1. IInv => MailAdmitted
  BY DEF IInv, Open, MailAdmitted
<1> QED BY <1>1, BrokerInvariant, PTL

\* No retention rule removes a row that another still names.
THEOREM Referential == Spec => []NoDangling
<1>1. IInv => NoDangling
  BY DEF IInv, Sound, NoDangling
<1> QED BY <1>1, BrokerInvariant, PTL

\* No queue outgrows MAX_PENDING.
THEOREM Bounded == Spec => []BoundedQueue
<1>1. IInv => BoundedQueue
  BY DEF IInv, Sound, BoundedQueue
<1> QED BY <1>1, BrokerInvariant, PTL

\* Answers never leave the two ends of their conversation, nor outlive it.
THEOREM Confined == Spec => []ReplyConfined
<1>1. IInv => ReplyConfined
  BY DEF IInv, Sound, ReplyConfined
<1> QED BY <1>1, BrokerInvariant, PTL

\* A reply request is answered at most once, however often it is repeated.
THEOREM Once == Spec => []AnsweredOnce
<1>1. IInv => AnsweredOnce
  BY DEF IInv, Timed, AnsweredOnce
<1> QED BY <1>1, BrokerInvariant, PTL

-----------------------------------------------------------------------------
(* What a step does to mail and conversations. *)

\* Mail is expired, cancelled or forgotten and nothing else becomes of it.
Housekept(d, e) ==
    /\ e.next = d.next /\ DOMAIN e.msgs \subseteq DOMAIN d.msgs
    /\ \A m \in DOMAIN d.msgs \ DOMAIN e.msgs : ~Active(d, m)
    /\ \A m \in DOMAIN e.msgs :
          /\ e.msgs[m].target = d.msgs[m].target
          /\ e.msgs[m].lease = d.msgs[m].lease /\ e.msgs[m].until = d.msgs[m].until
          /\ \/ e.msgs[m].status = d.msgs[m].status
             \/ Active(d, m) /\ e.msgs[m].status \in {"expired", "cancelled"}

\* Conversations are forgotten or closed, none is opened.
Ages(d, e) ==
    \A c \in DOMAIN e.convs :
        /\ c \in DOMAIN d.convs
        /\ e.convs[c].initiator = d.convs[c].initiator
        /\ e.convs[c].published = d.convs[c].published
        /\ e.convs[c].bus = d.convs[c].bus
        /\ e.convs[c].expires = d.convs[c].expires
        /\ d.convs[c].closed => e.convs[c].closed

LEMMA AgesTransitive ==
    ASSUME NEW d, NEW e, NEW g, Ages(d, e), Ages(e, g)
    PROVE  Ages(d, g)
BY DEF Ages

\* No message is deleted in the second step: one that was cancelled in the
\* first step stays on record.
LEMMA HousekeptTransitive ==
    ASSUME NEW d, NEW e, NEW g, Housekept(d, e), Housekept(e, g), DOMAIN g.msgs = DOMAIN e.msgs
    PROVE  Housekept(d, g)
BY DEF Housekept, Active, ACTIVE

LEMMA SameIsKept ==
    ASSUME NEW d, NEW e, e.msgs = d.msgs, e.next = d.next
    PROVE  Housekept(d, e)
BY DEF Housekept

LEMMA SameAges ==
    ASSUME NEW d, NEW e, e.convs = d.convs
    PROVE  Ages(d, e)
BY DEF Ages

-----------------------------------------------------------------------------
(* _expire and _cancel_invalid. *)

LEMMA PurgeRepliesSame ==
    ASSUME NEW d, IsDatabase(d), NEW t \in Nat
    PROVE  IsDatabase(PurgeReplies(d, t)) /\ SameExceptReplies(d, PurgeReplies(d, t))
<1> DEFINE S == {q \in DOMAIN d.replies : d.replies[q].at >= t - RECEIPT_RETENTION}
           f == [r \in S |-> d.replies[r]]
<1>1. f \in [S -> ReplyRow] /\ S \in SUBSET Requests
  BY DEF IsDatabase
<1>2. PurgeReplies(d, t) = [d EXCEPT !.replies = f]
  BY DEF PurgeReplies
<1> HIDE DEF S, f
<1> QED BY <1>1, <1>2, SetReplies

LEMMA PurgeAgentsSame ==
    ASSUME NEW d, IsDatabase(d), NEW t \in Nat
    PROVE  IsDatabase(PurgeAgents(d, t)) /\ SameExceptAgents(d, PurgeAgents(d, t))
<1> DEFINE S == {x \in DOMAIN d.agents : x \in Referenced(d) \/ d.agents[x] >= t - RECEIPT_RETENTION}
           f == [a \in S |-> d.agents[a]]
<1>1. f \in [S -> Nat] /\ S \in SUBSET Agents
  BY DEF IsDatabase
<1>2. PurgeAgents(d, t) = [d EXCEPT !.agents = f]
  BY DEF PurgeAgents
<1> HIDE DEF S, f
<1> QED BY <1>1, <1>2, SetAgents

LEMMA PurgeConversationsAges ==
    ASSUME NEW d, IsDatabase(d), NEW t \in Nat
    PROVE  LET e == PurgeConversations(d, t) IN
           IsDatabase(e) /\ SameExceptConvs(d, e) /\ Ages(d, e)
<1> DEFINE S == {x \in DOMAIN d.convs : \/ x \in {d.msgs[m].conv : m \in DOMAIN d.msgs}
                                        \/ d.convs[x].expires >= t - RECEIPT_RETENTION}
           f == [c \in S |-> d.convs[c]]
           e == PurgeConversations(d, t)
<1>1. f \in [S -> Conversation] /\ S \in SUBSET Ids /\ S \subseteq DOMAIN d.convs
  BY DEF IsDatabase
<1>2. e = [d EXCEPT !.convs = f]
  BY DEF PurgeConversations
<1>3. DOMAIN f = S /\ \A c \in S : f[c] = d.convs[c]
  OBVIOUS
<1> HIDE DEF S, f, e
<1>4. IsDatabase(e) /\ e.convs = f /\ SameExceptConvs(d, e)
  BY <1>1, <1>2, SetConvs
<1>5. Ages(d, e)
  BY <1>1, <1>3, <1>4 DEF Ages
<1> QED BY <1>4, <1>5 DEF e

\* What expires is dated now, so that its retention begins: the two statements
\* together never delete mail that waited.
LEMMA MessagesHousekept ==
    ASSUME NEW d, IsDatabase(d), NEW t \in Nat
    PROVE  LET e == PurgeMessages(ExpireMessages(d, t), t) IN
           IsDatabase(e) /\ SameExceptMsgs(d, e) /\ Housekept(d, e)
<1> DEFINE f == [m \in DOMAIN d.msgs |->
                    IF Active(d, m) /\ d.msgs[m].expires <= t
                    THEN [d.msgs[m] EXCEPT !.status = "expired", !.updated = t]
                    ELSE d.msgs[m]]
           c == ExpireMessages(d, t)
           S == {x \in DOMAIN c.msgs : Active(c, x) \/ c.msgs[x].updated >= t - RECEIPT_RETENTION}
           g == [m \in S |-> c.msgs[m]]
           e == PurgeMessages(c, t)
<1>1. f \in [DOMAIN d.msgs -> Message] /\ DOMAIN d.msgs \in SUBSET Ids
  BY ZenonT(60) DEF IsDatabase, Message, TERMINAL
<1>2. c = [d EXCEPT !.msgs = f] /\ e = [c EXCEPT !.msgs = g]
  BY DEF ExpireMessages, PurgeMessages
<1> HIDE DEF c, f
<1>3. IsDatabase(c) /\ c.msgs = f /\ SameExceptMsgs(d, c)
  BY <1>1, <1>2, SetMsgs
<1>4. g \in [S -> Message] /\ S \in SUBSET Ids
  BY <1>3 DEF IsDatabase
<1>5. DOMAIN g = S /\ \A m \in S : g[m] = c.msgs[m]
  OBVIOUS
<1>6. S \subseteq DOMAIN c.msgs
      /\ \A m \in DOMAIN c.msgs \ S : ~Active(c, m) /\ ~(c.msgs[m].updated >= t - RECEIPT_RETENTION)
  OBVIOUS
<1> HIDE DEF e, g, S
<1>7. IsDatabase(e) /\ e.msgs = g /\ SameExceptMsgs(c, e)
  BY <1>2, <1>3, <1>4, SetMsgs
<1>8. ASSUME NEW m \in DOMAIN d.msgs
      PROVE  /\ m \in DOMAIN c.msgs
             /\ c.msgs[m].target = d.msgs[m].target /\ c.msgs[m].lease = d.msgs[m].lease
             /\ c.msgs[m].until = d.msgs[m].until
             /\ \/ c.msgs[m] = d.msgs[m]
                \/ Active(d, m) /\ c.msgs[m].status = "expired" /\ c.msgs[m].updated = t
  <2>1. d.msgs[m] \in Message /\ m \in DOMAIN c.msgs
    BY <1>1, <1>3 DEF IsDatabase
  <2> DEFINE row == [d.msgs[m] EXCEPT !.status = "expired", !.updated = t]
  <2>2. /\ row.target = d.msgs[m].target /\ row.lease = d.msgs[m].lease /\ row.until = d.msgs[m].until
        /\ row.status = "expired" /\ row.updated = t
    BY <2>1 DEF Message
  <2>3. c.msgs[m] = IF Active(d, m) /\ d.msgs[m].expires <= t THEN row ELSE d.msgs[m]
    BY <1>3 DEF f
  <2> HIDE DEF row
  <2> QED BY <2>1, <2>2, <2>3
<1>9. DOMAIN c.msgs = DOMAIN d.msgs
  BY <1>3 DEF f
<1>10. ASSUME NEW m \in DOMAIN d.msgs, m \notin DOMAIN e.msgs PROVE ~Active(d, m)
  <2>1. m \in DOMAIN c.msgs /\ m \notin S
    BY <1>5, <1>7, <1>9, <1>10
  <2>2. ~Active(c, m) /\ ~(c.msgs[m].updated >= t - RECEIPT_RETENTION)
    BY <1>6, <2>1
  <2>3. t >= t - RECEIPT_RETENTION
    BY BusAssumption
  <2>4. c.msgs[m] = d.msgs[m]
    BY <1>8, <2>2, <2>3
  <2> QED BY <2>2, <2>4 DEF Active
<1>11. ASSUME NEW m \in DOMAIN e.msgs
       PROVE  m \in DOMAIN d.msgs /\ e.msgs[m] = c.msgs[m]
  BY <1>5, <1>6, <1>7, <1>9
<1>12. e.next = d.next
  BY <1>3, <1>7 DEF SameExceptMsgs
<1>13. Housekept(d, e)
  BY <1>8, <1>10, <1>11, <1>12 DEF Housekept
<1>14. SameExceptMsgs(d, e)
  BY <1>3, <1>7 DEF SameExceptMsgs, SameAdmission
<1> QED BY <1>7, <1>13, <1>14 DEF e, c

LEMMA ExpireHousekeeps ==
    ASSUME NEW d, IsDatabase(d), NEW t \in Nat
    PROVE  LET e == Expire(d, t) IN
           IsDatabase(e) /\ Housekept(d, e) /\ Ages(d, e) /\ SameAdmission(d, e)
<1> DEFINE d1 == PurgeReplies(d, t)
           d3 == PurgeMessages(ExpireMessages(d1, t), t)
           d4 == PurgeConversations(d3, t)
           e == PurgeAgents(d4, t)
<1>1. IsDatabase(d1) /\ SameExceptReplies(d, d1)
  BY PurgeRepliesSame
<1> HIDE DEF d1
<1>2. IsDatabase(d3) /\ SameExceptMsgs(d1, d3) /\ Housekept(d1, d3)
  BY <1>1, MessagesHousekept
<1> HIDE DEF d3
<1>3. IsDatabase(d4) /\ SameExceptConvs(d3, d4) /\ Ages(d3, d4)
  BY <1>2, PurgeConversationsAges
<1> HIDE DEF d4
<1>4. IsDatabase(e) /\ SameExceptAgents(d4, e)
  BY <1>3, PurgeAgentsSame
<1>5. Expire(d, t) = e
  BY DEF Expire, d1, d3, d4
<1> HIDE DEF e
<1>6. Housekept(d, e)
  <2>1. d1.msgs = d.msgs /\ d1.next = d.next /\ e.msgs = d3.msgs /\ e.next = d3.next
    BY <1>1, <1>3, <1>4 DEF SameExceptReplies, SameExceptConvs, SameExceptAgents
  <2> QED BY <1>2, <2>1 DEF Housekept, Active
<1>7. Ages(d, e)
  <2>1. d3.convs = d.convs /\ e.convs = d4.convs
    BY <1>1, <1>2, <1>4 DEF SameExceptReplies, SameExceptMsgs, SameExceptAgents
  <2> QED BY <1>3, <2>1 DEF Ages
<1>8. SameAdmission(d, e)
  BY <1>1, <1>2, <1>3, <1>4
     DEF SameAdmission, SameExceptReplies, SameExceptMsgs, SameExceptConvs, SameExceptAgents
<1> QED BY <1>4, <1>5, <1>6, <1>7, <1>8

LEMMA CancelHousekeeps ==
    ASSUME NEW d, IsDatabase(d), NEW t \in Nat
    PROVE  LET e == CancelInvalid(d, t) IN
           /\ IsDatabase(e) /\ Housekept(d, e) /\ DOMAIN e.msgs = DOMAIN d.msgs
           /\ Ages(d, e) /\ SameAdmission(d, e)
<1> DEFINE F == [c \in DOMAIN d.convs |->
                    IF ConversationValid(d, c, t) THEN d.convs[c]
                    ELSE [d.convs[c] EXCEPT !.closed = TRUE]]
           c1 == CloseInvalid(d, t)
           f == [m \in DOMAIN c1.msgs |->
                    IF Active(c1, m) /\ ~ConversationValid(c1, c1.msgs[m].conv, t)
                    THEN [c1.msgs[m] EXCEPT !.status = "cancelled", !.updated = t]
                    ELSE c1.msgs[m]]
           e == CancelPending(c1, t)
<1>1. F \in [DOMAIN d.convs -> Conversation] /\ DOMAIN d.convs \in SUBSET Ids
  BY DEF IsDatabase, Conversation
<1>2. c1 = [d EXCEPT !.convs = F] /\ e = [c1 EXCEPT !.msgs = f] /\ CancelInvalid(d, t) = e
  BY DEF CloseInvalid, CancelPending, CancelInvalid
<1> HIDE DEF F, c1
<1>3. IsDatabase(c1) /\ c1.convs = F /\ SameExceptConvs(d, c1)
  BY <1>1, <1>2, SetConvs
<1>4. f \in [DOMAIN c1.msgs -> Message] /\ DOMAIN c1.msgs \in SUBSET Ids
  <2>1. c1.msgs \in [DOMAIN c1.msgs -> Message] /\ DOMAIN c1.msgs \in SUBSET Ids
    BY <1>3 DEF IsDatabase
  <2>2. ASSUME NEW m \in DOMAIN c1.msgs
        PROVE  [c1.msgs[m] EXCEPT !.status = "cancelled", !.updated = t] \in Message
    BY <2>1 DEF Message, TERMINAL
  <2> QED BY <2>1, <2>2
<1> HIDE DEF f, e
<1>5. IsDatabase(e) /\ e.msgs = f /\ SameExceptMsgs(c1, e)
  BY <1>2, <1>3, <1>4, SetMsgs
<1>6. Ages(d, e)
  <2> SUFFICES ASSUME NEW c \in DOMAIN d.convs
               PROVE  /\ F[c].initiator = d.convs[c].initiator /\ F[c].published = d.convs[c].published
                      /\ F[c].bus = d.convs[c].bus /\ (d.convs[c].closed => F[c].closed)
                      /\ F[c].expires = d.convs[c].expires
    BY <1>1, <1>3, <1>5 DEF Ages, SameExceptMsgs
  <2>1. d.convs[c] \in Conversation
    BY DEF IsDatabase
  <2> QED BY <2>1 DEF F, Conversation
<1>7. DOMAIN e.msgs = DOMAIN d.msgs /\ c1.msgs = d.msgs /\ e.next = d.next
  BY <1>3, <1>4, <1>5 DEF SameExceptConvs, SameExceptMsgs
<1>8. ASSUME NEW m \in DOMAIN d.msgs
      PROVE  /\ e.msgs[m].target = d.msgs[m].target
             /\ e.msgs[m].lease = d.msgs[m].lease /\ e.msgs[m].until = d.msgs[m].until
             /\ \/ e.msgs[m].status = d.msgs[m].status
                \/ Active(d, m) /\ e.msgs[m].status \in {"expired", "cancelled"}
  <2>1. d.msgs[m] \in Message
    BY DEF IsDatabase
  <2> DEFINE row == [d.msgs[m] EXCEPT !.status = "cancelled", !.updated = t]
  <2>2. /\ row.target = d.msgs[m].target /\ row.lease = d.msgs[m].lease /\ row.until = d.msgs[m].until
        /\ row.status = "cancelled"
    BY <2>1 DEF Message
  <2>3. \/ e.msgs[m] = row /\ Active(d, m)
        \/ e.msgs[m] = d.msgs[m]
    BY <1>5, <1>7 DEF f, Active
  <2> HIDE DEF row
  <2> QED BY <2>2, <2>3
<1>9. Housekept(d, e)
  BY <1>7, <1>8 DEF Housekept
<1>10. SameAdmission(d, e)
  BY <1>3, <1>5 DEF SameExceptConvs, SameExceptMsgs, SameAdmission
<1> QED BY <1>2, <1>5, <1>6, <1>7, <1>9, <1>10

\* The two together, as most requests begin.
LEMMA BothHousekeep ==
    ASSUME NEW d, IsDatabase(d), NEW t \in Nat
    PROVE  LET e == CancelInvalid(Expire(d, t), t) IN
           IsDatabase(e) /\ Housekept(d, e) /\ Ages(d, e) /\ SameAdmission(d, e)
<1> DEFINE d1 == Expire(d, t)
           e == CancelInvalid(d1, t)
<1>1. IsDatabase(d1) /\ Housekept(d, d1) /\ Ages(d, d1) /\ SameAdmission(d, d1)
  BY ExpireHousekeeps
<1> HIDE DEF d1
<1>2. /\ IsDatabase(e) /\ Housekept(d1, e) /\ DOMAIN e.msgs = DOMAIN d1.msgs
      /\ Ages(d1, e) /\ SameAdmission(d1, e)
  BY <1>1, CancelHousekeeps
<1> HIDE DEF e
<1> QED BY <1>1, <1>2, HousekeptTransitive, AgesTransitive DEF SameAdmission, e, d1

-----------------------------------------------------------------------------
(* What each request comes to. *)

\* No mail is sent, leased or settled and no conversation is opened.
Quiet == IsDatabase(db') /\ Housekept(db, db') /\ Ages(db, db') /\ now' = now

Publishes == db.members \subseteq db'.members
Unpublished == db'.members = db.members

LEMMA SameThenKept ==
    ASSUME NEW d, NEW e, NEW g, e.msgs = d.msgs, e.convs = d.convs, e.next = d.next
    PROVE  /\ Housekept(e, g) /\ Ages(e, g) => Housekept(d, g) /\ Ages(d, g)
           /\ Housekept(g, d) /\ Ages(g, d) => Housekept(g, e) /\ Ages(g, e)
BY DEF Housekept, Ages, Active

LEMMA NowAndDatabase == IInv => now \in Nat /\ IsDatabase(db)
BY NowNat DEF IInv, Sound

LEMMA ReadsAreQuiet ==
    ASSUME IInv,
           \/ \E p \in Principals : Read(p)
           \/ \E a \in Agents, m \in Ids, k \in Keys : ReplyAgain(a, m, k)
           \/ \E p \in Principals, m \in Ids : Receipt(p, m)
    PROVE  Quiet /\ Unpublished
<1>1. now \in Nat /\ IsDatabase(db)
  BY NowAndDatabase
<1>2. /\ now' = now
      /\ db' = Expire(db, now) \/ db' = CancelInvalid(Expire(db, now), now)
  BY DEF Read, ReplyAgain, Receipt
<1>3. CASE db' = Expire(db, now)
  BY <1>1, <1>2, <1>3, ExpireHousekeeps DEF Quiet, Unpublished, SameAdmission
<1>4. CASE db' = CancelInvalid(Expire(db, now), now)
  BY <1>1, <1>2, <1>4, BothHousekeep DEF Quiet, Unpublished, SameAdmission
<1> QED BY <1>2, <1>3, <1>4

LEMMA ArrivalsAreQuiet ==
    ASSUME IInv,
           \/ \E a \in Agents, b \in Buses : Register(a, b)
           \/ \E a \in Agents : Identify(a)
           \/ \E p \in Principals, A \in SUBSET Agents : Heartbeat(p, A)
    PROVE  Quiet /\ Publishes
<1> DEFINE d1 == Expire(db, now)
<1>1. now \in Nat /\ IsDatabase(db)
  BY NowAndDatabase
<1>2. IsDatabase(d1) /\ Housekept(db, d1) /\ Ages(db, d1) /\ SameAdmission(db, d1)
  BY <1>1, ExpireHousekeeps
<1>3. PICK A \in SUBSET Agents :
        /\ now' = now
        /\ \/ db' = Touch(d1, A, now)
           \/ \E x \in Agents \X Buses : db' = [Touch(d1, A, now) EXCEPT !.members = @ \cup {x}]
  BY DEF Register, Identify, Heartbeat
<1> DEFINE e == Touch(d1, A, now)
<1> HIDE DEF d1
<1>4. IsDatabase(e) /\ e.msgs = d1.msgs /\ e.convs = d1.convs /\ e.next = d1.next /\ SameAdmission(d1, e)
  BY <1>1, <1>2, TouchWidens DEF Widens
<1> HIDE DEF e
<1>5. Housekept(db, e) /\ Ages(db, e)
  BY <1>2, <1>4, SameThenKept
<1>6. CASE db' = e
  BY <1>2, <1>3, <1>4, <1>5, <1>6 DEF Quiet, Publishes, SameAdmission
<1>7. ASSUME NEW x \in Agents \X Buses, db' = [e EXCEPT !.members = @ \cup {x}]
      PROVE  Quiet /\ Publishes
  <2>1. db' = [principals |-> e.principals, revoked |-> e.revoked, grants |-> e.grants,
               agents |-> e.agents, members |-> e.members \cup {x}, msgs |-> e.msgs,
               convs |-> e.convs, replies |-> e.replies, next |-> e.next]
    BY <1>4, <1>7 DEF IsDatabase
  <2>2. IsDatabase(db')
    BY <1>4, <2>1 DEF IsDatabase
  <2>3. db'.msgs = e.msgs /\ db'.convs = e.convs /\ db'.next = e.next /\ e.members \subseteq db'.members
    BY <2>1
  <2>4. Housekept(db, db') /\ Ages(db, db')
    BY <1>5, <2>3, SameThenKept
  <2> QED BY <1>2, <1>3, <1>4, <2>2, <2>3, <2>4 DEF Quiet, Publishes, SameAdmission
<1> QED BY <1>3, <1>6, <1>7 DEF e

LEMMA ArrivalsPublish ==
    ASSUME IInv
    PROVE  /\ \A a \in Agents, b \in Buses :
                 Register(a, b) => db'.members = db.members \cup {<<a, b>>}
           /\ \A a \in Agents : Identify(a) => Unpublished
           /\ \A p \in Principals, A \in SUBSET Agents : Heartbeat(p, A) => Unpublished
<1> DEFINE d1 == Expire(db, now)
<1>1. now \in Nat /\ IsDatabase(db)
  BY NowAndDatabase
<1>2. IsDatabase(d1) /\ SameAdmission(db, d1)
  BY <1>1, ExpireHousekeeps
<1>3. ASSUME NEW A \in SUBSET Agents
      PROVE  /\ IsDatabase(Touch(d1, A, now)) /\ Touch(d1, A, now).members = db.members
             /\ \A M : [Touch(d1, A, now) EXCEPT !.members = M].members = M
  <2> DEFINE e == Touch(d1, A, now)
  <2> HIDE DEF d1
  <2>1. IsDatabase(e) /\ SameAdmission(d1, e)
    BY <1>1, <1>2, TouchWidens DEF Widens
  <2> HIDE DEF e
  <2>2. \A M : [e EXCEPT !.members = M].members = M
    BY <2>1 DEF IsDatabase
  <2> QED BY <1>2, <2>1, <2>2 DEF e, SameAdmission
<1>4. ASSUME NEW a \in Agents, NEW b \in Buses, Register(a, b)
      PROVE  db'.members = db.members \cup {<<a, b>>}
  <2>1. db' = [Touch(d1, {a}, now) EXCEPT !.members = @ \cup {<<a, b>>}]
    BY <1>4 DEF Register
  <2> HIDE DEF d1
  <2> QED BY <1>3, <2>1
<1>5. ASSUME NEW a \in Agents, Identify(a) PROVE Unpublished
  BY <1>3, <1>5 DEF Identify, Unpublished
<1>6. ASSUME NEW p \in Principals, NEW A \in SUBSET Agents, Heartbeat(p, A) PROVE Unpublished
  BY <1>3, <1>6 DEF Heartbeat, Unpublished
<1> QED BY <1>4, <1>5, <1>6

LEMMA RedeemIsQuiet ==
    ASSUME IInv, NEW p \in Principals, NEW b \in Buses, Redeem(p, b)
    PROVE  Quiet /\ Unpublished
<1> DEFINE P == db.principals \cup {p}
           G == db.grants \cup {<<p, b>>}
           d1 == [db EXCEPT !.principals = P, !.grants = G]
<1>1. now \in Nat /\ IsDatabase(db)
  BY NowAndDatabase
<1>2. db' = Expire(d1, now) /\ now' = now
  BY DEF Redeem
<1>a. d1 = [db EXCEPT !.principals = P, !.grants = G]
  OBVIOUS
<1> HIDE DEF P, G, d1
<1>3. d1 = [principals |-> P, revoked |-> db.revoked, grants |-> G, agents |-> db.agents,
            members |-> db.members, msgs |-> db.msgs, convs |-> db.convs,
            replies |-> db.replies, next |-> db.next]
  BY <1>1, <1>a DEF IsDatabase
<1>4. IsDatabase(d1)
  BY <1>1, <1>3 DEF IsDatabase, P, G
<1>5. d1.msgs = db.msgs /\ d1.convs = db.convs /\ d1.next = db.next /\ d1.members = db.members
  BY <1>3
<1>6. IsDatabase(db') /\ Housekept(d1, db') /\ Ages(d1, db') /\ SameAdmission(d1, db')
  BY <1>1, <1>2, <1>4, ExpireHousekeeps
<1>7. Housekept(db, db') /\ Ages(db, db')
  BY <1>5, <1>6, SameThenKept
<1> QED BY <1>2, <1>5, <1>6, <1>7 DEF Quiet, Unpublished, SameAdmission

\* A request that takes away admissions or publications and then cancels.
LEMMA WithdrawnIsQuiet ==
    ASSUME IInv, NEW d1, IsDatabase(d1), Housekept(db, d1), Ages(db, d1),
           NEW R \in SUBSET Principals, NEW G \in SUBSET (Principals \X Buses),
           NEW M \in SUBSET (Agents \X Buses),
           db' = CancelInvalid([d1 EXCEPT !.revoked = R, !.grants = G, !.members = M], now),
           now' = now
    PROVE  Quiet /\ db'.members = M /\ db'.revoked = R
<1> DEFINE d2 == [d1 EXCEPT !.revoked = R, !.grants = G, !.members = M]
<1>1. now \in Nat
  BY NowAndDatabase
<1>a. d2 = [d1 EXCEPT !.revoked = R, !.grants = G, !.members = M]
  OBVIOUS
<1>3. db' = CancelInvalid(d2, now)
  OBVIOUS
<1> HIDE DEF d2
<1>2. d2 = [principals |-> d1.principals, revoked |-> R, grants |-> G, agents |-> d1.agents,
            members |-> M, msgs |-> d1.msgs, convs |-> d1.convs,
            replies |-> d1.replies, next |-> d1.next]
  BY <1>a DEF IsDatabase
<1>4. IsDatabase(d2)
  BY <1>2 DEF IsDatabase
<1>5. /\ d2.msgs = d1.msgs /\ d2.convs = d1.convs /\ d2.next = d1.next
      /\ d2.members = M /\ d2.revoked = R
  BY <1>2
<1>6. Housekept(db, d2) /\ Ages(db, d2)
  BY <1>5, SameThenKept
<1>7. /\ IsDatabase(db') /\ Housekept(d2, db') /\ DOMAIN db'.msgs = DOMAIN d2.msgs
      /\ Ages(d2, db') /\ SameAdmission(d2, db')
  BY <1>1, <1>3, <1>4, CancelHousekeeps
<1> QED BY <1>5, <1>6, <1>7, HousekeptTransitive, AgesTransitive DEF Quiet, SameAdmission

LEMMA WithdrawIs ==
    ASSUME IInv, NEW P \in SUBSET Principals, NEW b \in Buses, Withdraw(P, b)
    PROVE  /\ Quiet /\ db'.members \subseteq db.members
           /\ \A x \in db.members \ db'.members : x[2] # General
<1> DEFINE d1 == Expire(db, now)
           R == d1.revoked
           G == d1.grants \ (P \X {b})
           M == {x \in d1.members : ~(x[2] = b /\ Owner[x[1]] \in P)}
<1>1. now \in Nat /\ IsDatabase(db)
  BY NowAndDatabase
<1>2. IsDatabase(d1) /\ Housekept(db, d1) /\ Ages(db, d1) /\ SameAdmission(db, d1)
  BY <1>1, ExpireHousekeeps
<1>3. b # General /\ now' = now /\ db' = CancelInvalid([d1 EXCEPT !.grants = G, !.members = M], now)
  BY DEF Withdraw, WithdrawAccess
<1> HIDE DEF d1
<1>4. /\ R \in SUBSET Principals /\ G \in SUBSET (Principals \X Buses)
      /\ M \in SUBSET (Agents \X Buses)
  BY <1>2 DEF IsDatabase
<1>5. M \subseteq d1.members /\ \A x \in d1.members \ M : x[2] = b
  OBVIOUS
<1> HIDE DEF G, M
<1>6. [d1 EXCEPT !.grants = G, !.members = M] = [d1 EXCEPT !.revoked = R, !.grants = G, !.members = M]
  BY <1>2 DEF IsDatabase
<1>8. db' = CancelInvalid([d1 EXCEPT !.revoked = R, !.grants = G, !.members = M], now)
  BY <1>3, <1>6
<1> HIDE DEF R
<1>7. Quiet /\ db'.members = M
  BY <1>2, <1>3, <1>4, <1>8, WithdrawnIsQuiet
<1> QED BY <1>2, <1>3, <1>5, <1>7 DEF SameAdmission

LEMMA RevokeIs ==
    ASSUME IInv, NEW p \in Principals, Revoke(p)
    PROVE  /\ Quiet /\ db'.members \subseteq db.members
           /\ \A x \in db.members \ db'.members : Owner[x[1]] \in db'.revoked
<1> DEFINE d1 == Expire(db, now)
           R == d1.revoked \cup {p}
           G == {x \in d1.grants : x[1] # p}
           M == {x \in d1.members : Owner[x[1]] # p}
<1>1. now \in Nat /\ IsDatabase(db)
  BY NowAndDatabase
<1>2. IsDatabase(d1) /\ Housekept(db, d1) /\ Ages(db, d1) /\ SameAdmission(db, d1)
  BY <1>1, ExpireHousekeeps
<1>3. /\ now' = now
      /\ db' = CancelInvalid([d1 EXCEPT !.revoked = R, !.grants = G, !.members = M], now)
  BY DEF Revoke
<1> HIDE DEF d1
<1>4. /\ R \in SUBSET Principals /\ G \in SUBSET (Principals \X Buses)
      /\ M \in SUBSET (Agents \X Buses)
  BY <1>2 DEF IsDatabase
<1>5. p \in R /\ M \subseteq d1.members /\ \A x \in d1.members \ M : Owner[x[1]] = p
  OBVIOUS
<1> HIDE DEF R, G, M
<1>6. Quiet /\ db'.members = M /\ db'.revoked = R
  BY <1>2, <1>3, <1>4, WithdrawnIsQuiet
<1> QED BY <1>2, <1>5, <1>6 DEF SameAdmission

LEMMA LeaveIs ==
    ASSUME IInv, NEW p \in Principals, NEW a \in Agents, NEW b \in Buses, Leave(p, a, b)
    PROVE  /\ Quiet /\ db'.members = db.members \ {<<a, b>>}
           /\ \A c \in DOMAIN db'.convs :
                 db'.convs[c].bus = b /\ a \in {db'.convs[c].initiator, db'.convs[c].published}
                    => db'.convs[c].closed
<1> DEFINE d1 == Expire(db, now)
           f == [c \in DOMAIN d1.convs |->
                   IF d1.convs[c].bus = b /\ a \in {d1.convs[c].initiator, d1.convs[c].published}
                   THEN [d1.convs[c] EXCEPT !.closed = TRUE] ELSE d1.convs[c]]
           M == d1.members \ {<<a, b>>}
           d2 == Unpublish(d1, a, b)
<1>1. now \in Nat /\ IsDatabase(db)
  BY NowAndDatabase
<1>2. IsDatabase(d1) /\ Housekept(db, d1) /\ Ages(db, d1) /\ SameAdmission(db, d1)
  BY <1>1, ExpireHousekeeps
<1>3. db' = CancelInvalid(d2, now) /\ now' = now
  BY DEF Leave
<1> HIDE DEF d1
<1>4. d2 = [d1 EXCEPT !.members = M, !.convs = f]
  BY DEF Unpublish
<1>5. IsDatabase(d2)
  BY <1>2, UnpublishNarrows
<1> HIDE DEF f, M, d2
<1>6. d2 = [principals |-> d1.principals, revoked |-> d1.revoked, grants |-> d1.grants,
            agents |-> d1.agents, members |-> M, msgs |-> d1.msgs, convs |-> f,
            replies |-> d1.replies, next |-> d1.next]
  BY <1>2, <1>4 DEF IsDatabase
<1>7. d2.msgs = d1.msgs /\ d2.next = d1.next /\ d2.convs = f /\ d2.members = M
  BY <1>6
<1>8. ASSUME NEW c \in DOMAIN f
      PROVE  /\ c \in DOMAIN d1.convs
             /\ f[c].initiator = d1.convs[c].initiator /\ f[c].published = d1.convs[c].published
             /\ f[c].bus = d1.convs[c].bus /\ f[c].expires = d1.convs[c].expires
             /\ d1.convs[c].closed => f[c].closed
             /\ f[c].bus = b /\ a \in {f[c].initiator, f[c].published} => f[c].closed
  <2>1. c \in DOMAIN d1.convs /\ d1.convs[c] \in Conversation
    BY <1>2 DEF f, IsDatabase
  <2> DEFINE row == [d1.convs[c] EXCEPT !.closed = TRUE]
  <2>2. /\ row.initiator = d1.convs[c].initiator /\ row.published = d1.convs[c].published
        /\ row.bus = d1.convs[c].bus /\ row.expires = d1.convs[c].expires /\ row.closed
    BY <2>1 DEF Conversation
  <2>3. f[c] = IF d1.convs[c].bus = b /\ a \in {d1.convs[c].initiator, d1.convs[c].published}
               THEN row ELSE d1.convs[c]
    BY <2>1 DEF f
  <2> HIDE DEF row
  <2> QED BY <2>1, <2>2, <2>3
<1>9. Housekept(db, d2) /\ Ages(db, d2)
  BY <1>2, <1>7, <1>8 DEF Housekept, Ages
<1>10. /\ IsDatabase(db') /\ Housekept(d2, db') /\ DOMAIN db'.msgs = DOMAIN d2.msgs
       /\ Ages(d2, db') /\ SameAdmission(d2, db')
  BY <1>1, <1>3, <1>5, CancelHousekeeps
<1>11. Quiet
  BY <1>3, <1>9, <1>10, HousekeptTransitive, AgesTransitive DEF Quiet
<1>12. db'.members = db.members \ {<<a, b>>}
  BY <1>2, <1>7, <1>10 DEF SameAdmission, M
<1>13. \A c \in DOMAIN db'.convs :
         db'.convs[c].bus = b /\ a \in {db'.convs[c].initiator, db'.convs[c].published}
            => db'.convs[c].closed
  BY <1>7, <1>8, <1>10 DEF Ages
<1> QED BY <1>11, <1>12, <1>13

\* One message joins the mail of d, and at most the conversation it opens.
Appends(d) ==
    /\ now' = now /\ db'.next = db.next + 1 /\ db'.members = db.members
    /\ db.next \notin DOMAIN db.msgs \cup DOMAIN db.convs
    /\ DOMAIN db'.msgs = DOMAIN d.msgs \cup {db.next}
    /\ \A m \in DOMAIN d.msgs : db'.msgs[m] = d.msgs[m]
    /\ LET row == db'.msgs[db.next] IN
       row.target \in Agents /\ row.status = "accepted" /\ row.lease = 0 /\ row.until = 0
    /\ \A c \in DOMAIN db'.convs \ {db.next} : c \in DOMAIN d.convs /\ db'.convs[c] = d.convs[c]

LEMMA EnqueueIs ==
    ASSUME NEW d, IsDatabase(d), NEW row, d.next \notin DOMAIN d.msgs
    PROVE  LET e == Enqueue(d, row) IN
           /\ e.next = d.next + 1 /\ e.members = d.members /\ e.convs = d.convs
           /\ DOMAIN e.msgs = DOMAIN d.msgs \cup {d.next} /\ e.msgs[d.next] = row
           /\ \A m \in DOMAIN d.msgs : e.msgs[m] = d.msgs[m]
           /\ e = [e EXCEPT !.replies = e.replies]
           /\ \A R : LET g == [e EXCEPT !.replies = R] IN
                 g.next = e.next /\ g.members = e.members /\ g.convs = e.convs /\ g.msgs = e.msgs
<1> DEFINE f == [m \in DOMAIN d.msgs \cup {d.next} |-> IF m = d.next THEN row ELSE d.msgs[m]]
           e == Enqueue(d, row)
<1>1. e = [d EXCEPT !.msgs = f, !.next = d.next + 1]
  BY DEF Enqueue
<1>2. /\ DOMAIN f = DOMAIN d.msgs \cup {d.next} /\ f[d.next] = row
      /\ \A m \in DOMAIN d.msgs : f[m] = d.msgs[m]
  OBVIOUS
<1> HIDE DEF f, e
<1>3. e = [principals |-> d.principals, revoked |-> d.revoked, grants |-> d.grants,
           agents |-> d.agents, members |-> d.members, msgs |-> f,
           convs |-> d.convs, replies |-> d.replies, next |-> d.next + 1]
  BY <1>1 DEF IsDatabase
<1>4. e.msgs = f /\ e.convs = d.convs /\ e.members = d.members /\ e.next = d.next + 1
  BY <1>3
<1>5. ASSUME NEW R
      PROVE  LET g == [e EXCEPT !.replies = R] IN
             g.next = e.next /\ g.members = e.members /\ g.convs = e.convs /\ g.msgs = e.msgs
  BY <1>3
<1>6. e = [e EXCEPT !.replies = e.replies]
  BY <1>3
<1> QED BY <1>2, <1>4, <1>5, <1>6 DEF e

\* What Send and Reply start from.
LEMMA BothReady ==
    ASSUME IInv
    PROVE  LET d2 == CancelInvalid(Expire(db, now), now) IN
           /\ now \in Nat /\ IsDatabase(d2) /\ Housekept(db, d2) /\ Ages(db, d2)
           /\ SameAdmission(db, d2) /\ d2.next = db.next
           /\ db.next \notin DOMAIN db.msgs \cup DOMAIN db.convs
           /\ db.next \notin DOMAIN d2.msgs
<1>1. now \in Nat /\ IsDatabase(db) /\ IdsFresh(db)
  BY NowAndDatabase DEF IInv, Sound
<1>2. db.next \notin DOMAIN db.msgs \cup DOMAIN db.convs
  BY <1>1 DEF IdsFresh, IsDatabase
<1> QED BY <1>1, <1>2, BothHousekeep DEF Housekept

LEMMA SendAppends ==
    ASSUME IInv, NEW a \in Agents, NEW target \in Agents, NEW b \in Buses, Send(a, target, b)
    PROVE  /\ Appends(CancelInvalid(Expire(db, now), now))
           /\ db'.msgs[db.next].conv = db.next
<1> DEFINE d2 == CancelInvalid(Expire(db, now), now)
           row == NewMessage(a, target, b, db.next, now + MESSAGE_TTL, NoKey, now)
           conv == [initiator |-> a, published |-> target, bus |-> b,
                    expires |-> now + MESSAGE_TTL, closed |-> FALSE]
           f == [c \in DOMAIN d2.convs \cup {d2.next} |-> IF c = d2.next THEN conv ELSE d2.convs[c]]
           c1 == OpenConversation(d2, a, target, b, now)
<1>1. db' = Enqueue(c1, row) /\ now' = now /\ db.next <= MaxId
  BY DEF Send
<1>2. /\ now \in Nat /\ IsDatabase(d2) /\ Housekept(db, d2) /\ Ages(db, d2)
      /\ SameAdmission(db, d2) /\ d2.next = db.next
      /\ db.next \notin DOMAIN db.msgs \cup DOMAIN db.convs
      /\ db.next \notin DOMAIN d2.msgs
  BY BothReady
<1> HIDE DEF d2
<1>3. /\ row.target = target /\ row.status = "accepted" /\ row.lease = 0 /\ row.until = 0
      /\ row.conv = db.next
  BY DEF NewMessage
<1>4. c1 = [d2 EXCEPT !.convs = f]
  BY DEF OpenConversation
<1>5. /\ conv \in Conversation /\ DOMAIN d2.convs \cup {d2.next} \in SUBSET Ids
      /\ d2.convs \in [DOMAIN d2.convs -> Conversation]
  BY <1>1, <1>2, BusAssumption DEF Conversation, IsDatabase, Ids
<1> HIDE DEF row, conv
<1>6. f \in [DOMAIN d2.convs \cup {d2.next} -> Conversation]
  BY <1>5
<1>7. \A c \in DOMAIN f \ {d2.next} : c \in DOMAIN d2.convs /\ f[c] = d2.convs[c]
  OBVIOUS
<1> HIDE DEF f, c1
<1>8. IsDatabase(c1) /\ c1.convs = f /\ SameExceptConvs(d2, c1)
  BY <1>2, <1>4, <1>5, <1>6, SetConvs
<1>9. c1.next = db.next /\ c1.msgs = d2.msgs /\ c1.members = db.members
  BY <1>2, <1>8 DEF SameExceptConvs, SameAdmission
<1>10. /\ db'.next = c1.next + 1 /\ db'.members = c1.members /\ db'.convs = c1.convs
       /\ DOMAIN db'.msgs = DOMAIN c1.msgs \cup {c1.next} /\ db'.msgs[c1.next] = row
       /\ \A m \in DOMAIN c1.msgs : db'.msgs[m] = c1.msgs[m]
  BY <1>1, <1>2, <1>8, <1>9, EnqueueIs
<1>11. Appends(d2)
  BY <1>1, <1>2, <1>3, <1>7, <1>8, <1>9, <1>10 DEF Appends
<1> QED BY <1>3, <1>9, <1>10, <1>11 DEF d2

LEMMA ReplyAppends ==
    ASSUME IInv, NEW a \in Agents, NEW m \in Ids, NEW k \in Keys \cup {NoKey}, Reply(a, m, k)
    PROVE  Appends(CancelInvalid(Expire(db, now), now))
<1> DEFINE d1 == Expire(db, now)
           d2 == CancelInvalid(d1, now)
           req == IF k = NoKey THEN NoKey ELSE <<a, m, k>>
           row == NewMessage(a, d2.msgs[m].sender, d2.msgs[m].bus, d2.msgs[m].conv,
                             d2.convs[d2.msgs[m].conv].expires, req, now)
           d3 == Enqueue(d2, row)
<1>1. /\ now' = now /\ m \in DOMAIN d1.msgs
      /\ db' = IF k = NoKey THEN d3 ELSE RememberReply(d3, req, db.next, now)
  BY DEF Reply, EnqueueReply
<1>2. /\ now \in Nat /\ IsDatabase(d2) /\ Housekept(db, d2) /\ Ages(db, d2)
      /\ SameAdmission(db, d2) /\ d2.next = db.next
      /\ db.next \notin DOMAIN db.msgs \cup DOMAIN db.convs
      /\ db.next \notin DOMAIN d2.msgs
  BY BothReady
<1>3. m \in DOMAIN d2.msgs
  BY <1>1, NowAndDatabase, ExpireHousekeeps, CancelInvalidKeepsRows
<1> HIDE DEF d1, d2
<1>4. row.target = d2.msgs[m].sender /\ row.status = "accepted" /\ row.lease = 0 /\ row.until = 0
  BY DEF NewMessage
<1>5. d2.msgs[m].sender \in Agents
  BY <1>2, <1>3 DEF IsDatabase, Message
<1> HIDE DEF row
<1>6. /\ d3.next = d2.next + 1 /\ d3.members = d2.members /\ d3.convs = d2.convs
      /\ DOMAIN d3.msgs = DOMAIN d2.msgs \cup {d2.next} /\ d3.msgs[d2.next] = row
      /\ \A x \in DOMAIN d2.msgs : d3.msgs[x] = d2.msgs[x]
      /\ d3 = [d3 EXCEPT !.replies = d3.replies]
      /\ \A R : LET g == [d3 EXCEPT !.replies = R] IN
            g.next = d3.next /\ g.members = d3.members /\ g.convs = d3.convs /\ g.msgs = d3.msgs
  BY <1>2, EnqueueIs
<1> HIDE DEF d3
<1>7. \E R : db' = [d3 EXCEPT !.replies = R]
  BY <1>1, <1>6 DEF RememberReply
<1>8. db'.next = d3.next /\ db'.members = d3.members /\ db'.convs = d3.convs /\ db'.msgs = d3.msgs
  BY <1>6, <1>7
<1>9. Appends(d2)
  BY <1>1, <1>2, <1>4, <1>5, <1>6, <1>8 DEF Appends, SameAdmission
<1> QED BY <1>9 DEF d2, d1

\* Messages of d to agents in A are leased, heads whose lease is free.
LeasesFor(d, A) ==
    /\ now' = now /\ db'.next = db.next /\ db'.members = db.members /\ db'.convs = d.convs
    /\ DOMAIN db'.msgs = DOMAIN d.msgs
    /\ \A m \in DOMAIN d.msgs :
          \/ db'.msgs[m] = d.msgs[m]
          \/ /\ m \in Heads(d, A, now)
             /\ db'.msgs[m].target = d.msgs[m].target /\ db'.msgs[m].status = "leased"
             /\ db'.msgs[m].lease = d.msgs[m].lease + 1 /\ db'.msgs[m].until > now
Leases(d) == \E A \in SUBSET Agents : LeasesFor(d, A)

LEMMA PollLeases ==
    ASSUME IInv, NEW p \in Principals, NEW A \in SUBSET Agents, Poll(p, A)
    PROVE  LeasesFor(CancelInvalid(Expire(db, now), now), A)
<1> DEFINE d2 == CancelInvalid(Expire(db, now), now)
           S == Fetched(d2, A, now)
           f == [m \in DOMAIN d2.msgs |->
                    IF m \in S
                    THEN [d2.msgs[m] EXCEPT !.status = "leased", !.lease = d2.msgs[m].lease + 1,
                                            !.until = now + LEASE_TTL, !.updated = now]
                    ELSE d2.msgs[m]]
<1>1. db' = LeaseAll(d2, S, now) /\ now' = now
  BY DEF Poll
<1>2. now \in Nat /\ IsDatabase(d2) /\ SameAdmission(db, d2) /\ d2.next = db.next
  BY BothReady
<1> HIDE DEF d2
<1>3. S \subseteq Heads(d2, A, now)
  BY DEF Fetched
<1>4. db' = [d2 EXCEPT !.msgs = f]
  BY <1>1 DEF LeaseAll
<1> HIDE DEF S
<1>5. ASSUME NEW m \in DOMAIN d2.msgs
      PROVE  \/ f[m] = d2.msgs[m]
             \/ /\ m \in Heads(d2, A, now)
                /\ f[m].target = d2.msgs[m].target /\ f[m].status = "leased"
                /\ f[m].lease = d2.msgs[m].lease + 1 /\ f[m].until > now
  <2> DEFINE row == [d2.msgs[m] EXCEPT !.status = "leased", !.lease = d2.msgs[m].lease + 1,
                                       !.until = now + LEASE_TTL, !.updated = now]
  <2>1. d2.msgs[m] \in Message /\ now + LEASE_TTL > now
    BY <1>2, BusAssumption DEF IsDatabase
  <2>2. /\ row.status = "leased" /\ row.target = d2.msgs[m].target
        /\ row.lease = d2.msgs[m].lease + 1 /\ row.until = now + LEASE_TTL
    BY <2>1 DEF Message
  <2>3. f[m] = IF m \in S THEN row ELSE d2.msgs[m]
    OBVIOUS
  <2> HIDE DEF row, f
  <2> QED BY <1>3, <2>1, <2>2, <2>3
<1>6. DOMAIN f = DOMAIN d2.msgs
  OBVIOUS
<1> HIDE DEF f
<1>7. /\ db'.msgs = f /\ db'.convs = d2.convs /\ db'.next = d2.next /\ db'.members = d2.members
  BY <1>2, <1>4 DEF IsDatabase
<1>8. LeasesFor(d2, A)
  BY <1>1, <1>2, <1>5, <1>6, <1>7 DEF LeasesFor, SameAdmission
<1> QED BY <1>8 DEF d2

\* The lease of message m of d is settled with outcome st.
SettlesLease(d, m, st) ==
    /\ now' = now /\ db'.next = db.next /\ db'.members = db.members /\ db'.convs = d.convs
    /\ m \in DOMAIN d.msgs /\ d.msgs[m].status = "leased" /\ d.msgs[m].until > now
    /\ DOMAIN db'.msgs = DOMAIN d.msgs
    /\ \A x \in DOMAIN d.msgs \ {m} : db'.msgs[x] = d.msgs[x]
    /\ db'.msgs[m].target = d.msgs[m].target /\ db'.msgs[m].lease = d.msgs[m].lease
    /\ db'.msgs[m].until = d.msgs[m].until /\ db'.msgs[m].status = st

LEMMA AckSettles ==
    ASSUME IInv, NEW a \in Agents, NEW m \in Ids, NEW l, NEW st \in Outcomes, Ack(a, m, l, st)
    PROVE  LET d2 == CancelInvalid(Expire(db, now), now) IN
           \/ Quiet /\ Unpublished
           \/ SettlesLease(d2, m, st)
<1> DEFINE d1 == Expire(db, now)
           d2 == CancelInvalid(d1, now)
           row == [d2.msgs[m] EXCEPT !.status = st, !.updated = now]
           f == [d2.msgs EXCEPT ![m] = row]
<1>1. /\ now' = now /\ m \in DOMAIN d1.msgs
      /\ \/ db' = d2
         \/ /\ d2.msgs[m].status = "leased" /\ d2.msgs[m].until > now
            /\ db' = Settle(d2, m, st, now)
  BY DEF Ack, Settles
<1>2. /\ now \in Nat /\ IsDatabase(d2) /\ Housekept(db, d2) /\ Ages(db, d2)
      /\ SameAdmission(db, d2) /\ d2.next = db.next
  BY BothReady
<1>3. m \in DOMAIN d2.msgs
  BY <1>1, NowAndDatabase, ExpireHousekeeps, CancelInvalidKeepsRows
<1> HIDE DEF d1, d2
<1>4. CASE db' = d2
  BY <1>1, <1>2, <1>4 DEF Quiet, Unpublished, SameAdmission
<1>5. ASSUME d2.msgs[m].status = "leased", d2.msgs[m].until > now, db' = Settle(d2, m, st, now)
      PROVE  SettlesLease(d2, m, st)
  <2>1. db' = [d2 EXCEPT !.msgs = f]
    BY <1>5 DEF Settle
  <2>2. d2.msgs[m] \in Message /\ d2.msgs \in [DOMAIN d2.msgs -> Message]
    BY <1>2, <1>3 DEF IsDatabase
  <2>3. /\ row.status = st /\ row.target = d2.msgs[m].target /\ row.lease = d2.msgs[m].lease
        /\ row.until = d2.msgs[m].until
    BY <2>2 DEF Message
  <2> HIDE DEF row
  <2>4. /\ DOMAIN f = DOMAIN d2.msgs /\ f[m] = row
        /\ \A x \in DOMAIN d2.msgs \ {m} : f[x] = d2.msgs[x]
    BY <1>3, <2>2
  <2> HIDE DEF f
  <2>5. db'.msgs = f /\ db'.convs = d2.convs /\ db'.next = d2.next /\ db'.members = d2.members
    BY <1>2, <2>1 DEF IsDatabase
  <2> QED BY <1>1, <1>2, <1>3, <1>5, <2>3, <2>4, <2>5 DEF SettlesLease, SameAdmission
<1> QED BY <1>1, <1>4, <1>5 DEF d2, d1

-----------------------------------------------------------------------------
(* A request or a tick of the clock is one of these kinds. *)

Base == CancelInvalid(Expire(db, now), now)

LEMMA StepKinds ==
    ASSUME IInv, [Next]_vars
    PROVE  \/ Quiet
           \/ Appends(Base)
           \/ Leases(Base)
           \/ \E m \in Ids, st \in Outcomes : SettlesLease(Base, m, st)
           \/ Tick
<1>1. CASE Messaging
  BY <1>1, ReadsAreQuiet, SendAppends, ReplyAppends, PollLeases, AckSettles
     DEF Messaging, Base, Leases
<1>2. CASE Admission
  BY <1>2, ArrivalsAreQuiet, RedeemIsQuiet, WithdrawIs, RevokeIs, LeaveIs DEF Admission
<1>3. CASE UNCHANGED vars
  <2>1. db' = db /\ now' = now /\ IsDatabase(db)
    BY <1>3, NowAndDatabase DEF vars
  <2>2. Housekept(db, db') /\ Ages(db, db') /\ IsDatabase(db')
    BY <2>1, SameIsKept, SameAges
  <2> QED BY <2>1, <2>2 DEF Quiet
<1> QED BY <1>1, <1>2, <1>3 DEF Next

LEMMA BaseIs ==
    ASSUME IInv
    PROVE  /\ now \in Nat /\ IsDatabase(Base) /\ Housekept(db, Base) /\ Ages(db, Base)
           /\ SameAdmission(db, Base) /\ Base.next = db.next
BY BothReady DEF Base

\* Time and ids go on, and a conversation on record was there before, with the
\* same end and no more open, unless the step opened it.
LEMMA Onward ==
    ASSUME IInv, [Next]_vars
    PROVE  /\ now' \in Nat /\ now' >= now /\ db.next \in Nat /\ db'.next >= db.next
           /\ \A c \in DOMAIN db'.convs \ {db.next} :
                 /\ c \in DOMAIN db.convs /\ db'.convs[c].expires = db.convs[c].expires
                 /\ db.convs[c].closed => db'.convs[c].closed
<1>1. now \in Nat /\ db.next \in Nat
  BY NowAndDatabase DEF IsDatabase
<1>2. CASE Quiet
  BY <1>1, <1>2 DEF Quiet, Ages, Housekept
<1>3. CASE Tick
  BY <1>1, <1>3 DEF Tick
<1>4. CASE Appends(Base)
  BY <1>1, <1>4, BaseIs DEF Appends, Ages
<1>5. CASE Leases(Base)
  BY <1>1, <1>5, BaseIs DEF Leases, LeasesFor, Ages
<1>6. ASSUME NEW m \in Ids, NEW st \in Outcomes, SettlesLease(Base, m, st)
      PROVE  /\ now' = now /\ db'.next = db.next
             /\ \A c \in DOMAIN db'.convs :
                   /\ c \in DOMAIN db.convs /\ db'.convs[c].expires = db.convs[c].expires
                   /\ db.convs[c].closed => db'.convs[c].closed
  BY <1>1, <1>6, BaseIs DEF SettlesLease, Ages
<1> QED BY <1>1, <1>2, <1>3, <1>4, <1>5, <1>6, StepKinds

\* Only register publishes.
LEMMA NobodyElsePublishes ==
    ASSUME IInv,
           \/ Messaging
           \/ \E a \in Agents : Identify(a)
           \/ \E p \in Principals, A \in SUBSET Agents : Heartbeat(p, A)
           \/ \E p \in Principals, a \in Agents, b \in Buses : Leave(p, a, b)
           \/ \E p \in Principals, b \in Buses : Redeem(p, b)
           \/ \E P \in SUBSET Principals, b \in Buses : Withdraw(P, b)
           \/ Tick \/ UNCHANGED vars
    PROVE  db'.members \subseteq db.members
<1>1. CASE Messaging
  BY <1>1, ReadsAreQuiet, SendAppends, ReplyAppends, PollLeases, AckSettles
     DEF Messaging, Unpublished, Appends, LeasesFor, SettlesLease
<1>2. CASE Tick \/ UNCHANGED vars
  BY <1>2 DEF Tick, vars
<1> QED BY <1>1, <1>2, ArrivalsPublish, RedeemIsQuiet, WithdrawIs, LeaveIs DEF Unpublished

\* Closing is for good: no request or tick reopens a conversation that stays on
\* record, in particular not a redeem or a register that restores what was lost.
THEOREM NeverReopened == Spec => ClosedForGood
<1> DEFINE Never == \A c \in Kept(db.convs, db'.convs) : db.convs[c].closed => db'.convs[c].closed
<1>1. ASSUME IInv, [Next]_vars PROVE Never
  <2>1. CASE Quiet
    BY <2>1 DEF Quiet, Ages, Kept
  <2>2. CASE Tick
    BY <2>2 DEF Tick, Kept
  <2>3. CASE Appends(Base)
    BY <1>1, <2>3, BaseIs DEF Appends, Ages, Kept
  <2>4. CASE Leases(Base)
    BY <1>1, <2>4, BaseIs DEF Leases, LeasesFor, Ages, Kept
  <2>5. ASSUME NEW m \in Ids, NEW st \in Outcomes, SettlesLease(Base, m, st) PROVE Never
    BY <1>1, <2>5, BaseIs DEF SettlesLease, Ages, Kept
  <2> QED BY <1>1, <2>1, <2>2, <2>3, <2>4, <2>5, StepKinds
<1>2. IInv /\ [Next]_vars => [Never]_vars
  BY <1>1
<1> QED BY <1>2, BrokerInvariant, PTL DEF Spec, ClosedForGood

\* Whoever stops being published on a bus, by its own leave, by a withdrawn
\* admission or by a revoked device, has no open conversation left there.
THEOREM LeavesNothingOpen == Spec => UnpublishedEnds
<1> DEFINE EndsOn(x, c) == /\ db'.convs[c].bus = x[2]
                           /\ x[1] \in {db'.convs[c].initiator, db'.convs[c].published}
           Ended == \A x \in db.members \ db'.members : \A c \in DOMAIN db'.convs :
                       db'.convs[c].bus = x[2] /\ x[1] \in {db'.convs[c].initiator, db'.convs[c].published}
                          => db'.convs[c].closed
<1>1. ASSUME IInv, IInv', [Next]_vars PROVE Ended
  <2>0. /\ \A x \in db.members : x[1] \in Agents /\ x = <<x[1], x[2]>>
        /\ \A c \in DOMAIN db'.convs : db'.convs[c].closed \/ Admitted(db', c)
    BY <1>1 DEF IInv, Sound, IsDatabase, Open, OpenAreAdmitted
  <2>1. CASE db.members \subseteq db'.members
    BY <2>1
  <2>2. ASSUME NEW P \in SUBSET Principals, NEW b \in Buses, Withdraw(P, b) PROVE Ended
    <3> SUFFICES ASSUME NEW x \in db.members \ db'.members, NEW c \in DOMAIN db'.convs,
                        EndsOn(x, c), ~db'.convs[c].closed
                 PROVE  FALSE
      OBVIOUS
    <3>1. x[2] # General
      BY <1>1, <2>2, WithdrawIs
    <3>2. Member(db', x[1], x[2])
      BY <2>0, <3>1 DEF Admitted
    <3> QED BY <2>0, <3>2 DEF Member
  <2>3. ASSUME NEW p \in Principals, Revoke(p) PROVE Ended
    <3> SUFFICES ASSUME NEW x \in db.members \ db'.members, NEW c \in DOMAIN db'.convs,
                        EndsOn(x, c), ~db'.convs[c].closed
                 PROVE  FALSE
      OBVIOUS
    <3>1. Owner[x[1]] \in db'.revoked
      BY <1>1, <2>3, RevokeIs
    <3>2. Granted(db', Owner[x[1]], x[2])
      BY <2>0 DEF Admitted, Member
    <3> QED BY <3>1, <3>2 DEF Granted
  <2>4. ASSUME NEW p \in Principals, NEW a \in Agents, NEW b \in Buses, Leave(p, a, b) PROVE Ended
    <3>1. /\ db'.members = db.members \ {<<a, b>>}
          /\ \A c \in DOMAIN db'.convs :
                db'.convs[c].bus = b /\ a \in {db'.convs[c].initiator, db'.convs[c].published}
                   => db'.convs[c].closed
      BY <1>1, <2>4, LeaveIs
    <3> QED BY <3>1
  <2>5. CASE Messaging
    BY <1>1, <2>1, <2>5, ReadsAreQuiet, SendAppends, ReplyAppends, PollLeases, AckSettles
       DEF Messaging, Unpublished, Appends, LeasesFor, SettlesLease
  <2>6. CASE Admission
    BY <1>1, <2>1, <2>2, <2>3, <2>4, <2>6, ArrivalsAreQuiet, RedeemIsQuiet DEF Admission, Publishes, Unpublished
  <2>7. CASE Tick \/ UNCHANGED vars
    BY <2>1, <2>7 DEF Tick, vars
  <2> QED BY <1>1, <2>5, <2>6, <2>7 DEF Next
<1>2. IInv /\ IInv' /\ [Next]_vars => [Ended]_vars
  BY <1>1
<1> QED BY <1>2, BrokerInvariant, PTL DEF Spec, UnpublishedEnds

-----------------------------------------------------------------------------
(* The broker is a MailQueue. *)

\* What a fetching worker sees of message m of database d at time t.
Seen(d, t, m) ==
    [target |-> d.msgs[m].target, status |-> d.msgs[m].status,
     lease |-> d.msgs[m].lease, held |-> d.msgs[m].until > t]

BoxOf(d, t) == [m \in DOMAIN d.msgs |-> Seen(d, t, m)]

QueueStep == [Queue!QueueNext]_(Queue!qvars)

LEMMA SeenIs ==
    ASSUME NEW d, NEW t, NEW m
    PROVE  /\ Seen(d, t, m).target = d.msgs[m].target /\ Seen(d, t, m).status = d.msgs[m].status
           /\ Seen(d, t, m).lease = d.msgs[m].lease
           /\ Seen(d, t, m).held <=> d.msgs[m].until > t
BY DEF Seen

LEMMA BoxIs == Box = BoxOf(db, now) /\ Box' = BoxOf(db', now')
BY DEF Box, BoxOf, Seen

LEMMA HousekeepingIsSeen ==
    ASSUME NEW d, NEW e, NEW t, Housekept(d, e)
    PROVE  Queue!Housekeeping(BoxOf(d, t), BoxOf(e, t))
<1> DEFINE b == BoxOf(d, t)
           c == BoxOf(e, t)
<1>1. /\ DOMAIN b = DOMAIN d.msgs /\ DOMAIN c = DOMAIN e.msgs
      /\ \A m \in DOMAIN b : b[m] = Seen(d, t, m)
      /\ \A m \in DOMAIN c : c[m] = Seen(e, t, m)
  BY DEF BoxOf
<1> HIDE DEF b, c
<1>2. ASSUME NEW m \in DOMAIN b \ DOMAIN c PROVE ~Queue!IsWaiting(b, m)
  <2>1. m \in DOMAIN d.msgs \ DOMAIN e.msgs /\ b[m].status = d.msgs[m].status
    BY <1>1, SeenIs
  <2> QED BY <2>1 DEF Housekept, Active, ACTIVE, Queue!IsWaiting, Queue!Waiting
<1>3. ASSUME NEW m \in DOMAIN c
      PROVE  \/ c[m] = b[m]
             \/ /\ Queue!IsWaiting(b, m) /\ c[m].status \in Queue!Dropped
                /\ c[m] = [b[m] EXCEPT !.status = c[m].status]
  <2>1. /\ m \in DOMAIN d.msgs /\ b[m] = Seen(d, t, m) /\ c[m] = Seen(e, t, m)
        /\ e.msgs[m].target = d.msgs[m].target /\ e.msgs[m].lease = d.msgs[m].lease
        /\ e.msgs[m].until = d.msgs[m].until
        /\ \/ e.msgs[m].status = d.msgs[m].status
           \/ Active(d, m) /\ e.msgs[m].status \in {"expired", "cancelled"}
    BY <1>1 DEF Housekept
  <2>2. CASE e.msgs[m].status = d.msgs[m].status
    BY <2>1, <2>2 DEF Seen
  <2>3. CASE Active(d, m) /\ e.msgs[m].status \in {"expired", "cancelled"}
    BY <2>1, <2>3 DEF Seen, Active, ACTIVE, Queue!IsWaiting, Queue!Waiting, Queue!Dropped
  <2> QED BY <2>1, <2>2, <2>3
<1>4. DOMAIN c \subseteq DOMAIN b
  BY <1>1 DEF Housekept
<1> QED BY <1>2, <1>3, <1>4 DEF Queue!Housekeeping, b, c

LEMMA QuietKeeps ==
    ASSUME IInv, Quiet
    PROVE  QueueStep
<1>1. Queue!Housekeeping(Box, Box') /\ db'.next = db.next
  BY BoxIs, HousekeepingIsSeen DEF Quiet, Housekept
<1> QED BY <1>1 DEF QueueStep, Queue!QueueNext, Queue!Keep

LEMMA AppendAccepts ==
    ASSUME IInv, Appends(Base)
    PROVE  QueueStep
<1> DEFINE d == Base
           n == db.next
           c == [m \in DOMAIN Box' \ {n} |-> Box'[m]]
<1>1. IsDatabase(d) /\ Housekept(db, d)
  BY BaseIs
<1>2. /\ now' = now /\ db'.next = n + 1 /\ n \notin DOMAIN db.msgs
      /\ DOMAIN db'.msgs = DOMAIN d.msgs \cup {n}
      /\ \A m \in DOMAIN d.msgs : db'.msgs[m] = d.msgs[m]
      /\ db'.msgs[n].target \in Agents /\ db'.msgs[n].status = "accepted"
      /\ db'.msgs[n].lease = 0 /\ db'.msgs[n].until = 0
  BY DEF Appends
<1>3. n \notin DOMAIN d.msgs /\ now \in Nat
  BY <1>1, <1>2, BaseIs DEF Housekept
<1> HIDE DEF d, n
<1>4. /\ DOMAIN Box = DOMAIN db.msgs /\ DOMAIN Box' = DOMAIN db'.msgs
      /\ \A m \in DOMAIN Box' : Box'[m] = Seen(db', now, m)
  BY <1>2, BoxIs DEF BoxOf
<1>5. c = BoxOf(d, now)
  BY <1>2, <1>3, <1>4 DEF BoxOf, Seen
<1>6. Queue!Housekeeping(Box, c)
  BY <1>1, <1>5, BoxIs, HousekeepingIsSeen
<1>7. n \in DOMAIN Box' \ DOMAIN Box
  BY <1>2, <1>4
<1>8. Box'[n] = [target |-> db'.msgs[n].target, status |-> "accepted", lease |-> 0, held |-> FALSE]
  <2> DEFINE h == db'.msgs[n].until > now
  <2>1. h = FALSE
    BY <1>2, <1>3
  <2>2. Box'[n] = [target |-> db'.msgs[n].target, status |-> db'.msgs[n].status,
                   lease |-> db'.msgs[n].lease, held |-> h]
    BY <1>4, <1>7 DEF Seen
  <2> HIDE DEF h
  <2> QED BY <1>2, <2>1, <2>2
<1>9. Box'[n].target = db'.msgs[n].target
  BY <1>8
<1>10. Queue!Accept
  BY <1>2, <1>6, <1>7, <1>8, <1>9 DEF Queue!Accept, n
<1> QED BY <1>10 DEF QueueStep, Queue!QueueNext

\* The queue's notation for a message that is fetched and for a lease that lapses.
LeasedRow(b, l) == [b EXCEPT !.status = "leased", !.lease = l, !.held = TRUE]
LapsedRow(b) == [b EXCEPT !.held = FALSE]
IsRow(b) == b = [target |-> b.target, status |-> b.status, lease |-> b.lease, held |-> b.held]

LEMMA RowsSeen ==
    ASSUME NEW b, IsRow(b), NEW l
    PROVE  /\ LeasedRow(b, l) = [target |-> b.target, status |-> "leased", lease |-> l, held |-> TRUE]
           /\ LapsedRow(b) = [target |-> b.target, status |-> b.status, lease |-> b.lease,
                              held |-> FALSE]
<1> DEFINE e == [b EXCEPT !.status = "leased", !.lease = l, !.held = TRUE]
           g == [b EXCEPT !.held = FALSE]
<1>1. b = [f \in {"target", "status", "lease", "held"} |-> b[f]]
  BY DEF IsRow
<1>2. /\ e = [f \in {"target", "status", "lease", "held"} |-> e[f]]
      /\ g = [f \in {"target", "status", "lease", "held"} |-> g[f]]
  BY <1>1
<1>3. e.target = b.target /\ e.status = "leased" /\ e.lease = l /\ e.held = TRUE
  BY <1>1
<1>4. g.target = b.target /\ g.status = b.status /\ g.lease = b.lease /\ g.held = FALSE
  BY <1>1
<1>5. e = LeasedRow(b, l) /\ g = LapsedRow(b)
  BY DEF LeasedRow, LapsedRow
<1> HIDE DEF e, g
<1>6. e = [target |-> b.target, status |-> "leased", lease |-> l, held |-> TRUE]
  BY <1>2, <1>3
<1>7. g = [target |-> b.target, status |-> b.status, lease |-> b.lease, held |-> FALSE]
  BY <1>2, <1>4
<1> QED BY <1>5, <1>6, <1>7

LEMMA LeasesLease ==
    ASSUME IInv, Leases(Base)
    PROVE  QueueStep
<1> DEFINE d == Base
           new == {m \in DOMAIN Box \cap DOMAIN Box' : Box'[m].lease # Box[m].lease}
           kept == [m \in DOMAIN Box' |-> IF m \in new THEN Box[m] ELSE Box'[m]]
<1>1. IsDatabase(d) /\ Housekept(db, d) /\ now \in Nat
  BY BaseIs
<1>2. now' = now /\ db'.next = db.next /\ DOMAIN db'.msgs = DOMAIN d.msgs
  BY DEF Leases, LeasesFor
<1>3. PICK A \in SUBSET Agents : \A m \in DOMAIN d.msgs :
          \/ db'.msgs[m] = d.msgs[m]
          \/ /\ m \in Heads(d, A, now)
             /\ db'.msgs[m].target = d.msgs[m].target /\ db'.msgs[m].status = "leased"
             /\ db'.msgs[m].lease = d.msgs[m].lease + 1 /\ db'.msgs[m].until > now
  BY DEF Leases, LeasesFor
<1> HIDE DEF d
<1>4. /\ DOMAIN Box = DOMAIN db.msgs /\ DOMAIN Box' = DOMAIN d.msgs
      /\ \A m \in DOMAIN Box : Box[m] = Seen(db, now, m)
      /\ \A m \in DOMAIN Box' : Box'[m] = Seen(db', now, m)
      /\ DOMAIN d.msgs \subseteq DOMAIN db.msgs
  BY <1>1, <1>2, BoxIs DEF BoxOf, Housekept
<1>5. ASSUME NEW m \in DOMAIN d.msgs
      PROVE  /\ m \in new => /\ m \in Heads(d, A, now) /\ Box[m] = Seen(d, now, m)
                             /\ db'.msgs[m].target = d.msgs[m].target
                             /\ db'.msgs[m].status = "leased" /\ db'.msgs[m].until > now
             /\ m \notin new => Box'[m] = Seen(d, now, m)
  <2>1. d.msgs[m].lease = db.msgs[m].lease /\ d.msgs[m].lease \in Nat
    BY <1>1 DEF Housekept, IsDatabase, Message
  <2>2. Box'[m].lease = db'.msgs[m].lease /\ Box[m].lease = d.msgs[m].lease
    BY <1>4, <2>1, SeenIs
  <2>3. CASE db'.msgs[m] = d.msgs[m]
    <3>1. m \notin new
      BY <2>2, <2>3
    <3>2. Box'[m] = Seen(d, now, m)
      BY <1>4, <2>3 DEF Seen
    <3> QED BY <3>1, <3>2
  <2>4. CASE /\ m \in Heads(d, A, now)
             /\ db'.msgs[m].target = d.msgs[m].target /\ db'.msgs[m].status = "leased"
             /\ db'.msgs[m].lease = d.msgs[m].lease + 1 /\ db'.msgs[m].until > now
    <3>1. m \in new
      BY <1>4, <2>1, <2>2, <2>4
    <3>2. Active(d, m)
      BY <2>4 DEF Heads
    <3>3. /\ d.msgs[m].status = db.msgs[m].status /\ d.msgs[m].target = db.msgs[m].target
          /\ d.msgs[m].until = db.msgs[m].until
      BY <1>1, <3>2 DEF Housekept, Active, ACTIVE
    <3>4. Box[m] = Seen(d, now, m)
      BY <1>4, <2>1, <3>3 DEF Seen
    <3> QED BY <2>4, <3>1, <3>4
  <2> QED BY <1>3, <2>3, <2>4
<1>6. new \subseteq DOMAIN d.msgs
  BY <1>4
<1>7. kept = BoxOf(d, now)
  BY <1>4, <1>5 DEF BoxOf
<1> HIDE DEF new, kept
<1>8. Queue!Housekeeping(Box, kept)
  BY <1>1, <1>7, BoxIs, HousekeepingIsSeen
<1>9. DOMAIN kept = DOMAIN d.msgs /\ \A m \in DOMAIN d.msgs : kept[m] = Seen(d, now, m)
  BY <1>7 DEF BoxOf
<1>10. ASSUME NEW m \in new
       PROVE  /\ Queue!IsHead(kept, m) /\ ~Queue!IsHeld(kept, m)
              /\ Box'[m] = [Box[m] EXCEPT !.status = "leased", !.lease = Box'[m].lease, !.held = TRUE]
  <2>1. /\ m \in DOMAIN d.msgs /\ m \in Heads(d, A, now) /\ Box[m] = Seen(d, now, m)
        /\ Box'[m] = Seen(db', now, m) /\ kept[m] = Seen(d, now, m)
        /\ db'.msgs[m].target = d.msgs[m].target
        /\ db'.msgs[m].status = "leased" /\ db'.msgs[m].until > now
    BY <1>4, <1>5, <1>6, <1>9
  <2>2. /\ Active(d, m) /\ (d.msgs[m].status = "accepted" \/ d.msgs[m].until <= now)
        /\ \A e \in Pending(d, d.msgs[m].target) : m <= e
    BY <2>1 DEF Heads
  <2>3. d.msgs[m].until \in Nat
    BY <1>1, <2>1 DEF IsDatabase, Message
  <2>4. ~Queue!IsHeld(kept, m)
    <3>1. kept[m].status = d.msgs[m].status /\ (kept[m].held <=> d.msgs[m].until > now)
      BY <2>1, SeenIs
    <3> QED BY <1>1, <2>2, <2>3, <3>1 DEF Queue!IsHeld
  <2>5. Queue!IsHead(kept, m)
    <3>1. \A e \in DOMAIN kept :
            /\ e \in DOMAIN d.msgs
            /\ kept[e].status = d.msgs[e].status /\ kept[e].target = d.msgs[e].target
      BY <1>9, SeenIs
    <3> QED BY <1>9, <2>1, <2>2, <3>1
            DEF Queue!IsHead, Queue!IsWaiting, Queue!Waiting, Pending, Active, ACTIVE
  <2> DEFINE h == d.msgs[m].until > now
             l == db'.msgs[m].lease
  <2>6. Box'[m] = [target |-> d.msgs[m].target, status |-> "leased", lease |-> l, held |-> TRUE]
    BY <2>1 DEF Seen
  <2>7. Box'[m].lease = l
    BY <2>6
  <2>8. Box[m] = [target |-> d.msgs[m].target, status |-> d.msgs[m].status,
                  lease |-> d.msgs[m].lease, held |-> h]
    BY <2>1 DEF Seen
  <2> HIDE DEF l, h
  <2>9. Box'[m] = [Box[m] EXCEPT !.status = "leased", !.lease = l, !.held = TRUE]
    <3>1. IsRow(Box[m]) /\ Box[m].target = d.msgs[m].target
      BY <2>8 DEF IsRow
    <3>2. Box'[m] = LeasedRow(Box[m], l)
      BY <2>6, <3>1, RowsSeen
    <3> QED BY <3>2 DEF LeasedRow
  <2> QED BY <2>4, <2>5, <2>7, <2>9
<1>11. DOMAIN Box' \subseteq DOMAIN Box
  BY <1>4
<1>12. Queue!Lease
  BY <1>2, <1>8, <1>10, <1>11 DEF Queue!Lease, new, kept
<1> QED BY <1>12 DEF QueueStep, Queue!QueueNext

LEMMA SettlesSettle ==
    ASSUME IInv, NEW m \in Ids, NEW st \in Outcomes, SettlesLease(Base, m, st)
    PROVE  QueueStep
<1> DEFINE d == Base
           c == [x \in DOMAIN Box' |-> IF x = m THEN Box[m] ELSE Box'[x]]
<1>1. IsDatabase(d) /\ Housekept(db, d) /\ now \in Nat
  BY BaseIs
<1>2. /\ now' = now /\ db'.next = db.next
      /\ m \in DOMAIN d.msgs /\ d.msgs[m].status = "leased" /\ d.msgs[m].until > now
      /\ DOMAIN db'.msgs = DOMAIN d.msgs
      /\ \A x \in DOMAIN d.msgs \ {m} : db'.msgs[x] = d.msgs[x]
      /\ db'.msgs[m].target = d.msgs[m].target /\ db'.msgs[m].lease = d.msgs[m].lease
      /\ db'.msgs[m].until = d.msgs[m].until /\ db'.msgs[m].status = st
  BY DEF SettlesLease
<1> HIDE DEF d
<1>3. /\ DOMAIN Box = DOMAIN db.msgs /\ DOMAIN Box' = DOMAIN d.msgs
      /\ \A x \in DOMAIN Box : Box[x] = Seen(db, now, x)
      /\ \A x \in DOMAIN Box' : Box'[x] = Seen(db', now, x)
      /\ DOMAIN d.msgs \subseteq DOMAIN db.msgs
  BY <1>1, <1>2, BoxIs DEF BoxOf, Housekept
<1>4. /\ db.msgs[m].status = "leased" /\ db.msgs[m].until = d.msgs[m].until
      /\ db.msgs[m].target = d.msgs[m].target /\ db.msgs[m].lease = d.msgs[m].lease
  BY <1>1, <1>2 DEF Housekept
<1>5. Box[m] = Seen(d, now, m)
  BY <1>2, <1>3, <1>4 DEF Seen
<1>6. c = BoxOf(d, now)
  BY <1>2, <1>3, <1>5 DEF BoxOf, Seen
<1> HIDE DEF c
<1>7. Queue!Housekeeping(Box, c)
  BY <1>1, <1>6, BoxIs, HousekeepingIsSeen
<1>8. Queue!IsHeld(Box, m)
  <2>1. Box[m].status = d.msgs[m].status /\ (Box[m].held <=> d.msgs[m].until > now)
    BY <1>5, SeenIs
  <2> QED BY <1>2, <2>1 DEF Queue!IsHeld
<1>9. Box'[m].status = st /\ Box'[m] = [Box[m] EXCEPT !.status = st]
  BY <1>2, <1>3, <1>5 DEF Seen
<1>10. m \in DOMAIN Box \cap DOMAIN Box'
  BY <1>2, <1>3
<1>11. Queue!Settle
  BY <1>2, <1>7, <1>8, <1>9, <1>10 DEF Queue!Settle, c
<1> QED BY <1>11 DEF QueueStep, Queue!QueueNext

LEMMA TickLapses ==
    ASSUME IInv, Tick
    PROVE  QueueStep
<1>1. db' = db /\ now' = now + 1 /\ now \in Nat /\ IsDatabase(db)
  BY NowAndDatabase DEF Tick
<1>2. /\ DOMAIN Box' = DOMAIN Box
      /\ \A m \in DOMAIN Box : Box[m] = Seen(db, now, m) /\ Box'[m] = Seen(db, now + 1, m)
  BY <1>1, BoxIs DEF BoxOf
<1>3. ASSUME NEW m \in DOMAIN Box
      PROVE  Box'[m] = Box[m] \/ Box'[m] = [Box[m] EXCEPT !.held = FALSE]
  <2>1. db.msgs[m].until \in Nat
    BY <1>1, <1>3, BoxIs DEF BoxOf, IsDatabase, Message
  <2> DEFINE h == db.msgs[m].until > now
             g == db.msgs[m].until > now + 1
  <2>2. g = h \/ g = FALSE
    BY <1>1, <2>1
  <2>3. /\ Box[m] = [target |-> db.msgs[m].target, status |-> db.msgs[m].status,
                     lease |-> db.msgs[m].lease, held |-> h]
        /\ Box'[m] = [target |-> db.msgs[m].target, status |-> db.msgs[m].status,
                      lease |-> db.msgs[m].lease, held |-> g]
    BY <1>2, <1>3 DEF Seen
  <2> HIDE DEF h, g
  <2>4. CASE g = h
    BY <2>3, <2>4
  <2>5. CASE g = FALSE
    <3>1. /\ IsRow(Box[m])
          /\ Box[m].target = db.msgs[m].target /\ Box[m].status = db.msgs[m].status
          /\ Box[m].lease = db.msgs[m].lease
      BY <2>3 DEF IsRow
    <3>2. Box'[m] = LapsedRow(Box[m])
      BY <2>3, <2>5, <3>1, RowsSeen
    <3> QED BY <3>2 DEF LapsedRow
  <2> QED BY <2>2, <2>4, <2>5
<1>4. Queue!Lapse
  BY <1>1, <1>2, <1>3 DEF Queue!Lapse
<1> QED BY <1>4 DEF QueueStep, Queue!QueueNext

\* The broker implements the queue its workers rely on: whatever requests arrive,
\* what a fetch can see changes only by expiry, cancellation and retention, one
\* accepted message, leases of free heads, one settled lease, or the clock.
THEOREM BrokerIsAQueue == Spec => ImplementsQueue
<1>1. Init => Queue!QueueInit
  BY DEF Init, Queue!QueueInit, Box
<1>2. ASSUME IInv, [Next]_vars PROVE QueueStep
  BY <1>2, StepKinds, QuietKeeps, AppendAccepts, LeasesLease, SettlesSettle, TickLapses
<1> QED BY <1>1, <1>2, BrokerInvariant, PTL DEF Spec, ImplementsQueue, Queue!QueueSpec, QueueStep

-----------------------------------------------------------------------------
(* The device's registrations and the broker (BusAdapters). *)

RegsTyped ==
    /\ regs \in [DOMAIN regs -> Adapter] /\ DOMAIN regs \subseteq Sessions
    /\ cmd \in [Sessions -> Todo]
    /\ told \subseteq Sessions \X Ids
    /\ astray \subseteq Sessions
    /\ faults \in 0..MaxFaults

PolledFor(a) == IF a \in DOMAIN regs THEN regs[a].buses ELSE {}

\* A response that is still to be written down lists at least what the broker
\* does now; a session that has none to write is polled for all it lists.
KnownHere(a) ==
    /\ cmd[a].op \in {"register", "identify"} => PublishedOn(db, a) \subseteq cmd[a].buses
    /\ a \notin astray /\ cmd[a].op # "register" => PublishedOn(db, a) \subseteq PolledFor(a)
    /\ cmd[a].op = "leave" => cmd[a].bus \notin PublishedOn(db, a)

\* A session that waits for an answer has an adapter, and its response says
\* when the conversation ends.
AnswerDue(a) ==
    /\ cmd[a].op \in {"identified", "retain"} => a \in DOMAIN regs
    /\ cmd[a].op = "retain" =>
          /\ cmd[a].conv < db.next
          /\ cmd[a].conv \in DOMAIN db.convs => db.convs[cmd[a].conv].expires = cmd[a].expires

Reached(x) ==
    /\ x[2] < db.next
    /\ x[2] \in DOMAIN db.convs /\ ~db.convs[x[2]].closed /\ db.convs[x[2]].expires > now =>
          x[1] \in DOMAIN regs /\ regs[x[1]].reply_until >= db.convs[x[2]].expires

AInv ==
    /\ IInv
    /\ RegsTyped
    /\ \A a \in Sessions : KnownHere(a) /\ AnswerDue(a)
    /\ \A x \in told : Reached(x)

-----------------------------------------------------------------------------
(* Every step of the device is a step of the broker. *)

LEMMA SessionsAre ==
    /\ Sessions \subseteq Agents /\ Device \in Principals /\ Admins \subseteq Principals
    /\ \A a \in Sessions : Owner[a] = Device
    /\ \A a \in Agents : Owner[a] \in Principals
BY AdapterAssumption, BusAssumption DEF Sessions

LEMMA ActiveAreHere ==
    ASSUME RegsTyped
    PROVE  ActiveAdapters \subseteq DOMAIN regs /\ DOMAIN regs \subseteq Sessions
BY DEF ActiveAdapters, RegsTyped

LEMMA CommandsUseBroker ==
    ASSUME Commands
    PROVE  Next \/ UNCHANGED vars
<1>1. PICK a \in Sessions :
          \/ IdentifyRequest(a) \/ RememberAdapter(a) \/ RetainReplyAdapter(a)
          \/ ForgetBus(a) \/ Die(a)
          \/ \E b \in Buses : RegisterRequest(a, b) \/ LeaveRequest(a, b)
          \/ \E target \in Agents, b \in Buses : SendRequest(a, target, b)
          \/ \E m \in Ids, k \in Keys \cup {NoKey} : ReplyRequest(a, m, k)
  BY DEF Commands
<1>2. CASE RememberAdapter(a) \/ RetainReplyAdapter(a) \/ ForgetBus(a) \/ Die(a)
  BY <1>2 DEF RememberAdapter, RetainReplyAdapter, ForgetBus, Die, vars
<1>3. a \in Agents /\ Device \in Principals
  BY SessionsAre
<1>4. CASE IdentifyRequest(a)
  BY <1>3, <1>4 DEF IdentifyRequest, Next, Admission
<1>5. CASE \E b \in Buses : RegisterRequest(a, b) \/ LeaveRequest(a, b)
  BY <1>3, <1>5 DEF RegisterRequest, LeaveRequest, Next, Admission
<1>6. CASE \E target \in Agents, b \in Buses : SendRequest(a, target, b)
  BY <1>3, <1>6 DEF SendRequest, Next, Messaging
<1>7. CASE \E m \in Ids, k \in Keys \cup {NoKey} : ReplyRequest(a, m, k)
  BY <1>3, <1>7 DEF ReplyRequest, Next, Messaging
<1> QED BY <1>1, <1>2, <1>4, <1>5, <1>6, <1>7

LEMMA DeliveryUsesBroker ==
    ASSUME RegsTyped, Delivery
    PROVE  Messaging \/ \E p \in Principals, A \in SUBSET Agents : Heartbeat(p, A)
<1>1. Sessions \subseteq Agents /\ Device \in Principals /\ ActiveAdapters \in SUBSET Agents
  BY SessionsAre, ActiveAreHere
<1>2. ASSUME NEW A \in SUBSET Sessions, WorkerPoll(A) PROVE Messaging
  <2>1. A \in SUBSET Agents /\ Poll(Device, A)
    BY <1>1, <1>2 DEF WorkerPoll
  <2> QED BY <1>1, <2>1 DEF Messaging
<1>3. CASE WorkerHeartbeat
  BY <1>1, <1>3 DEF WorkerHeartbeat
<1>4. ASSUME NEW a \in Sessions, NEW m \in Ids, NEW l \in 1..(MaxTime + 1), NEW st \in Outcomes,
             WorkerAck(a, m, l, st)
      PROVE  Messaging
  <2>1. a \in Agents /\ Ack(a, m, l, st)
    BY <1>1, <1>4 DEF WorkerAck
  <2> QED BY <2>1 DEF Messaging
<1> QED BY <1>2, <1>3, <1>4 DEF Delivery

\* What others do is a request that publishes no session of this device.
LEMMA OthersUseBroker ==
    ASSUME Elsewhere \/ Withdrawals
    PROVE  \/ Messaging
           \/ \E a \in Agents \ Sessions, b \in Buses : Register(a, b)
           \/ \E p \in Principals, b \in Buses : Redeem(p, b)
           \/ \E p \in Principals, a \in Agents, b \in Buses : Leave(p, a, b)
           \/ \E P \in SUBSET Principals, b \in Buses : Withdraw(P, b)
<1>1. /\ Sessions \subseteq Agents /\ {Device} \in SUBSET Principals /\ Admins \subseteq Principals
      /\ \A a \in Agents : Owner[a] \in Principals /\ {a} \in SUBSET Agents
  BY SessionsAre
<1>2. CASE \E a \in Agents \ Sessions, target \in Agents, b \in Buses : Send(a, target, b)
  BY <1>2 DEF Messaging
<1>3. CASE \E a \in Agents \ Sessions, m \in Ids : Reply(a, m, NoKey)
  BY <1>3 DEF Messaging
<1>4. CASE \E a \in Agents \ Sessions : Poll(Owner[a], {a})
  BY <1>1, <1>4 DEF Messaging
<1>5. CASE \E p \in Admins : Read(p)
  BY <1>1, <1>5 DEF Messaging
<1>6. CASE Withdrawals
  BY <1>1, <1>6 DEF Withdrawals
<1> QED BY <1>2, <1>3, <1>4, <1>5, <1>6 DEF Elsewhere

LEMMA AdaptersUseBroker ==
    ASSUME RegsTyped, [AdaptersNext]_avars
    PROVE  [Next]_vars
<1>1. CASE Commands
  BY <1>1, CommandsUseBroker
<1>2. CASE Delivery
  BY <1>2, DeliveryUsesBroker DEF Next, Admission
<1>3. CASE Elsewhere \/ Withdrawals
  <2>1. Messaging \/ Admission
    BY <1>3, OthersUseBroker DEF Admission
  <2> QED BY <2>1 DEF Next
<1>4. CASE Tick \/ UNCHANGED avars
  BY <1>4 DEF Next, avars, vars
<1> QED BY <1>1, <1>2, <1>3, <1>4 DEF AdaptersNext

-----------------------------------------------------------------------------
(* What a step has to leave in order. *)

\* Adapters stay and their reply windows only grow.
WindowsGrow ==
    /\ DOMAIN regs \subseteq DOMAIN regs'
    /\ \A a \in DOMAIN regs : regs'[a].reply_until >= regs[a].reply_until

LEMMA ReachedStays ==
    ASSUME AInv, [Next]_vars, RegsTyped', WindowsGrow, NEW x \in told
    PROVE  Reached(x)'
<1>1. Reached(x) /\ x[2] \in Nat
  BY DEF AInv, RegsTyped, Ids
<1>2. /\ now \in Nat /\ now' \in Nat /\ now' >= now /\ db.next \in Nat /\ db'.next >= db.next
      /\ \A c \in DOMAIN db'.convs \ {db.next} :
            /\ c \in DOMAIN db.convs /\ db'.convs[c].expires = db.convs[c].expires
            /\ db.convs[c].closed => db'.convs[c].closed
  BY Onward, NowAndDatabase DEF AInv
<1>3. db'.next \in Nat
  BY NextIInv DEF AInv, IInv, Sound, IsDatabase
<1>4. x[2] < db'.next /\ x[2] # db.next
  BY <1>1, <1>2, <1>3 DEF Reached
<1>5. ASSUME x[2] \in DOMAIN db'.convs, ~db'.convs[x[2]].closed, db'.convs[x[2]].expires > now'
      PROVE  x[1] \in DOMAIN regs' /\ regs'[x[1]].reply_until >= db'.convs[x[2]].expires
  <2>1. /\ x[2] \in DOMAIN db.convs /\ db'.convs[x[2]].expires = db.convs[x[2]].expires
        /\ ~db.convs[x[2]].closed
    BY <1>2, <1>4, <1>5
  <2>2. db.convs[x[2]].expires \in Nat
    BY <2>1 DEF AInv, IInv, Sound, IsDatabase, Conversation
  <2>3. x[1] \in DOMAIN regs /\ regs[x[1]].reply_until >= db.convs[x[2]].expires
    BY <1>1, <1>2, <1>5, <2>1, <2>2 DEF Reached
  <2>4. regs[x[1]].reply_until \in Nat /\ regs'[x[1]].reply_until \in Nat
    BY <2>3 DEF AInv, RegsTyped, Adapter, WindowsGrow
  <2> QED BY <2>1, <2>2, <2>3, <2>4 DEF WindowsGrow
<1> QED BY <1>4, <1>5 DEF Reached

LEMMA AnswerDueStays ==
    ASSUME AInv, [Next]_vars, WindowsGrow, NEW a \in Sessions, cmd'[a] = cmd[a]
    PROVE  AnswerDue(a)'
<1>1. AnswerDue(a) /\ cmd[a] \in Todo
  BY DEF AInv, RegsTyped
<1>2. /\ db.next \in Nat /\ db'.next \in Nat /\ db'.next >= db.next
      /\ \A c \in DOMAIN db'.convs \ {db.next} :
            c \in DOMAIN db.convs /\ db'.convs[c].expires = db.convs[c].expires
  BY Onward, NextIInv DEF AInv, IInv, Sound, IsDatabase
<1>3. cmd[a].op = "retain" => cmd[a].conv \in Nat
  BY <1>1 DEF Todo, Idle, Ids
<1> QED BY <1>1, <1>2, <1>3 DEF AnswerDue, WindowsGrow

\* The broker lists session a on no bus it did not list it on before.
NotPublished(a) == PublishedOn(db', a) \subseteq PublishedOn(db, a)

LEMMA FewerMembers ==
    ASSUME db'.members \subseteq db.members
    PROVE  \A a \in Sessions : NotPublished(a)
BY DEF NotPublished, PublishedOn

\* A session of which neither the command nor the adapter changes.
Bystander(a) ==
    /\ NotPublished(a) /\ cmd'[a] = cmd[a]
    /\ PolledFor(a) \subseteq PolledFor(a)'
    /\ a \in astray => a \in astray'

LEMMA KnownHereStays ==
    ASSUME NEW a \in Sessions, KnownHere(a), Bystander(a)
    PROVE  KnownHere(a)'
BY DEF KnownHere, Bystander, NotPublished

\* A step keeps the invariant if it does so for the sessions W it acts for and
\* the conversations it tells them of.
LEMMA StepKeeps ==
    ASSUME AInv, [Next]_vars, RegsTyped', WindowsGrow, NEW W,
           \A a \in Sessions \ W : Bystander(a),
           \A a \in Sessions \cap W : KnownHere(a)' /\ AnswerDue(a)',
           \A x \in told' \ told : Reached(x)'
    PROVE  AInv'
<1>1. IInv'
  BY NextIInv DEF AInv
<1>2. ASSUME NEW a \in Sessions PROVE KnownHere(a)' /\ AnswerDue(a)'
  <2>1. CASE a \notin W
    <3>1. Bystander(a) /\ KnownHere(a) /\ cmd'[a] = cmd[a]
      BY <2>1 DEF AInv, Bystander
    <3> QED BY <3>1, KnownHereStays, AnswerDueStays
  <2> QED BY <2>1
<1>3. \A x \in told' : Reached(x)'
  BY ReachedStays
<1>4. Sessions' = Sessions
  BY DEF Sessions
<1> QED BY <1>1, <1>2, <1>3, <1>4 DEF AInv

LEMMA StepOfOneKeeps ==
    ASSUME AInv, [Next]_vars, RegsTyped', WindowsGrow, NEW a \in Sessions,
           \A x \in Sessions \ {a} : Bystander(x),
           KnownHere(a)' /\ AnswerDue(a)',
           \A x \in told' \ told : Reached(x)'
    PROVE  AInv'
<1>1. \A x \in Sessions \cap {a} : KnownHere(x)' /\ AnswerDue(x)'
  <2> TAKE x \in Sessions \cap {a}
  <2>1. x = a
    OBVIOUS
  <2> QED BY <2>1
<1> QED BY <1>1, StepKeeps

LEMMA StepOfNoneKeeps ==
    ASSUME AInv, [Next]_vars, RegsTyped', WindowsGrow,
           \A x \in Sessions : Bystander(x),
           \A x \in told' \ told : Reached(x)'
    PROVE  AInv'
<1>1. /\ \A x \in Sessions \ {} : Bystander(x)
      /\ \A x \in Sessions \cap {} : KnownHere(x)' /\ AnswerDue(x)'
  OBVIOUS
<1> QED BY <1>1, StepKeeps
-----------------------------------------------------------------------------
(* The kinds of work a command can have left. *)

LEMMA TodoKinds ==
    ASSUME NEW t \in Todo
    PROVE  /\ t.op \in {"register", "identify"} => t.buses \in SUBSET Buses
           /\ t.op = "leave" => t.bus \in Buses
           /\ t.op = "retain" => t.conv \in Ids /\ t.expires \in Nat
           /\ t = Idle => t.op = "idle"
BY DEF Todo, Idle

LEMMA TodoMade ==
    /\ Idle \in Todo /\ [op |-> "identified"] \in Todo
    /\ \A B \in SUBSET Buses : \A o \in {"register", "identify"} : [op |-> o, buses |-> B] \in Todo
    /\ \A b \in Buses : [op |-> "leave", bus |-> b] \in Todo
    /\ \A c \in Ids, t \in Nat : [op |-> "retain", conv |-> c, expires |-> t] \in Todo
BY DEF Todo

\* A request of session a that leaves it with todo to be done.
Asks(a, todo) ==
    /\ cmd[a].op \in {"idle", "identified"}
    /\ cmd' = [cmd EXCEPT ![a] = todo]
    /\ UNCHANGED <<regs, told, astray, faults>>

LEMMA AwaitAsks ==
    ASSUME NEW a, NEW todo, Await(a, todo), UNCHANGED <<regs, told, astray, faults>>
    PROVE  Asks(a, todo)
BY DEF Await, Idle, Asks

LEMMA Requested ==
    ASSUME RegsTyped, NEW a \in Sessions, NEW todo \in Todo, Asks(a, todo)
    PROVE  /\ RegsTyped' /\ WindowsGrow /\ cmd'[a] = todo /\ told' = told
           /\ \A x \in Sessions \ {a} : cmd'[x] = cmd[x]
           /\ \A x \in Sessions : PolledFor(x)' = PolledFor(x)
<1>1. cmd' = [cmd EXCEPT ![a] = todo] /\ UNCHANGED <<regs, told, astray, faults>>
  BY DEF Asks
<1>2. cmd' \in [Sessions -> Todo] /\ cmd'[a] = todo /\ \A x \in Sessions \ {a} : cmd'[x] = cmd[x]
  BY <1>1 DEF RegsTyped
<1>3. Sessions' = Sessions /\ Todo' = Todo /\ Adapter' = Adapter /\ Ids' = Ids
  BY DEF Sessions, Todo, Idle, Adapter, Ids
<1>4. RegsTyped'
  BY <1>1, <1>2, <1>3 DEF RegsTyped
<1>5. WindowsGrow
  BY <1>1 DEF WindowsGrow, RegsTyped, Adapter
<1> QED BY <1>1, <1>2, <1>4, <1>5 DEF PolledFor

\* A request that publishes nothing and lets others be.
LEMMA RequestedQuietly ==
    ASSUME AInv, [Next]_vars, NEW a \in Sessions, NEW todo \in Todo, Asks(a, todo),
           db'.members \subseteq db.members,
           todo.op \in {"register", "identify"} => PublishedOn(db', a) \subseteq todo.buses,
           todo.op = "leave" => todo.bus \notin PublishedOn(db', a),
           todo.op \in {"identified", "retain"} => a \in DOMAIN regs,
           todo.op = "retain" =>
               /\ todo.conv < db'.next
               /\ todo.conv \in DOMAIN db'.convs => db'.convs[todo.conv].expires = todo.expires
    PROVE  AInv'
<1>1. /\ RegsTyped' /\ WindowsGrow /\ cmd'[a] = todo /\ told' = told
      /\ \A x \in Sessions \ {a} : cmd'[x] = cmd[x]
      /\ \A x \in Sessions : PolledFor(x)' = PolledFor(x)
      /\ cmd[a].op \in {"idle", "identified"} /\ astray' = astray /\ regs' = regs
  BY Requested DEF AInv, Asks
<1>2. \A x \in Sessions : NotPublished(x)
  BY FewerMembers
<1>3. \A x \in Sessions \ {a} : Bystander(x)
  BY <1>1, <1>2 DEF Bystander
<1>4. KnownHere(a)'
  <2>1. a \notin astray => PublishedOn(db, a) \subseteq PolledFor(a)
    BY <1>1 DEF AInv, KnownHere
  <2> QED BY <1>1, <1>2, <2>1 DEF KnownHere, NotPublished
<1>5. AnswerDue(a)'
  BY <1>1 DEF AnswerDue
<1> QED BY <1>1, <1>3, <1>4, <1>5, StepOfOneKeeps

-----------------------------------------------------------------------------
(* One lemma per request. *)

LEMMA RegisterRequestKeeps ==
    ASSUME AInv, NEW a \in Sessions, NEW b \in Buses, RegisterRequest(a, b)
    PROVE  AInv'
<1> DEFINE todo == [op |-> "register", buses |-> PublishedOn(db', a)]
<1>1. Register(a, b) /\ Await(a, todo) /\ UNCHANGED <<regs, told, astray, faults>> /\ a \in Agents
  BY SessionsAre DEF RegisterRequest
<1>2. [Next]_vars
  BY <1>1 DEF Next, Admission
<1>3. PublishedOn(db', a) \in SUBSET Buses
  BY DEF PublishedOn
<1>4. todo \in Todo /\ todo.op = "register" /\ todo.buses = PublishedOn(db', a)
  BY <1>3, TodoMade
<1> HIDE DEF todo
<1>5. /\ RegsTyped' /\ WindowsGrow /\ cmd'[a] = todo
      /\ \A x \in Sessions \ {a} : cmd'[x] = cmd[x]
      /\ \A x \in Sessions : PolledFor(x)' = PolledFor(x)
  BY <1>1, <1>4, AwaitAsks, Requested DEF AInv
<1>6. db'.members = db.members \cup {<<a, b>>}
  BY <1>1, ArrivalsPublish DEF AInv
<1>7. \A x \in Sessions \ {a} : NotPublished(x)
  BY <1>6 DEF NotPublished, PublishedOn
<1>8. \A x \in Sessions \ {a} : Bystander(x)
  BY <1>1, <1>5, <1>7 DEF Bystander
<1>9. KnownHere(a)' /\ AnswerDue(a)'
  BY <1>4, <1>5 DEF KnownHere, AnswerDue
<1> QED BY <1>1, <1>2, <1>5, <1>8, <1>9, StepOfOneKeeps

LEMMA IdentifyRequestKeeps ==
    ASSUME AInv, NEW a \in Sessions, IdentifyRequest(a)
    PROVE  AInv'
<1> DEFINE todo == [op |-> "identify", buses |-> PublishedOn(db', a)]
<1>1. Identify(a) /\ Await(a, todo) /\ UNCHANGED <<regs, told, astray, faults>> /\ a \in Agents
  BY SessionsAre DEF IdentifyRequest
<1>2. [Next]_vars
  BY <1>1 DEF Next, Admission
<1>3. PublishedOn(db', a) \in SUBSET Buses
  BY DEF PublishedOn
<1>4. todo \in Todo /\ todo.op = "identify" /\ todo.buses = PublishedOn(db', a)
  BY <1>3, TodoMade
<1> HIDE DEF todo
<1>5. db'.members \subseteq db.members
  BY <1>1, ArrivalsPublish DEF AInv, Unpublished
<1> QED BY <1>1, <1>2, <1>4, <1>5, AwaitAsks, RequestedQuietly

LEMMA LeaveRequestKeeps ==
    ASSUME AInv, NEW a \in Sessions, NEW b \in Buses, LeaveRequest(a, b)
    PROVE  AInv'
<1> DEFINE todo == [op |-> "leave", bus |-> b]
<1>1. /\ Leave(Device, a, b) /\ Await(a, todo) /\ UNCHANGED <<regs, told, astray, faults>>
      /\ a \in Agents /\ Device \in Principals
  BY SessionsAre DEF LeaveRequest
<1>2. [Next]_vars
  BY <1>1 DEF Next, Admission
<1>3. todo \in Todo /\ todo.op = "leave" /\ todo.bus = b
  BY TodoMade
<1> HIDE DEF todo
<1>4. db'.members = db.members \ {<<a, b>>}
  BY <1>1, LeaveIs DEF AInv
<1>5. b \notin PublishedOn(db', a)
  BY <1>4 DEF PublishedOn
<1> QED BY <1>1, <1>2, <1>3, <1>4, <1>5, AwaitAsks, RequestedQuietly

\* What the response to a request that enqueued message m of conversation c says.
LEMMA ResponseTells ==
    ASSUME IInv', NEW m \in DOMAIN db'.msgs, db'.msgs[m].status = "accepted",
           NEW c, c = db'.msgs[m].conv
    PROVE  c \in Ids /\ c < db'.next /\ c \in DOMAIN db'.convs /\ db'.convs[c].expires \in Nat
<1>1. IsDatabase(db') /\ IdsFresh(db') /\ PendingAreOpen(db')
  BY DEF IInv, Sound, Open
<1>2. c \in DOMAIN db'.convs
  BY <1>1 DEF PendingAreOpen, Active, ACTIVE
<1> QED BY <1>1, <1>2 DEF IsDatabase, IdsFresh, Conversation

LEMMA SendRequestKeeps ==
    ASSUME AInv, NEW a \in Sessions, NEW target \in Agents, NEW b \in Buses,
           SendRequest(a, target, b)
    PROVE  AInv'
<1> DEFINE c == db.next
           todo == [op |-> "retain", conv |-> c, expires |-> db'.convs[c].expires]
<1>1. /\ Send(a, target, b) /\ AwaitAnswer(a, c) /\ UNCHANGED <<regs, told, astray, faults>>
      /\ Sender(a) /\ a \in Agents
  BY SessionsAre DEF SendRequest
<1>2. [Next]_vars
  BY <1>1 DEF Next, Messaging
<1>3. Appends(Base) /\ db'.msgs[c].conv = c
  BY <1>1, SendAppends DEF AInv, Base
<1>4. IInv' /\ c \in DOMAIN db'.msgs /\ db'.msgs[c].status = "accepted"
  BY <1>2, <1>3, NextIInv DEF AInv, Appends
<1>5. c \in Ids /\ c < db'.next /\ c \in DOMAIN db'.convs /\ db'.convs[c].expires \in Nat
  BY <1>3, <1>4, ResponseTells
<1>6. /\ todo \in Todo /\ todo.op = "retain" /\ todo.conv = c
      /\ todo.expires = db'.convs[c].expires
  BY <1>5, TodoMade
<1>7. a \in DOMAIN regs /\ cmd[a].op \in {"idle", "identified"}
  BY <1>1 DEF Sender, Idle, AInv, AnswerDue
<1>8. Asks(a, todo)
  BY <1>1, <1>7 DEF Asks, AwaitAnswer
<1> HIDE DEF todo
<1>9. db'.members \subseteq db.members
  BY <1>3 DEF Appends
<1> QED BY <1>2, <1>5, <1>6, <1>7, <1>8, <1>9, RequestedQuietly

LEMMA ReplyRequestKeeps ==
    ASSUME AInv, NEW a \in Sessions, NEW m \in Ids, NEW k \in Keys \cup {NoKey},
           ReplyRequest(a, m, k)
    PROVE  AInv'
<1> DEFINE c == db'.msgs[db.next].conv
           todo == [op |-> "retain", conv |-> c, expires |-> db'.convs[c].expires]
<1>1. /\ Reply(a, m, k) /\ AwaitAnswer(a, c) /\ UNCHANGED <<regs, told, astray, faults>>
      /\ cmd[a].op = "idle" /\ a \in DOMAIN regs /\ a \in Agents
  BY SessionsAre DEF ReplyRequest, Idle
<1>2. [Next]_vars
  BY <1>1 DEF Next, Messaging
<1>3. Appends(Base)
  BY <1>1, ReplyAppends DEF AInv, Base
<1>4. IInv' /\ db.next \in DOMAIN db'.msgs /\ db'.msgs[db.next].status = "accepted"
  BY <1>2, <1>3, NextIInv DEF AInv, Appends
<1>5. c \in Ids /\ c < db'.next /\ c \in DOMAIN db'.convs /\ db'.convs[c].expires \in Nat
  BY <1>4, ResponseTells
<1>6. /\ todo \in Todo /\ todo.op = "retain" /\ todo.conv = c
      /\ todo.expires = db'.convs[c].expires
  BY <1>5, TodoMade
<1>7. Asks(a, todo)
  BY <1>1 DEF Asks, AwaitAnswer
<1> HIDE DEF todo
<1>8. db'.members \subseteq db.members
  BY <1>3 DEF Appends
<1> QED BY <1>1, <1>2, <1>5, <1>6, <1>7, <1>8, RequestedQuietly
-----------------------------------------------------------------------------
(* What a command writes down afterwards, and a command that dies. *)

\* Session a writes its adapter and goes on to todo; the broker does not move.
Writes(a, todo) ==
    /\ cmd' = [cmd EXCEPT ![a] = todo]
    /\ UNCHANGED <<db, now>>
    /\ regs' \in [DOMAIN regs' -> Adapter] /\ DOMAIN regs' \subseteq Sessions
    /\ \A x \in Sessions \ {a} :
          /\ x \in DOMAIN regs' <=> x \in DOMAIN regs
          /\ x \in DOMAIN regs => regs'[x] = regs[x]
          /\ x \in astray' <=> x \in astray
    /\ a \in DOMAIN regs =>
          a \in DOMAIN regs' /\ regs'[a].reply_until >= regs[a].reply_until

LEMMA Written ==
    ASSUME AInv, NEW a \in Sessions, NEW todo \in Todo, Writes(a, todo),
           told' \subseteq Sessions \X Ids, astray' \subseteq Sessions, faults' \in 0..MaxFaults
    PROVE  /\ [Next]_vars /\ RegsTyped' /\ WindowsGrow /\ cmd'[a] = todo
           /\ \A x \in Sessions \ {a} : Bystander(x)
           /\ KnownHere(a) /\ AnswerDue(a) /\ PublishedOn(db', a) = PublishedOn(db, a)
<1>1. /\ cmd' = [cmd EXCEPT ![a] = todo] /\ db' = db /\ now' = now
      /\ regs' \in [DOMAIN regs' -> Adapter] /\ DOMAIN regs' \subseteq Sessions
      /\ \A x \in Sessions \ {a} :
            /\ x \in DOMAIN regs' <=> x \in DOMAIN regs
            /\ x \in DOMAIN regs => regs'[x] = regs[x]
            /\ x \in astray' <=> x \in astray
      /\ a \in DOMAIN regs =>
            a \in DOMAIN regs' /\ regs'[a].reply_until >= regs[a].reply_until
  BY DEF Writes
<1>2. RegsTyped
  BY DEF AInv
<1>3. cmd' \in [Sessions -> Todo] /\ cmd'[a] = todo /\ \A x \in Sessions \ {a} : cmd'[x] = cmd[x]
  BY <1>1, <1>2 DEF RegsTyped
<1>4. Sessions' = Sessions /\ Todo' = Todo /\ Adapter' = Adapter /\ Ids' = Ids
  BY DEF Sessions, Todo, Idle, Adapter, Ids
<1>5. RegsTyped'
  BY <1>1, <1>3, <1>4 DEF RegsTyped
<1>6. WindowsGrow
  <2>1. \A x \in DOMAIN regs : x \in Sessions /\ regs[x].reply_until \in Nat
    BY <1>2 DEF RegsTyped, Adapter
  <2>2. \A x \in DOMAIN regs \ {a} : x \in DOMAIN regs' /\ regs'[x] = regs[x]
    BY <1>1, <2>1
  <2> QED BY <1>1, <2>1, <2>2 DEF WindowsGrow
<1>7. \A x \in Sessions \ {a} : Bystander(x)
  BY <1>1, <1>3 DEF Bystander, NotPublished, PolledFor
<1> QED BY <1>1, <1>3, <1>5, <1>6, <1>7 DEF vars, AInv

LEMMA RememberAdapterKeeps ==
    ASSUME AInv, NEW a \in Sessions, RememberAdapter(a)
    PROVE  AInv'
<1> DEFINE todo == IF cmd[a].op = "identify" THEN [op |-> "identified"] ELSE Idle
           r == Remembered(a)
<1>1. /\ cmd[a].op \in {"register", "identify"}
      /\ regs' = [x \in DOMAIN regs \cup {a} |-> IF x = a THEN r ELSE regs[x]]
      /\ cmd' = [cmd EXCEPT ![a] = todo] /\ astray' = astray \ {a}
      /\ UNCHANGED <<db, now, told, faults>>
  BY DEF RememberAdapter
<1>2. RegsTyped /\ cmd[a] \in Todo /\ KnownHere(a)
  BY DEF AInv, RegsTyped
<1>3. todo \in Todo /\ todo.op \in {"identified", "idle"}
  BY TodoMade DEF Idle
<1>4. cmd[a].buses \in SUBSET Buses
  BY <1>1, <1>2, TodoKinds
<1>5. /\ r \in Adapter /\ r.buses = cmd[a].buses
      /\ a \in DOMAIN regs => r.reply_until >= regs[a].reply_until
  <2>1. a \in DOMAIN regs => regs[a].reply_until \in Nat
    BY <1>2 DEF RegsTyped, Adapter
  <2> QED BY <1>4, <2>1 DEF Remembered, Adapter
<1> HIDE DEF todo, r
<1>6. /\ DOMAIN regs' = DOMAIN regs \cup {a} /\ regs'[a] = r
      /\ \A x \in DOMAIN regs \ {a} : regs'[x] = regs[x]
  BY <1>1
<1>7. regs' \in [DOMAIN regs' -> Adapter] /\ DOMAIN regs' \subseteq Sessions
  BY <1>1, <1>2, <1>5 DEF RegsTyped
<1>8. Writes(a, todo)
  BY <1>1, <1>5, <1>6, <1>7 DEF Writes
<1>9. /\ [Next]_vars /\ RegsTyped' /\ WindowsGrow /\ cmd'[a] = todo
      /\ \A x \in Sessions \ {a} : Bystander(x)
      /\ PublishedOn(db', a) = PublishedOn(db, a)
  BY <1>1, <1>2, <1>3, <1>8, Written DEF RegsTyped
<1>10. KnownHere(a)'
  <2>1. PublishedOn(db, a) \subseteq cmd[a].buses
    BY <1>1, <1>2 DEF KnownHere
  <2> QED BY <1>3, <1>5, <1>6, <1>9, <2>1 DEF KnownHere, PolledFor
<1>11. AnswerDue(a)'
  BY <1>3, <1>6, <1>9 DEF AnswerDue
<1> QED BY <1>1, <1>9, <1>10, <1>11, StepOfOneKeeps

LEMMA RetainedIs ==
    ASSUME NEW r \in Adapter, NEW t \in Nat, now \in Nat
    PROVE  /\ Retained(r, t) \in Adapter /\ Retained(r, t).buses = r.buses
           /\ Retained(r, t).reply_until >= r.reply_until
           /\ t > now /\ t <= now + MESSAGE_TTL => Retained(r, t).reply_until >= t
<1> DEFINE expiry == Earlier(t, now + MESSAGE_TTL)
           e == [r EXCEPT !.reply_until = expiry]
<1>1. MESSAGE_TTL \in Nat
  BY BusAssumption
<1>2. expiry \in Nat /\ (t <= now + MESSAGE_TTL => expiry = t)
  BY <1>1 DEF Earlier
<1>3. Retained(r, t) = IF t > now /\ expiry > r.reply_until THEN e ELSE r
  BY DEF Retained
<1> HIDE DEF expiry
<1>4. e \in Adapter /\ e.buses = r.buses /\ e.reply_until = expiry /\ r.reply_until \in Nat
  BY <1>2 DEF Adapter
<1> HIDE DEF e
<1> QED BY <1>2, <1>3, <1>4

LEMMA RetainReplyAdapterKeeps ==
    ASSUME AInv, NEW a \in Sessions, RetainReplyAdapter(a)
    PROVE  AInv'
<1> DEFINE c == cmd[a].conv
           t == cmd[a].expires
           r == Retained(regs[a], t)
<1>1. /\ cmd[a].op = "retain" /\ cmd' = [cmd EXCEPT ![a] = Idle]
      /\ regs' = IF a \in DOMAIN regs THEN [regs EXCEPT ![a] = r] ELSE regs
      /\ told' = told \cup {<<a, c>>} /\ UNCHANGED <<db, now, astray, faults>>
  BY DEF RetainReplyAdapter, Done
<1>2. RegsTyped /\ cmd[a] \in Todo /\ KnownHere(a) /\ AnswerDue(a) /\ now \in Nat
  BY NowAndDatabase DEF AInv, RegsTyped
<1>3. c \in Ids /\ t \in Nat
  BY <1>1, <1>2, TodoKinds
<1>4. /\ a \in DOMAIN regs /\ c < db.next
      /\ c \in DOMAIN db.convs => db.convs[c].expires = t
  BY <1>1, <1>2 DEF AnswerDue
<1>5. regs[a] \in Adapter
  BY <1>2, <1>4 DEF RegsTyped
<1>6. /\ r \in Adapter /\ r.buses = regs[a].buses /\ r.reply_until >= regs[a].reply_until
      /\ t > now /\ t <= now + MESSAGE_TTL => r.reply_until >= t
  BY <1>2, <1>3, <1>5, RetainedIs
<1> HIDE DEF c, t, r
<1>7. /\ DOMAIN regs' = DOMAIN regs /\ regs'[a] = r
      /\ \A x \in DOMAIN regs \ {a} : regs'[x] = regs[x]
  BY <1>1, <1>2, <1>4 DEF RegsTyped
<1>8. regs' \in [DOMAIN regs' -> Adapter] /\ DOMAIN regs' \subseteq Sessions
  BY <1>1, <1>2, <1>4, <1>6 DEF RegsTyped
<1>9. Writes(a, Idle) /\ Idle \in Todo /\ Idle.op = "idle"
  BY <1>1, <1>6, <1>7, <1>8, TodoMade DEF Writes, Idle
<1>10. told' \subseteq Sessions \X Ids
  BY <1>1, <1>2, <1>3 DEF RegsTyped
<1>11. /\ [Next]_vars /\ RegsTyped' /\ WindowsGrow /\ cmd'[a] = Idle
       /\ \A x \in Sessions \ {a} : Bystander(x)
       /\ PublishedOn(db', a) = PublishedOn(db, a)
  BY <1>1, <1>2, <1>9, <1>10, Written DEF RegsTyped
<1>12. KnownHere(a)' /\ AnswerDue(a)'
  <2>1. a \notin astray => PublishedOn(db, a) \subseteq regs[a].buses
    BY <1>1, <1>2, <1>4 DEF KnownHere, PolledFor
  <2> QED BY <1>1, <1>4, <1>6, <1>7, <1>9, <1>11, <2>1 DEF KnownHere, AnswerDue, PolledFor
<1>13. ASSUME NEW x \in told' \ told PROVE Reached(x)'
  <2>1. x[1] = a /\ x[2] = c
    BY <1>1, <1>13
  <2>2. c \in DOMAIN db.convs => db.convs[c].expires <= now + MESSAGE_TTL
    BY DEF AInv, IInv, Timed, ConversationsDated
  <2> QED BY <1>1, <1>4, <1>6, <1>7, <2>1, <2>2 DEF Reached
<1> QED BY <1>11, <1>12, <1>13, StepOfOneKeeps

LEMMA ForgetBusKeeps ==
    ASSUME AInv, NEW a \in Sessions, ForgetBus(a)
    PROVE  AInv'
<1> DEFINE b == cmd[a].bus
           r == [regs[a] EXCEPT !.buses = @ \ {b}]
<1>1. /\ cmd[a].op = "leave" /\ cmd' = [cmd EXCEPT ![a] = Idle]
      /\ regs' = IF a \in DOMAIN regs THEN [regs EXCEPT ![a].buses = @ \ {b}] ELSE regs
      /\ UNCHANGED <<db, now, told, astray, faults>>
  BY DEF ForgetBus, Done
<1>2. RegsTyped /\ KnownHere(a)
  BY DEF AInv
<1>3. a \in DOMAIN regs => /\ r \in Adapter /\ r.buses = regs[a].buses \ {b}
                           /\ r.reply_until = regs[a].reply_until /\ r.reply_until \in Nat
  BY <1>2 DEF RegsTyped, Adapter
<1>4. a \in DOMAIN regs => regs' = [regs EXCEPT ![a] = r]
  BY <1>1
<1> HIDE DEF b, r
<1>5. /\ DOMAIN regs' = DOMAIN regs /\ (a \in DOMAIN regs => regs'[a] = r)
      /\ \A x \in DOMAIN regs \ {a} : regs'[x] = regs[x]
  BY <1>1, <1>2, <1>4 DEF RegsTyped
<1>6. regs' \in [DOMAIN regs' -> Adapter] /\ DOMAIN regs' \subseteq Sessions
  BY <1>1, <1>2, <1>3, <1>4 DEF RegsTyped
<1>7. Writes(a, Idle) /\ Idle \in Todo /\ Idle.op = "idle"
  BY <1>1, <1>3, <1>5, <1>6, TodoMade DEF Writes, Idle
<1>8. /\ [Next]_vars /\ RegsTyped' /\ WindowsGrow /\ cmd'[a] = Idle
      /\ \A x \in Sessions \ {a} : Bystander(x)
      /\ PublishedOn(db', a) = PublishedOn(db, a)
  BY <1>1, <1>2, <1>7, Written DEF RegsTyped
<1>9. KnownHere(a)' /\ AnswerDue(a)'
  <2>1. /\ a \notin astray => PublishedOn(db, a) \subseteq PolledFor(a)
        /\ b \notin PublishedOn(db, a)
    BY <1>1, <1>2 DEF KnownHere, b
  <2> QED BY <1>1, <1>3, <1>5, <1>7, <1>8, <2>1 DEF KnownHere, AnswerDue, PolledFor
<1> QED BY <1>1, <1>8, <1>9, StepOfOneKeeps

LEMMA DieKeeps ==
    ASSUME AInv, NEW a \in Sessions, Die(a)
    PROVE  AInv'
<1>1. /\ cmd' = [cmd EXCEPT ![a] = Idle] /\ faults < MaxFaults /\ faults' = faults + 1
      /\ astray' = IF cmd[a].op = "register" THEN astray \cup {a} ELSE astray
      /\ UNCHANGED <<db, now, regs, told>>
  BY DEF Die, Done
<1>2. RegsTyped /\ KnownHere(a)
  BY DEF AInv
<1>3. regs' \in [DOMAIN regs' -> Adapter] /\ DOMAIN regs' \subseteq Sessions
  BY <1>1, <1>2 DEF RegsTyped
<1>4. a \in DOMAIN regs => regs[a].reply_until \in Nat
  BY <1>2 DEF RegsTyped, Adapter
<1>5. Writes(a, Idle) /\ Idle \in Todo /\ Idle.op = "idle"
  BY <1>1, <1>3, <1>4, TodoMade DEF Writes, Idle
<1>6. astray' \subseteq Sessions /\ faults' \in 0..MaxFaults
  BY <1>1, <1>2, AdapterAssumption DEF RegsTyped
<1>7. /\ [Next]_vars /\ RegsTyped' /\ WindowsGrow /\ cmd'[a] = Idle
      /\ \A x \in Sessions \ {a} : Bystander(x)
      /\ PublishedOn(db', a) = PublishedOn(db, a)
  BY <1>1, <1>2, <1>5, <1>6, Written DEF RegsTyped
<1>8. KnownHere(a)' /\ AnswerDue(a)'
  BY <1>1, <1>2, <1>5, <1>7 DEF KnownHere, AnswerDue, PolledFor
<1> QED BY <1>1, <1>7, <1>8, StepOfOneKeeps
-----------------------------------------------------------------------------
(* The worker and everybody else. *)

\* The worker gets at most one message for each adapter it polls for, and what
\* it keeps the adapter for is the end of that message's conversation.
LEMMA PollFetches ==
    ASSUME IInv, IInv', NEW A \in SUBSET Agents, Poll(Device, A), NEW m \in NewlyLeased
    PROVE  /\ m \in DOMAIN db'.msgs /\ db'.msgs[m].target \in A
           /\ \A n \in NewlyLeased : db'.msgs[n].target = db'.msgs[m].target => n = m
           /\ db'.msgs[m].conv \in Ids /\ db'.msgs[m].expires \in Nat
           /\ db'.msgs[m].conv < db'.next
           /\ db'.msgs[m].expires = db'.convs[db'.msgs[m].conv].expires
           /\ db'.msgs[m].expires <= now' + MESSAGE_TTL
<1>1. LeasesFor(Base, A) /\ Device \in Principals
  BY PollLeases, SessionsAre DEF Base
<1>2. IsDatabase(Base) /\ Housekept(db, Base)
  BY BaseIs
<1>3. /\ DOMAIN db'.msgs = DOMAIN Base.msgs
      /\ \A n \in DOMAIN Base.msgs :
            \/ db'.msgs[n] = Base.msgs[n]
            \/ n \in Heads(Base, A, now) /\ db'.msgs[n].target = Base.msgs[n].target
  BY <1>1 DEF LeasesFor
<1>4. ASSUME NEW n \in NewlyLeased
      PROVE  /\ n \in Heads(Base, A, now) /\ db'.msgs[n].target = Base.msgs[n].target
             /\ n \in DOMAIN db'.msgs
  <2>1. n \in DOMAIN Base.msgs /\ db'.msgs[n].lease # db.msgs[n].lease
    BY <1>3 DEF NewlyLeased
  <2>2. Base.msgs[n].lease = db.msgs[n].lease
    BY <1>2, <2>1 DEF Housekept
  <2> QED BY <1>3, <2>1, <2>2
<1>5. ASSUME NEW n \in NewlyLeased, db'.msgs[n].target = db'.msgs[m].target PROVE n = m
  <2>1. n \in Heads(Base, A, now) /\ m \in Heads(Base, A, now)
    BY <1>4
  <2>2. /\ n \in Pending(Base, Base.msgs[m].target) /\ m \in Pending(Base, Base.msgs[n].target)
        /\ n \in Nat /\ m \in Nat
    BY <1>2, <1>4, <1>5, <2>1 DEF Heads, Pending, IsDatabase, Ids
  <2>3. n <= m /\ m <= n
    BY <2>1, <2>2 DEF Heads
  <2> QED BY <2>2, <2>3
<1>6. m \in DOMAIN db'.msgs /\ db'.msgs[m].target \in A
  BY <1>4 DEF Heads
<1>7. /\ IsDatabase(db') /\ ReferencesExist(db') /\ WithinConversation(db') /\ IdsFresh(db')
      /\ ConversationsDated(db', now')
  BY DEF IInv, Sound, Timed
<1>8. db'.msgs[m].conv \in Ids /\ db'.msgs[m].expires \in Nat
  BY <1>6, <1>7 DEF IsDatabase, Message
<1>9. db'.msgs[m].conv \in DOMAIN db'.convs
  BY <1>6, <1>7 DEF ReferencesExist
<1>10. /\ db'.msgs[m].conv < db'.next
       /\ db'.msgs[m].expires = db'.convs[db'.msgs[m].conv].expires
       /\ db'.msgs[m].expires <= now' + MESSAGE_TTL
  BY <1>6, <1>7, <1>9 DEF WithinConversation, IdsFresh, ConversationsDated
<1> QED BY <1>5, <1>6, <1>8, <1>10

LEMMA WorkerPollKeeps ==
    ASSUME AInv, NEW A \in SUBSET Sessions, WorkerPoll(A)
    PROVE  AInv'
<1>1. /\ A \subseteq ActiveAdapters /\ Poll(Device, A) /\ regs' = KeptForAnswers(NewlyLeased)
      /\ told' = told \cup {<<db'.msgs[m].target, db'.msgs[m].conv>> : m \in NewlyLeased}
      /\ UNCHANGED <<cmd, astray, faults>>
  BY DEF WorkerPoll
<1>2. A \in SUBSET Agents /\ Device \in Principals /\ A \subseteq DOMAIN regs
  BY <1>1, SessionsAre, ActiveAreHere DEF AInv
<1>3. [Next]_vars /\ db'.members \subseteq db.members
  <2>1. Messaging
    BY <1>1, <1>2 DEF Messaging
  <2> QED BY <2>1, NobodyElsePublishes DEF AInv, Next
<1>4. IInv /\ IInv' /\ RegsTyped /\ now \in Nat /\ now' = now
  BY <1>1, <1>3, NextIInv, NowAndDatabase DEF AInv, Poll
<1>5. \A m \in NewlyLeased :
         /\ m \in DOMAIN db'.msgs /\ db'.msgs[m].target \in DOMAIN regs
         /\ \A n \in NewlyLeased : db'.msgs[n].target = db'.msgs[m].target => n = m
         /\ db'.msgs[m].conv \in Ids /\ db'.msgs[m].expires \in Nat
         /\ db'.msgs[m].conv < db'.next
         /\ db'.msgs[m].expires = db'.convs[db'.msgs[m].conv].expires
         /\ db'.msgs[m].expires <= now + MESSAGE_TTL
  BY <1>1, <1>2, <1>4, PollFetches
<1>6. ASSUME NEW a \in DOMAIN regs
      PROVE  /\ regs'[a] \in Adapter /\ regs'[a].buses = regs[a].buses
             /\ regs'[a].reply_until >= regs[a].reply_until
             /\ \A m \in NewlyLeased :
                   db'.msgs[m].target = a /\ db'.msgs[m].expires > now =>
                      regs'[a].reply_until >= db'.msgs[m].expires
  <2> DEFINE mine == {m \in NewlyLeased : db'.msgs[m].target = a}
             e == CHOOSE m \in mine : TRUE
  <2>1. regs'[a] = IF mine = {} THEN regs[a] ELSE Retained(regs[a], db'.msgs[e].expires)
    BY <1>1 DEF KeptForAnswers
  <2>2. regs[a] \in Adapter /\ regs[a].reply_until \in Nat
    BY <1>4 DEF RegsTyped, Adapter
  <2>3. CASE mine = {}
    BY <2>1, <2>2, <2>3
  <2>4. CASE mine # {}
    <3>1. e \in mine
      BY <2>4
    <3>2. \A m \in mine : m = e
      BY <1>5, <3>1
    <3> HIDE DEF e
    <3>3. db'.msgs[e].expires \in Nat /\ db'.msgs[e].expires <= now + MESSAGE_TTL
      BY <1>5, <3>1
    <3>4. regs'[a] = Retained(regs[a], db'.msgs[e].expires)
      BY <2>1, <2>4
    <3>5. /\ regs'[a] \in Adapter /\ regs'[a].buses = regs[a].buses
          /\ regs'[a].reply_until >= regs[a].reply_until
          /\ db'.msgs[e].expires > now => regs'[a].reply_until >= db'.msgs[e].expires
      BY <1>4, <2>2, <3>3, <3>4, RetainedIs
    <3> QED BY <3>2, <3>5
  <2> QED BY <2>3, <2>4
<1>7. DOMAIN regs' = DOMAIN regs /\ regs' = [a \in DOMAIN regs |-> regs'[a]]
  BY <1>1 DEF KeptForAnswers
<1>8. told' \subseteq Sessions \X Ids
  BY <1>1, <1>4, <1>5 DEF RegsTyped
<1>9. RegsTyped'
  <2>1. Sessions' = Sessions /\ Todo' = Todo /\ Adapter' = Adapter /\ Ids' = Ids
    BY DEF Sessions, Todo, Idle, Adapter, Ids
  <2>2. regs' \in [DOMAIN regs' -> Adapter] /\ DOMAIN regs' \subseteq Sessions
    BY <1>4, <1>6, <1>7 DEF RegsTyped
  <2> QED BY <1>1, <1>4, <1>8, <2>1, <2>2 DEF RegsTyped
<1>10. WindowsGrow
  BY <1>6, <1>7 DEF WindowsGrow
<1>11. \A a \in Sessions : Bystander(a)
  BY <1>1, <1>3, <1>6, <1>7, FewerMembers DEF Bystander, PolledFor
<1>12. ASSUME NEW x \in told' \ told PROVE Reached(x)'
  <2>1. PICK m \in NewlyLeased : x = <<db'.msgs[m].target, db'.msgs[m].conv>>
    BY <1>1, <1>12
  <2>2. x[1] = db'.msgs[m].target /\ x[2] = db'.msgs[m].conv
    BY <2>1
  <2> QED BY <1>4, <1>5, <1>6, <1>7, <2>2 DEF Reached
<1> QED BY <1>3, <1>9, <1>10, <1>11, <1>12, StepOfNoneKeeps

\* A step that leaves the device alone and publishes none of its sessions.
LEMMA QuietDeviceKeeps ==
    ASSUME AInv, [Next]_vars, UNCHANGED device, \A a \in Sessions : NotPublished(a)
    PROVE  AInv'
<1>1. regs' = regs /\ cmd' = cmd /\ told' = told /\ astray' = astray /\ faults' = faults
  BY DEF device
<1>2. RegsTyped /\ Sessions' = Sessions /\ Todo' = Todo /\ Adapter' = Adapter /\ Ids' = Ids
  BY DEF AInv, Sessions, Todo, Idle, Adapter, Ids
<1>3. RegsTyped' /\ WindowsGrow
  BY <1>1, <1>2 DEF RegsTyped, WindowsGrow, Adapter
<1>4. \A a \in Sessions : Bystander(a)
  BY <1>1 DEF Bystander, PolledFor
<1> QED BY <1>1, <1>3, <1>4, StepOfNoneKeeps

LEMMA OthersKeep ==
    ASSUME AInv, Elsewhere \/ Withdrawals \/ (Tick /\ UNCHANGED device) \/ UNCHANGED avars
    PROVE  AInv'
<1>1. UNCHANGED device /\ RegsTyped /\ IInv
  BY DEF Elsewhere, Withdrawals, avars, device, AInv
<1>2. [Next]_vars
  BY <1>1, AdaptersUseBroker DEF AdaptersNext
<1>3. \A x \in Sessions : NotPublished(x)
  <2>1. ASSUME NEW a \in Agents \ Sessions, NEW b \in Buses, Register(a, b)
        PROVE  \A x \in Sessions : NotPublished(x)
    <3>1. db'.members = db.members \cup {<<a, b>>}
      BY <1>1, <2>1, ArrivalsPublish
    <3> QED BY <3>1 DEF NotPublished, PublishedOn
  <2>2. \/ \E a \in Agents \ Sessions, b \in Buses : Register(a, b)
        \/ db'.members \subseteq db.members
    <3>1. CASE Tick \/ UNCHANGED avars
      BY <3>1 DEF Tick, avars
    <3> QED BY <1>1, <3>1, OthersUseBroker, NobodyElsePublishes
  <2> QED BY <2>1, <2>2, FewerMembers
<1> QED BY <1>1, <1>2, <1>3, QuietDeviceKeeps

LEMMA DeliveryKeeps ==
    ASSUME AInv, Delivery
    PROVE  AInv'
<1>1. CASE \E A \in SUBSET Sessions : WorkerPoll(A)
  BY <1>1, WorkerPollKeeps
<1>2. CASE ~\E A \in SUBSET Sessions : WorkerPoll(A)
  <2>1. UNCHANGED device /\ RegsTyped /\ IInv
    BY <1>2 DEF Delivery, WorkerHeartbeat, WorkerAck, AInv
  <2>2. [Next]_vars
    BY <2>1, AdaptersUseBroker DEF AdaptersNext
  <2>3. db'.members \subseteq db.members
    BY <2>1, DeliveryUsesBroker, NobodyElsePublishes
  <2> QED BY <2>1, <2>2, <2>3, FewerMembers, QuietDeviceKeeps
<1> QED BY <1>1, <1>2

LEMMA AdaptersNextKeeps == AInv /\ [AdaptersNext]_avars => AInv'
<1> SUFFICES ASSUME AInv, [AdaptersNext]_avars PROVE AInv'
  OBVIOUS
<1>1. CASE Commands
  BY <1>1, RegisterRequestKeeps, IdentifyRequestKeeps, LeaveRequestKeeps, SendRequestKeeps,
     ReplyRequestKeeps, RememberAdapterKeeps, RetainReplyAdapterKeeps, ForgetBusKeeps, DieKeeps
     DEF Commands
<1>2. CASE Delivery
  BY <1>2, DeliveryKeeps
<1>3. CASE Elsewhere \/ Withdrawals \/ (Tick /\ UNCHANGED device) \/ UNCHANGED avars
  BY <1>3, OthersKeep
<1> QED BY <1>1, <1>2, <1>3 DEF AdaptersNext

LEMMA AdaptersStart == Init /\ AdaptersInit => AInv
<1> SUFFICES ASSUME Init, AdaptersInit PROVE AInv
  OBVIOUS
<1>1. /\ regs = [a \in {} |-> 0] /\ cmd = [a \in Sessions |-> Idle]
      /\ told = {} /\ astray = {} /\ faults = 0
  BY DEF AdaptersInit
<1>2. DOMAIN regs = {} /\ regs \in [DOMAIN regs -> Adapter]
  BY <1>1
<1>3. cmd \in [Sessions -> Todo]
  BY <1>1, TodoMade
<1>4. RegsTyped
  BY <1>1, <1>2, <1>3, AdapterAssumption DEF RegsTyped
<1>5. \A a \in Sessions : PublishedOn(db, a) = {} /\ cmd[a].op = "idle"
  BY <1>1 DEF Init, PublishedOn, Idle
<1> QED BY <1>1, <1>4, <1>5, InitIInv DEF AInv, KnownHere, AnswerDue

-----------------------------------------------------------------------------
(* The theorems. *)

\* What the device's registrations, its commands under way and the broker have
\* to do with one another holds in every reachable state.
THEOREM AdaptersInvariant == AdaptersSpec => []AInv
BY AdaptersStart, AdaptersNextKeeps, PTL DEF AdaptersSpec

\* The device is a client like any other: with it the broker still behaves as
\* BusBroker says, so everything proved of the broker holds here too.
THEOREM AdaptersOnBroker == AdaptersSpec => Spec
<1>1. AInv /\ [AdaptersNext]_avars => [Next]_vars
  BY AdaptersUseBroker DEF AInv
<1> QED BY <1>1, AdaptersInvariant, PTL DEF AdaptersSpec, Spec

\* registrations.json keeps its shape, and so does what commands still have to
\* write into it.
THEOREM AdaptersTypeCorrect == AdaptersSpec => []AdaptersTyped
<1>1. AInv => AdaptersTyped
  BY DEF AInv, IInv, Sound, TypeOK, RegsTyped, AdaptersTyped
<1> QED BY <1>1, AdaptersInvariant, PTL

\* A session that was told of a conversation, by the response to its send or
\* reply or by mail, can be reached until the conversation ends, however its
\* commands, the worker's polls and the registrations interleave.
THEOREM AnswersArrive == AdaptersSpec => []AnswersReachable
<1>1. AInv => AnswersReachable
  BY DEF AInv, Reached, AnswersReachable
<1> QED BY <1>1, AdaptersInvariant, PTL

\* What the broker lists for a session is what the worker polls for, unless the
\* session's last registration died before it was written down.
THEOREM PublishedArePolled == AdaptersSpec => []PublishedIsPolled
<1>1. AInv => PublishedIsPolled
  BY DEF AInv, KnownHere, PolledFor, PublishedIsPolled, Idle
<1> QED BY <1>1, AdaptersInvariant, PTL
=============================================================================
