-------------------------- MODULE BusDeliveryProofs --------------------------
(***************************************************************************)
(* Proofs about the delivery worker, for any number of agents, messages,   *)
(* crashes, stops, losses and lease tokens.                                *)
(*                                                                         *)
(* DeliveryInv is the inductive invariant, of four parts that are kept by  *)
(* every step: Typed; Order, what each session was handed against what is  *)
(* fetched and what waits; Receipts, the hub's report against the journal, *)
(* the batch and the sessions; Counted, handovers against crashes.  The    *)
(* lemmas named ...Is say what an action does to the functions it changes. *)
(***************************************************************************)
EXTENDS BusDelivery, FiniteSetTheorems, TLAPS

\* Types, without the bounds of TypeOK: ids are those given out so far.
Mail == [target : Agents, status : {"accepted", "leased", "expired"} \cup Outcomes,
         lease : 0..(Tokens - 1), held : BOOLEAN]
Held == [target : Agents, lease : 0..(Tokens - 1), stage : Stages, outcome : Outcomes \cup {""}]

Old == 1..(next - 1)
Typed ==
    /\ next \in Nat \ {0}
    /\ box \in [DOMAIN box -> Mail] /\ DOMAIN box \subseteq Old
    /\ batch \in [DOMAIN batch -> Held] /\ DOMAIN batch \subseteq Old
    /\ \A m \in At("ended") \cup At("journalled") : batch[m].outcome \in Outcomes
    /\ journal \in [DOMAIN journal -> Outcomes]
    /\ handed \in [Agents -> Seq(Old)]
    /\ crashes \in Nat

\* A poll never leases a message under the token of its last lease.
LEMMA TokenIsNew ==
  ASSUME NEW l \in 0..(Tokens - 1)
  PROVE  (l + 1) % Tokens \in 0..(Tokens - 1) /\ (l + 1) % Tokens # l
<1>1. CASE l + 1 < Tokens
  <2>1. (l + 1) % Tokens = l + 1
    BY <1>1, DeliveryAssumption
  <2> QED BY <2>1, <1>1, DeliveryAssumption
<1>2. CASE l + 1 = Tokens
  <2>1. (l + 1) % Tokens = 0
    BY <1>2, DeliveryAssumption
  <2> QED BY <2>1, <1>2, DeliveryAssumption
<1> QED BY <1>1, <1>2, DeliveryAssumption

LEMMA StatusIs ==
  ASSUME box \in [DOMAIN box -> Mail], NEW m \in DOMAIN box, NEW s
  PROVE  LET b == [box EXCEPT ![m].status = s] IN
         /\ DOMAIN b = DOMAIN box
         /\ \A x \in DOMAIN box \ {m} : b[x] = box[x]
         /\ b[m] = [target |-> box[m].target, status |-> s, lease |-> box[m].lease, held |-> box[m].held]
  BY DEF Mail

LEMMA HeldIs ==
  ASSUME box \in [DOMAIN box -> Mail], NEW m \in DOMAIN box, NEW s
  PROVE  LET b == [box EXCEPT ![m].held = s] IN
         /\ DOMAIN b = DOMAIN box
         /\ \A x \in DOMAIN box \ {m} : b[x] = box[x]
         /\ b[m] = [target |-> box[m].target, status |-> box[m].status, lease |-> box[m].lease, held |-> s]
  BY DEF Mail

LEMMA LeasedIs ==
  ASSUME box \in [DOMAIN box -> Mail], NEW S \in SUBSET DOMAIN box
  PROVE  /\ DOMAIN Leased(S) = DOMAIN box
         /\ \A m \in DOMAIN box \ S : Leased(S)[m] = box[m]
         /\ \A m \in S : Leased(S)[m] = [target |-> box[m].target, status |-> "leased",
                                         lease |-> NewToken(m), held |-> TRUE]
  BY DEF Mail, Leased

\* Mail that expires, is forgotten or whose lease lapses.
Rest == UNCHANGED <<next, batch, journal, handed, crashes>>
LEMMA DropIs ==
  ASSUME Typed, NEW m \in Ids, Drop(m) \/ Forget(m) \/ Lapse(m)
  PROVE  /\ Rest
         /\ box' \in [DOMAIN box' -> Mail] /\ DOMAIN box' \subseteq DOMAIN box
         /\ \A x \in DOMAIN box' : /\ box'[x].target = box[x].target /\ box'[x].lease = box[x].lease
                                  /\ \/ box'[x].status = box[x].status
                                     \/ Hub!IsWaiting(box, x) /\ box'[x].status = "expired"
<1>0. box \in [DOMAIN box -> Mail]
  BY DEF Typed
<1>1. CASE Drop(m)
  <2>1. m \in DOMAIN box /\ box' = [box EXCEPT ![m].status = "expired"]
    BY <1>1 DEF Drop
  <2>2. /\ DOMAIN box' = DOMAIN box
        /\ \A x \in DOMAIN box \ {m} : box'[x] = box[x]
        /\ box'[m] = [target |-> box[m].target, status |-> "expired", lease |-> box[m].lease, held |-> box[m].held]
    BY <1>0, <2>1, StatusIs
  <2>3. box'[m] \in Mail
    BY <1>0, <2>1, <2>2 DEF Mail
  <2>4. box' \in [DOMAIN box' -> Mail]
    BY <1>0, <2>1, <2>2, <2>3
  <2> QED
    BY <1>0, <1>1, <2>1, <2>2, <2>4 DEF Drop, Rest
<1>2. CASE Forget(m)
  BY <1>0, <1>2 DEF Forget, Without, Rest
<1>3. CASE Lapse(m)
  <2>1. m \in DOMAIN box /\ box' = [box EXCEPT ![m].held = FALSE]
    BY <1>3 DEF Lapse
  <2>2. /\ DOMAIN box' = DOMAIN box
        /\ \A x \in DOMAIN box \ {m} : box'[x] = box[x]
        /\ box'[m] = [target |-> box[m].target, status |-> box[m].status, lease |-> box[m].lease, held |-> FALSE]
    BY <1>0, <2>1, HeldIs
  <2>3. box'[m] \in Mail
    BY <1>0, <2>1, <2>2 DEF Mail
  <2>4. box' \in [DOMAIN box' -> Mail]
    BY <1>0, <2>1, <2>2, <2>3
  <2> QED
    BY <1>0, <1>3, <2>1, <2>2, <2>4 DEF Lapse, Rest
<1> QED
  BY <1>1, <1>2, <1>3

LEMMA AcceptIs ==
  ASSUME Typed, NEW t \in Agents, Accept(t)
  PROVE  /\ UNCHANGED <<batch, journal, handed, crashes>> /\ next' = next + 1
         /\ DOMAIN box' = DOMAIN box \cup {next} /\ next \notin DOMAIN box
         /\ box'[next] = [target |-> t, status |-> "accepted", lease |-> 0, held |-> FALSE]
         /\ \A x \in DOMAIN box : box'[x] = box[x]
         /\ box' \in [DOMAIN box' -> Mail]
<1>1. next \notin DOMAIN box
  BY DEF Typed, Old
<1>2. [target |-> t, status |-> "accepted", lease |-> 0, held |-> FALSE] \in Mail
  BY DeliveryAssumption DEF Mail
<1> QED
  BY <1>1, <1>2 DEF Accept, Typed

\* The messages that a poll leases, and what becomes of them at the hub.
LEMMA PollIs ==
  ASSUME Typed, Poll \/ PollLost
  PROVE  /\ UNCHANGED <<next, journal, handed, crashes>> /\ DOMAIN batch = {}
         /\ DOMAIN box' = DOMAIN box /\ box' \in [DOMAIN box' -> Mail]
         /\ Fetchable \in SUBSET DOMAIN box
         /\ \A m \in DOMAIN box \ Fetchable : box'[m] = box[m]
         /\ \A m \in Fetchable : /\ Hub!IsHead(box, m)
                                /\ box'[m] = [target |-> box[m].target, status |-> "leased",
                                             lease |-> NewToken(m), held |-> TRUE]
<1>1. box' = Leased(Fetchable) /\ UNCHANGED <<next, journal, handed, crashes>> /\ DOMAIN batch = {}
  BY DEF Poll, PollLost, MayPoll
<1>2. Fetchable \in SUBSET DOMAIN box /\ \A m \in Fetchable : Hub!IsHead(box, m)
  BY DEF Fetchable
<1>3. /\ DOMAIN box' = DOMAIN box
      /\ \A m \in DOMAIN box \ Fetchable : box'[m] = box[m]
      /\ \A m \in Fetchable : box'[m] = [target |-> box[m].target, status |-> "leased",
                                         lease |-> NewToken(m), held |-> TRUE]
  BY <1>1, <1>2, LeasedIs DEF Typed
<1>4. \A m \in Fetchable : box'[m] \in Mail
  <2> SUFFICES ASSUME NEW m \in Fetchable PROVE box'[m] \in Mail
    OBVIOUS
  <2>1. box[m].target \in Agents /\ box[m].lease \in 0..(Tokens - 1)
    BY <1>2 DEF Typed, Mail
  <2>2. NewToken(m) \in 0..(Tokens - 1)
    BY <2>1, TokenIsNew DEF NewToken
  <2>3. [target |-> box[m].target, status |-> "leased", lease |-> NewToken(m), held |-> TRUE] \in Mail
    BY <2>1, <2>2 DEF Mail
  <2> QED
    BY <1>3, <2>3
<1>5. box' \in [DOMAIN box -> Mail]
  <2>1. box' = [m \in DOMAIN box |-> box'[m]]
    BY <1>1 DEF Leased
  <2>2. \A m \in DOMAIN box : box'[m] \in Mail
    BY <1>3, <1>4 DEF Typed
  <2> QED
    BY <2>1, <2>2
<1> QED
  BY <1>1, <1>2, <1>3, <1>5

LEMMA BatchIs ==
  ASSUME Typed, Poll
  PROVE  /\ DOMAIN batch' = Fetchable /\ batch' \in [DOMAIN batch' -> Held]
         /\ \A m \in Fetchable : batch'[m] = Envelope(m)
<1>1. DOMAIN batch = {} /\ Fetchable \in SUBSET DOMAIN box
  BY PollIs
<1>2. batch' = [m \in Fetchable |-> Envelope(m)]
  BY <1>1 DEF Poll
<1>3. \A m \in Fetchable : Envelope(m) \in Held
  <2> SUFFICES ASSUME NEW m \in Fetchable PROVE Envelope(m) \in Held
    OBVIOUS
  <2>1. box[m].target \in Agents /\ box[m].lease \in 0..(Tokens - 1)
    BY <1>1 DEF Typed, Mail
  <2>2. NewToken(m) \in 0..(Tokens - 1)
    BY <2>1, TokenIsNew DEF NewToken
  <2> QED
    BY <2>1, <2>2 DEF Envelope, Held, Stages
<1> QED
  BY <1>2, <1>3
-----------------------------------------------------------------------------
BatchTyped ==
    /\ batch \in [DOMAIN batch -> Held] /\ DOMAIN batch \subseteq Old
    /\ \A m \in At("ended") \cup At("journalled") : batch[m].outcome \in Outcomes

LEMMA MovedTyped ==
  ASSUME Typed, next' = next, NEW m \in DOMAIN batch, NEW s \in Stages, NEW o \in Outcomes \cup {""},
         s \in {"ended", "journalled"} => o \in Outcomes, batch' = Moved(m, s, o)
  PROVE  BatchTyped'
<1>0. batch \in [DOMAIN batch -> Held] /\ batch[m] \in Held
  BY DEF Typed
<1> DEFINE e == [target |-> batch[m].target, lease |-> batch[m].lease, stage |-> s, outcome |-> o]
<1>1. /\ DOMAIN batch' = DOMAIN batch
      /\ \A x \in DOMAIN batch \ {m} : batch'[x] = batch[x]
      /\ batch'[m] = e
  BY DEF Moved, Typed
<1>2. e \in Held /\ e.stage = s /\ e.outcome = o
  BY <1>0 DEF Held
<1>3. batch' \in [DOMAIN batch' -> Held]
  <2>1. batch' = [batch EXCEPT ![m] = e]
    BY DEF Moved
  <2> HIDE DEF e
  <2> QED
    BY <1>0, <1>2, <2>1
<1>4. \A x \in At("ended")' \cup At("journalled")' : batch'[x].outcome \in Outcomes
  <2> SUFFICES ASSUME NEW x \in DOMAIN batch, batch'[x].stage \in {"ended", "journalled"}
               PROVE  batch'[x].outcome \in Outcomes
    BY <1>1 DEF At
  <2>1. CASE x = m
    BY <1>1, <1>2, <2>1
  <2>2. CASE x # m
    BY <1>1, <2>2 DEF Typed, At
  <2> QED
    BY <2>1, <2>2
<1> QED
  BY <1>1, <1>3, <1>4 DEF Typed, BatchTyped, Old

LEMMA WithoutTyped ==
  ASSUME Typed, next' = next, NEW S, batch' = Without(batch, S)
  PROVE  BatchTyped'
  BY DEF Typed, BatchTyped, Without, At, Old

\* A step of the loop or of a thread of its pool on one envelope.
LEMMA WorkTyped ==
  ASSUME Typed, NEW m \in Ids, Work(m) \/ AckLost(m)
  PROVE  Typed'
<1>0. /\ box \in [DOMAIN box -> Mail] /\ journal \in [DOMAIN journal -> Outcomes]
      /\ batch \in [DOMAIN batch -> Held] /\ handed \in [Agents -> Seq(Old)] /\ Typed
  BY DEF Typed
<1>1. CASE Dispatch(m) \/ Fail(m)
  <2>1. m \in DOMAIN batch /\ UNCHANGED <<box, next, journal, handed, crashes>>
    BY <1>1 DEF Dispatch, Fail, At
  <2>2. BatchTyped'
    <3>1. CASE Dispatch(m) /\ OnRecord(m)
      <4>1. journal[m] \in Outcomes /\ batch' = Moved(m, "journalled", journal[m])
        BY <1>0, <3>1 DEF Dispatch, OnRecord
      <4> QED
        BY <2>1, <4>1, MovedTyped, <1>0 DEF Stages
    <3>2. CASE Dispatch(m) /\ ~OnRecord(m)
      BY <2>1, <3>2, MovedTyped, <1>0 DEF Stages, Dispatch
    <3>3. CASE Fail(m)
      BY <2>1, <3>3, MovedTyped, <1>0 DEF Stages, Fail, Outcomes
    <3> QED
      BY <1>1, <3>1, <3>2, <3>3
  <2> QED
    BY <1>0, <2>1, <2>2 DEF Typed, BatchTyped, Old
<1>2. ASSUME NEW o \in Outcomes, HandOver(m, o) PROVE Typed'
  <2>1. m \in DOMAIN batch /\ UNCHANGED <<box, next, journal, crashes>> /\ batch' = Moved(m, "ended", o)
    BY <1>2 DEF HandOver, At
  <2>2. BatchTyped'
    BY <1>0, <2>1, MovedTyped DEF Stages
  <2>3. handed' \in [Agents -> Seq(Old)]
    <3>1. m \in Old /\ batch[m].target \in Agents
      BY <2>1 DEF Typed, Held
    <3> QED
      BY <1>0, <1>2, <3>1 DEF HandOver
  <2> QED
    BY <1>0, <2>1, <2>2, <2>3 DEF Typed, BatchTyped, Old
<1>3. CASE Journal(m)
  <2>1. m \in At("ended") /\ UNCHANGED <<box, next, handed, crashes>> /\ batch[m].outcome \in Outcomes
    BY <1>3 DEF Journal, Typed
  <2>2. BatchTyped'
    BY <1>0, <1>3, <2>1, MovedTyped DEF Stages, Journal, At
  <2>3. journal' \in [DOMAIN journal' -> Outcomes]
    BY <1>0, <1>3, <2>1 DEF Journal, Recorded
  <2> QED
    BY <1>0, <2>1, <2>2, <2>3 DEF Typed, BatchTyped, Old
<1>4. CASE Ack(m)
  <2>1. m \in At("journalled") /\ m \in DOMAIN box /\ batch[m].outcome \in Outcomes
        /\ UNCHANGED <<next, journal, handed, crashes>>
    BY <1>4 DEF Ack, Settles, Typed
  <2>2. BatchTyped'
    BY <1>0, <1>4, <2>1, WithoutTyped DEF Ack
  <2>3. /\ DOMAIN box' = DOMAIN box
        /\ \A x \in DOMAIN box \ {m} : box'[x] = box[x]
        /\ box'[m] = [target |-> box[m].target, status |-> batch[m].outcome, lease |-> box[m].lease,
                     held |-> box[m].held]
    BY <1>0, <1>4, <2>1, StatusIs DEF Ack
  <2>4. box'[m] \in Mail
    BY <1>0, <2>1, <2>3 DEF Mail
  <2>5. box' \in [DOMAIN box' -> Mail]
    BY <1>0, <1>4, <2>3, <2>4 DEF Ack
  <2> QED
    BY <1>0, <2>1, <2>2, <2>3, <2>5 DEF Typed, BatchTyped, Old
<1>5. CASE Skip(m) \/ AckRefused(m) \/ AckLost(m)
  <2>1. batch' = Without(batch, {m}) /\ UNCHANGED <<box, next, journal, handed, crashes>>
    BY <1>5 DEF Skip, AckRefused, AckLost
  <2>2. BatchTyped'
    BY <1>0, <2>1, WithoutTyped
  <2> QED
    BY <1>0, <2>1, <2>2 DEF Typed, BatchTyped, Old
<1> QED
  BY <1>1, <1>2, <1>3, <1>4, <1>5 DEF Work

LEMMA TypedKept == Typed /\ [Next]_vars => Typed'
<1> SUFFICES ASSUME Typed, [Next]_vars PROVE Typed'
  OBVIOUS
<1>1. ASSUME NEW t \in Agents, Accept(t) PROVE Typed'
  <2>0. next' = next + 1 /\ UNCHANGED <<batch, journal, handed, crashes>> /\ next \in Nat \ {0}
    BY <1>1, AcceptIs DEF Typed
  <2>1. Old \subseteq Old' /\ next \in Old' /\ next' \in Nat \ {0}
    BY <2>0 DEF Old
  <2>2. handed' \in [Agents -> Seq(Old')]
    <3>1. handed \in [Agents -> Seq(Old)]
      BY DEF Typed
    <3>2. \A a \in Agents : handed[a] \in Seq(Old')
      <4> SUFFICES ASSUME NEW a \in Agents PROVE handed[a] \in Seq(Old')
        OBVIOUS
      <4>1. handed[a] \in Seq(Old)
        BY <3>1
      <4> HIDE DEF Old
      <4> QED
        BY <2>1, <4>1
    <3> QED
      BY <2>0, <3>1, <3>2
  <2>3. box' \in [DOMAIN box' -> Mail] /\ DOMAIN box' \subseteq Old'
    BY <1>1, <2>1, AcceptIs DEF Typed
  <2>4. BatchTyped'
    BY <2>0, <2>1 DEF Typed, BatchTyped, At
  <2> QED
    BY <2>0, <2>1, <2>2, <2>3, <2>4 DEF Typed, BatchTyped
<1>2. ASSUME NEW t \in Agents, Flip(t) PROVE Typed'
  BY <1>2 DEF Flip, Typed, At, Old
<1>3. ASSUME NEW m \in Ids, Drop(m) \/ Forget(m) \/ Lapse(m) PROVE Typed'
  BY <1>3, DropIs DEF Rest, Typed, At, Old
<1>4. ASSUME NEW m \in Ids, Work(m) \/ AckLost(m) PROVE Typed'
  BY <1>4, WorkTyped
<1>5. ASSUME NEW m \in Ids, Prune(m) PROVE Typed'
  BY <1>5 DEF Prune, Without, Typed, At, Old
<1>6. CASE Poll
  <2>1. At("ended")' = {} /\ At("journalled")' = {}
    <3>1. \A m \in DOMAIN batch' : batch'[m] = Envelope(m)
      BY <1>6, BatchIs
    <3>2. ASSUME NEW m \in DOMAIN batch' PROVE batch'[m].stage = "fetched"
      <4>1. Envelope(m).stage = "fetched"
        BY DEF Envelope
      <4> QED
        BY <3>1, <4>1
    <3> QED
      BY <3>2 DEF At
  <2> QED
    BY <1>6, <2>1, PollIs, BatchIs DEF Typed, Old
<1>7. CASE PollLost
  <2>1. batch' = batch
    BY <1>7 DEF PollLost
  <2> QED
    BY <1>7, <2>1, PollIs DEF Typed, At, Old
<1>8. CASE Stop
  <2>1. BatchTyped' /\ UNCHANGED <<box, next, journal, handed, crashes>>
    BY <1>8, WithoutTyped DEF Stop
  <2> QED
    BY <2>1 DEF Typed, BatchTyped, Old
<1>9. CASE Start \/ Exit \/ UNCHANGED vars
  BY <1>9 DEF Start, Exit, vars, Typed, At, Old
<1>10. CASE Crash
  BY <1>10 DEF Crash, Typed, At, Old
<1> QED
  BY <1>1, <1>2, <1>3, <1>4, <1>5, <1>6, <1>7, <1>8, <1>9, <1>10 DEF Next, Environment, Worker, Faults
-----------------------------------------------------------------------------
(* The order in which sessions are handed their mail. *)

Waits(m) == m \in DOMAIN box /\ Hub!IsWaiting(box, m)

\* A session was handed nothing later than m.
NoLater(t, m) == \A i \in DOMAIN handed[t] : handed[t][i] <= m

Order ==
    /\ InQueueOrder
    /\ \A m \in DOMAIN box : Waits(m) => NoLater(box[m].target, m)
    /\ \A m \in DOMAIN batch : NoLater(batch[m].target, m)
    /\ \A m \in DOMAIN batch, w \in DOMAIN box :
           Waits(w) /\ box[w].target = batch[m].target => m <= w
    /\ \A m, n \in DOMAIN batch : batch[m].target = batch[n].target => m = n

\* No mail joins a queue and no envelope the batch.
Shrinks ==
    /\ \A m \in DOMAIN box' : Waits(m)' => Waits(m) /\ box'[m].target = box[m].target
    /\ \A m \in DOMAIN batch' : m \in DOMAIN batch /\ batch'[m].target = batch[m].target

LEMMA ShrinksOrdered == Order /\ Shrinks /\ handed' = handed => Order'
  BY DEF Order, Shrinks, InQueueOrder, NoLater, Waits

LEMMA MovedShrinks ==
  ASSUME Typed, NEW m \in DOMAIN batch, NEW s, NEW o, batch' = Moved(m, s, o), box' = box
  PROVE  Shrinks
<1>1. \A x \in DOMAIN batch' : x \in DOMAIN batch /\ batch'[x].target = batch[x].target
  BY DEF Moved, Typed
<1> QED
  BY <1>1 DEF Shrinks, Waits

LEMMA WithoutShrinks ==
  ASSUME NEW S, batch' = Without(batch, S), box' = box
  PROVE  Shrinks
  BY DEF Without, Shrinks, Waits

\* A settled message waits no longer.
LEMMA AckShrinks ==
  ASSUME Typed, NEW m \in Ids, Ack(m)
  PROVE  /\ Shrinks /\ UNCHANGED <<next, journal, handed, crashes>>
         /\ m \in DOMAIN batch /\ m \in DOMAIN box /\ m \in At("journalled") /\ batch[m].outcome \in Outcomes
         /\ DOMAIN box' = DOMAIN box
         /\ \A x \in DOMAIN box \ {m} : box'[x] = box[x]
         /\ box'[m].status = batch[m].outcome
<1>1. /\ m \in At("journalled") /\ m \in DOMAIN box /\ m \in DOMAIN batch /\ batch[m].outcome \in Outcomes
      /\ box' = [box EXCEPT ![m].status = batch[m].outcome] /\ batch' = Without(batch, {m})
      /\ UNCHANGED <<next, journal, handed, crashes>>
  BY DEF Ack, Settles, Typed, At
<1>2. box \in [DOMAIN box -> Mail]
  BY DEF Typed
<1> DEFINE o == batch[m].outcome
<1>3. /\ DOMAIN box' = DOMAIN box
      /\ \A x \in DOMAIN box \ {m} : box'[x] = box[x]
      /\ box'[m] = [target |-> box[m].target, status |-> o, lease |-> box[m].lease, held |-> box[m].held]
  BY <1>1, <1>2, StatusIs
<1>4. box'[m].status = o /\ box'[m].target = box[m].target /\ o \notin Hub!Waiting
  BY <1>1, <1>3 DEF Outcomes, Hub!Waiting
<1>5. \A x \in DOMAIN box' : Waits(x)' => Waits(x) /\ box'[x].target = box[x].target
  <2> SUFFICES ASSUME NEW x \in DOMAIN box', Waits(x)' PROVE Waits(x) /\ box'[x].target = box[x].target
    OBVIOUS
  <2>1. x # m
    BY <1>4 DEF Waits, Hub!IsWaiting, Hub!Waiting
  <2> QED
    BY <2>1, <1>3 DEF Waits, Hub!IsWaiting, Hub!Waiting
<1> QED
  BY <1>1, <1>3, <1>4, <1>5 DEF Shrinks, Without

LEMMA DropShrinks ==
  ASSUME Typed, NEW m \in Ids, Drop(m) \/ Forget(m) \/ Lapse(m)
  PROVE  Shrinks
<1>1. \A x \in DOMAIN box' : Waits(x)' => Waits(x) /\ box'[x].target = box[x].target
  BY DropIs DEF Waits, Hub!IsWaiting, Hub!Waiting
<1> QED
  BY <1>1, DropIs DEF Shrinks, Rest

\* All that the worker does with an envelope but to hand it over.
LEMMA WorkShrinks ==
  ASSUME Typed, NEW m \in Ids, Work(m) \/ AckLost(m), ~\E o \in Outcomes : HandOver(m, o)
  PROVE  Shrinks /\ handed' = handed
<1>1. CASE Dispatch(m)
  BY <1>1, MovedShrinks DEF Dispatch, At
<1>2. CASE Fail(m)
  BY <1>2, MovedShrinks DEF Fail, At
<1>3. CASE Journal(m)
  BY <1>3, MovedShrinks DEF Journal, At
<1>4. CASE Ack(m)
  BY <1>4, AckShrinks
<1>5. CASE Skip(m) \/ AckRefused(m) \/ AckLost(m)
  BY <1>5, WithoutShrinks DEF Skip, AckRefused, AckLost
<1> QED
  BY <1>1, <1>2, <1>3, <1>4, <1>5 DEF Work

\* A handover puts an envelope at the end of one session's history.
LEMMA HandOverIs ==
  ASSUME Typed, NEW m \in Ids, NEW o \in Outcomes, HandOver(m, o)
  PROVE  LET t == batch[m].target IN
         /\ m \in DOMAIN batch /\ m \in Old /\ t \in Agents /\ m \in At("running")
         /\ batch' = Moved(m, "ended", o) /\ UNCHANGED <<box, next, journal, crashes>>
         /\ \A a \in Agents \ {t} : handed'[a] = handed[a]
         /\ Len(handed[t]) \in Nat /\ DOMAIN handed[t] = 1..Len(handed[t])
         /\ DOMAIN handed'[t] = 1..(Len(handed[t]) + 1)
         /\ \A i \in DOMAIN handed[t] : handed'[t][i] = handed[t][i]
         /\ handed'[t][Len(handed[t]) + 1] = m
<1> DEFINE t == batch[m].target
<1>1. m \in DOMAIN batch /\ m \in At("running") /\ handed' = [handed EXCEPT ![t] = Append(@, m)]
  BY DEF HandOver, At
<1>2. m \in Old /\ t \in Agents /\ handed \in [Agents -> Seq(Old)]
  BY <1>1 DEF Typed, Held
<1>3. handed'[t] = Append(handed[t], m) /\ \A a \in Agents \ {t} : handed'[a] = handed[a]
  BY <1>1, <1>2
<1>4. handed[t] \in Seq(Old)
  BY <1>2
<1> HIDE DEF t
<1>5. /\ Len(handed[t]) \in Nat /\ DOMAIN handed[t] = 1..Len(handed[t])
      /\ DOMAIN handed'[t] = 1..(Len(handed[t]) + 1)
      /\ \A i \in DOMAIN handed[t] : handed'[t][i] = handed[t][i]
      /\ handed'[t][Len(handed[t]) + 1] = m
  BY <1>2, <1>3, <1>4
<1> QED
  BY <1>1, <1>2, <1>3, <1>5 DEF HandOver, t

\* What is handed over is not earlier than what its session has, and not later
\* than what is still to come.
LEMMA HandOverOrdered ==
  ASSUME Typed, Order, NEW m \in Ids, NEW o \in Outcomes, HandOver(m, o)
  PROVE  Order'
<1> DEFINE t == batch[m].target
           l == Len(handed[t])
<1>1. /\ m \in DOMAIN batch /\ m \in Nat /\ t \in Agents
      /\ batch' = Moved(m, "ended", o) /\ box' = box
      /\ \A a \in Agents \ {t} : handed'[a] = handed[a]
      /\ l \in Nat /\ DOMAIN handed[t] = 1..l /\ DOMAIN handed'[t] = 1..(l + 1)
      /\ \A i \in 1..l : handed'[t][i] = handed[t][i]
      /\ handed'[t][l + 1] = m
  BY HandOverIs DEF Old
<1>2. \A i \in 1..l : handed[t][i] <= m
  BY <1>1 DEF Order, NoLater
<1>3. /\ \A n \in DOMAIN box : n \in Nat /\ box[n].target \in Agents
      /\ \A n \in DOMAIN batch : n \in Nat /\ batch[n].target \in Agents
  <2>1. \A n \in DOMAIN box : box[n] \in Mail /\ n \in Old
    BY DEF Typed
  <2>2. \A n \in DOMAIN batch : batch[n] \in Held /\ n \in Old
    BY DEF Typed
  <2>3. \A n \in Old : n \in Nat
    BY DEF Old, Typed
  <2> QED
    BY <2>1, <2>2, <2>3 DEF Mail, Held
<1>4. /\ \A n \in DOMAIN box' : Waits(n)' => Waits(n) /\ box'[n].target = box[n].target
      /\ \A n \in DOMAIN batch' : n \in DOMAIN batch /\ batch'[n].target = batch[n].target
  BY <1>1, MovedShrinks DEF Shrinks
<1> HIDE DEF t, l
<1>5. ASSUME NEW a \in Agents, NEW n \in Nat, NoLater(a, n), a = t => m <= n
      PROVE  NoLater(a, n)'
  <2>1. CASE a # t
    BY <1>1, <1>5, <2>1 DEF NoLater
  <2>2. CASE a = t
    <3> SUFFICES ASSUME NEW i \in 1..(l + 1) PROVE handed'[t][i] <= n
      BY <1>1, <2>2 DEF NoLater
    <3>1. CASE i = l + 1
      BY <1>1, <1>5, <2>2, <3>1
    <3>2. CASE i # l + 1
      <4>1. i \in 1..l
        BY <1>1, <3>2
      <4> QED
        BY <1>1, <1>5, <2>2, <4>1 DEF NoLater
    <3> QED
      BY <3>1, <3>2
  <2> QED
    BY <2>1, <2>2
<1>6. ASSUME NEW a \in Agents, NEW i \in DOMAIN handed'[a], NEW j \in DOMAIN handed'[a], i < j
      PROVE  handed'[a][i] <= handed'[a][j]
  <2>1. CASE a # t
    BY <1>1, <1>6, <2>1 DEF Order, InQueueOrder
  <2>2. CASE a = t
    <3>1. i \in 1..(l + 1) /\ j \in 1..(l + 1)
      BY <1>1, <2>2
    <3>2. i \in 1..l
      BY <1>1, <1>6, <3>1
    <3>3. CASE j = l + 1
      BY <1>1, <1>2, <2>2, <3>2, <3>3
    <3>4. CASE j \in 1..l
      <4>1. handed[a][i] <= handed[a][j]
        BY <1>1, <1>6, <2>2, <3>2, <3>4 DEF Order, InQueueOrder
      <4> QED
        BY <1>1, <2>2, <3>2, <3>4, <4>1
    <3> QED
      BY <1>1, <3>1, <3>3, <3>4
  <2> QED
    BY <2>1, <2>2
<1>7. InQueueOrder'
  BY <1>6 DEF InQueueOrder
<1>8. ASSUME NEW n \in DOMAIN box', Waits(n)' PROVE NoLater(box[n].target, n)'
  <2>1. /\ Waits(n) /\ n \in DOMAIN box /\ box'[n].target = box[n].target
        /\ box[n].target \in Agents /\ n \in Nat
    BY <1>1, <1>3, <1>4, <1>8
  <2>2. NoLater(box[n].target, n) /\ (box[n].target = t => m <= n)
    BY <1>1, <2>1 DEF Order, t
  <2>3. NoLater(box[n].target, n)'
    <3> DEFINE a == box[n].target
    <3>1. a \in Agents /\ NoLater(a, n) /\ (a = t => m <= n) /\ box'[n].target = a
      BY <2>1, <2>2
    <3>2. \A i \in DOMAIN handed'[a] : handed'[a][i] <= n
      <4> HIDE DEF a
      <4> QED
        BY <1>5, <2>1, <3>1 DEF NoLater
    <3> QED
      BY <3>1, <3>2 DEF NoLater
  <2> QED
    BY <2>3
<1>9. ASSUME NEW n \in DOMAIN batch' PROVE NoLater(batch[n].target, n)'
  <2> DEFINE a == batch[n].target
  <2>1. n \in DOMAIN batch /\ batch'[n].target = a /\ a \in Agents /\ n \in Nat
    BY <1>3, <1>4
  <2>2. NoLater(a, n) /\ (a = t => n = m)
    BY <1>1, <2>1 DEF Order, t
  <2>3. \A i \in DOMAIN handed'[a] : handed'[a][i] <= n
    <3>1. a = t => m <= n
      BY <1>1, <2>2
    <3> HIDE DEF a
    <3> QED
      BY <1>5, <2>1, <2>2, <3>1 DEF NoLater
  <2> QED
    BY <2>1, <2>3 DEF NoLater
<1>10. /\ \A n \in DOMAIN batch', w \in DOMAIN box' :
             Waits(w)' /\ box'[w].target = batch'[n].target => n <= w
       /\ \A n, k \in DOMAIN batch' : batch'[n].target = batch'[k].target => n = k
  BY <1>1, <1>4 DEF Order
<1> QED
  BY <1>7, <1>8, <1>9, <1>10 DEF Order

\* The invariant of the order survives every step.
LEMMA OrderKept == Typed /\ Order /\ [Next]_vars => Order'
<1> SUFFICES ASSUME Typed, Order, [Next]_vars PROVE Order'
  OBVIOUS
<1>0. handed \in [Agents -> Seq(Old)] /\ next \in Nat /\ \A m \in DOMAIN batch : batch[m].target \in Agents /\ m \in Old
  BY DEF Typed, Held
<1>1. ASSUME NEW t \in Agents, Accept(t) PROVE Order'
  <2>1. ASSUME NEW a \in Agents PROVE NoLater(a, next)
    <3>1. handed[a] \in Seq(Old)
      BY <1>0
    <3>2. \A i \in DOMAIN handed[a] : handed[a][i] \in Old
      <4> HIDE DEF Old
      <4> QED
        BY <3>1
    <3>3. \A n \in Old : n <= next
      BY <1>0 DEF Old
    <3> QED
      BY <3>2, <3>3 DEF NoLater
  <2>2. UNCHANGED <<batch, handed>> /\ DOMAIN box' = DOMAIN box \cup {next} /\ next \notin DOMAIN box
        /\ box'[next].target = t /\ \A x \in DOMAIN box : box'[x] = box[x]
    <3>1. UNCHANGED <<batch, handed>> /\ DOMAIN box' = DOMAIN box \cup {next} /\ next \notin DOMAIN box
          /\ \A x \in DOMAIN box : box'[x] = box[x]
      BY <1>1, AcceptIs
    <3>2. box'[next] = [target |-> t, status |-> "accepted", lease |-> 0, held |-> FALSE]
      BY <1>1, AcceptIs
    <3> QED
      BY <3>1, <3>2
  <2>3. ASSUME NEW x \in DOMAIN box, Waits(x)' PROVE Waits(x)
    <3>1. box'[x] = box[x]
      BY <2>2
    <3> QED
      BY <2>3, <3>1 DEF Waits, Hub!IsWaiting, Hub!Waiting
  <2>4. InQueueOrder' /\ \A m \in DOMAIN batch' : NoLater(batch[m].target, m)'
    BY <2>2 DEF Order, InQueueOrder, NoLater
  <2>5. ASSUME NEW m \in DOMAIN box', Waits(m)' PROVE NoLater(box[m].target, m)'
    <3>1. CASE m = next
      BY <2>1, <2>2, <3>1 DEF NoLater
    <3>2. CASE m # next
      BY <2>2, <2>3, <2>5, <3>2 DEF Order, NoLater
    <3> QED
      BY <3>1, <3>2
  <2>6. ASSUME NEW m \in DOMAIN batch', NEW w \in DOMAIN box', Waits(w)', box'[w].target = batch'[m].target
        PROVE  m <= w
    <3>1. CASE w = next
      BY <1>0, <2>2, <3>1 DEF Old
    <3>2. CASE w # next
      BY <2>2, <2>3, <2>6, <3>2 DEF Order
    <3> QED
      BY <3>1, <3>2
  <2>7. \A m, n \in DOMAIN batch' : batch'[m].target = batch'[n].target => m = n
    BY <2>2 DEF Order
  <2> QED
    BY <2>4, <2>5, <2>6, <2>7 DEF Order
<1>2. ASSUME NEW m \in Ids, NEW o \in Outcomes, HandOver(m, o) PROVE Order'
  BY <1>2, HandOverOrdered
<1>3. ASSUME NEW m \in Ids, Work(m) \/ AckLost(m), ~\E o \in Outcomes : HandOver(m, o) PROVE Order'
  BY <1>3, WorkShrinks, ShrinksOrdered
<1>4. CASE Poll \/ PollLost
  <2>1. /\ DOMAIN batch = {} /\ handed' = handed /\ DOMAIN box' = DOMAIN box
        /\ Fetchable \in SUBSET DOMAIN box
        /\ \A m \in DOMAIN box \ Fetchable : box'[m] = box[m]
        /\ \A m \in Fetchable : Hub!IsHead(box, m) /\ box'[m].target = box[m].target
    <3>1. /\ UNCHANGED <<next, journal, handed, crashes>> /\ DOMAIN batch = {}
          /\ DOMAIN box' = DOMAIN box
          /\ Fetchable \in SUBSET DOMAIN box
          /\ \A m \in DOMAIN box \ Fetchable : box'[m] = box[m]
      BY <1>4, PollIs
    <3>2. ASSUME NEW m \in Fetchable PROVE Hub!IsHead(box, m) /\ box'[m].target = box[m].target
      <4>1. Hub!IsHead(box, m) /\ box'[m] = [target |-> box[m].target, status |-> "leased",
                                            lease |-> NewToken(m), held |-> TRUE]
        BY <1>4, PollIs
      <4> QED
        BY <4>1
    <3> QED
      BY <3>1, <3>2
  <2>2. ASSUME NEW m \in DOMAIN box', Waits(m)' PROVE Waits(m) /\ box'[m].target = box[m].target
    <3>1. CASE m \in Fetchable
      BY <2>1, <3>1 DEF Waits, Hub!IsHead
    <3>2. CASE m \notin Fetchable
      <4>1. box'[m] = box[m] /\ m \in DOMAIN box
        BY <2>1, <3>2
      <4> QED
        BY <2>2, <4>1 DEF Waits, Hub!IsWaiting, Hub!Waiting
    <3> QED
      BY <3>1, <3>2
  <2>3. ASSUME NEW m \in DOMAIN batch' PROVE m \in Fetchable /\ batch'[m].target = box[m].target
    <3>1. CASE Poll
      <4>1. m \in Fetchable /\ batch'[m] = Envelope(m)
        BY <3>1, BatchIs
      <4>2. Envelope(m).target = box[m].target
        BY DEF Envelope
      <4> QED
        BY <4>1, <4>2
    <3>2. CASE PollLost
      BY <2>1, <3>2 DEF PollLost
    <3> QED
      BY <1>4, <3>1, <3>2
  <2>4. /\ InQueueOrder'
        /\ \A m \in DOMAIN box' : Waits(m)' => NoLater(box[m].target, m)'
    BY <2>1, <2>2 DEF Order, InQueueOrder, NoLater
  <2>5. ASSUME NEW m \in DOMAIN batch' PROVE NoLater(batch[m].target, m)'
    <3>1. Waits(m) /\ m \in DOMAIN box /\ batch'[m].target = box[m].target
      BY <2>1, <2>3 DEF Waits, Hub!IsHead
    <3> QED
      BY <2>1, <3>1 DEF Order, NoLater
  <2>6. ASSUME NEW m \in DOMAIN batch', NEW w \in DOMAIN box', Waits(w)', box'[w].target = batch'[m].target
        PROVE  m <= w
    BY <2>1, <2>2, <2>3, <2>6 DEF Waits, Hub!IsHead
  <2>7. ASSUME NEW m \in DOMAIN batch', NEW n \in DOMAIN batch', batch'[m].target = batch'[n].target
        PROVE  m = n
    <3>1. m <= n /\ n <= m /\ m \in Nat /\ n \in Nat
      BY <2>1, <2>3, <2>7 DEF Hub!IsHead, Typed, Old
    <3> QED
      BY <3>1
  <2> QED
    BY <2>4, <2>5, <2>6, <2>7 DEF Order
<1>6. ASSUME NEW m \in Ids, Drop(m) \/ Forget(m) \/ Lapse(m) PROVE Order'
  BY <1>6, DropShrinks, DropIs, ShrinksOrdered DEF Rest
<1>7. CASE Stop
  BY <1>7, WithoutShrinks, ShrinksOrdered DEF Stop
<1>8. CASE Crash
  <2>1. Shrinks
    BY <1>8 DEF Crash, Shrinks, Waits
  <2> QED
    BY <1>8, <2>1, ShrinksOrdered DEF Crash
<1>9. ASSUME UNCHANGED <<box, batch, handed>> PROVE Order'
  <2>1. Shrinks
    BY <1>9 DEF Shrinks, Waits
  <2> QED
    BY <1>9, <2>1, ShrinksOrdered
<1>10. ASSUME NEW t \in Agents, Flip(t) PROVE Order'
  BY <1>9, <1>10 DEF Flip
<1>11. ASSUME NEW m \in Ids, Prune(m) PROVE Order'
  BY <1>9, <1>11 DEF Prune
<1>12. CASE Start \/ Exit \/ UNCHANGED vars
  BY <1>9, <1>12 DEF Start, Exit, vars
<1> QED
  BY <1>1, <1>2, <1>3, <1>4, <1>6, <1>7, <1>8, <1>10, <1>11, <1>12 DEF Next, Environment, Worker, Faults, Work

-----------------------------------------------------------------------------
(* What a session was handed, and what is reported of it. *)

LEMMA GivenHas ==
  ASSUME NEW m, NEW x
  PROVE  /\ x \in Given(m) <=> \E t \in Agents : \E i \in DOMAIN handed[t] : x = <<t, i>> /\ handed[t][i] = m
         /\ x \in Given(m)' <=> \E t \in Agents : \E i \in DOMAIN handed'[t] : x = <<t, i>> /\ handed'[t][i] = m
<1>1. ASSUME NEW h
      PROVE  x \in UNION {{t} \X DOMAIN h[t] : t \in Agents}
               <=> \E t \in Agents : \E i \in DOMAIN h[t] : x = <<t, i>>
  OBVIOUS
<1>2. ASSUME NEW h
      PROVE  x \in {y \in UNION {{t} \X DOMAIN h[t] : t \in Agents} : h[y[1]][y[2]] = m}
               <=> \E t \in Agents : \E i \in DOMAIN h[t] : x = <<t, i>> /\ h[t][i] = m
  <2>1. \A t \in Agents : \A i \in DOMAIN h[t] : <<t, i>>[1] = t /\ <<t, i>>[2] = i
    OBVIOUS
  <2> QED
    BY <1>1, <2>1
<1> QED
  BY <1>2 DEF Given

LEMMA GivenStays == \A m : handed' = handed => Given(m)' = Given(m)
  BY DEF Given

LEMMA GivenGrows ==
  ASSUME Typed, NEW m \in Ids, NEW o \in Outcomes, HandOver(m, o)
  PROVE  /\ \A x : x # m => Given(x)' = Given(x)
         /\ \E p : Given(m)' = Given(m) \cup {p} /\ p \notin Given(m)
<1> DEFINE t == batch[m].target
           l == Len(handed[t])
<1>1. /\ t \in Agents /\ l \in Nat /\ DOMAIN handed[t] = 1..l /\ DOMAIN handed'[t] = 1..(l + 1)
      /\ \A a \in Agents \ {t} : handed'[a] = handed[a]
      /\ \A i \in 1..l : handed'[t][i] = handed[t][i]
      /\ handed'[t][l + 1] = m
  BY HandOverIs
<1>2. l + 1 \notin 1..l /\ 1..(l + 1) = 1..l \cup {l + 1}
  BY <1>1
<1> HIDE DEF t, l
<1>3. ASSUME NEW x, NEW y
      PROVE  y \in Given(x)' <=> y \in Given(x) \/ (x = m /\ y = <<t, l + 1>>)
  <2>1. y \in Given(x)' <=> \E a \in Agents : \E i \in DOMAIN handed'[a] : y = <<a, i>> /\ handed'[a][i] = x
    BY GivenHas
  <2>2. (\E a \in Agents : \E i \in DOMAIN handed'[a] : y = <<a, i>> /\ handed'[a][i] = x)
          <=> \/ \E a \in Agents : \E i \in DOMAIN handed[a] : y = <<a, i>> /\ handed[a][i] = x
              \/ x = m /\ y = <<t, l + 1>>
    <3>1. ASSUME NEW a \in Agents, NEW i \in DOMAIN handed'[a], y = <<a, i>>, handed'[a][i] = x
          PROVE  \/ \E b \in Agents : \E j \in DOMAIN handed[b] : y = <<b, j>> /\ handed[b][j] = x
                 \/ x = m /\ y = <<t, l + 1>>
      <4>1. CASE a # t
        BY <1>1, <3>1, <4>1
      <4>2. CASE a = t /\ i = l + 1
        BY <1>1, <3>1, <4>2
      <4>3. CASE a = t /\ i \in 1..l
        BY <1>1, <3>1, <4>3
      <4> QED
        BY <1>1, <1>2, <3>1, <4>1, <4>2, <4>3
    <3>2. ASSUME NEW a \in Agents, NEW i \in DOMAIN handed[a], y = <<a, i>>, handed[a][i] = x
          PROVE  \E b \in Agents : \E j \in DOMAIN handed'[b] : y = <<b, j>> /\ handed'[b][j] = x
      <4>1. i \in DOMAIN handed'[a] /\ handed'[a][i] = x
        BY <1>1, <1>2, <3>2
      <4> QED
        BY <3>2, <4>1
    <3>3. ASSUME x = m, y = <<t, l + 1>>
          PROVE  \E b \in Agents : \E j \in DOMAIN handed'[b] : y = <<b, j>> /\ handed'[b][j] = x
      BY <1>1, <1>2, <3>3
    <3> QED
      BY <3>1, <3>2, <3>3
  <2> QED
    BY <2>1, <2>2, GivenHas
<1>4. <<t, l + 1>> \notin Given(m)
  <2> SUFFICES ASSUME NEW a \in Agents, NEW i \in DOMAIN handed[a], <<t, l + 1>> = <<a, i>> PROVE FALSE
    BY GivenHas
  <2> QED
    BY <1>1, <1>2
<1>5. Given(m)' = Given(m) \cup {<<t, l + 1>>}
  <2>1. \A y : y \in Given(m)' <=> y \in Given(m) \/ y = <<t, l + 1>>
    BY <1>3
  <2> QED
    BY <2>1
<1>6. ASSUME NEW x, x # m PROVE Given(x)' = Given(x)
  <2>1. \A y : y \in Given(x)' <=> y \in Given(x)
    BY <1>3, <1>6
  <2> QED
    BY <2>1
<1> QED
  BY <1>4, <1>5, <1>6

\* What holds between the hub's report, the journal, the batch and the sessions.
Receipts ==
    /\ \A m \in DOMAIN batch \cap DOMAIN box : box[m].status \notin Outcomes
    /\ \A m \in At("journalled") : m \in DOMAIN journal /\ journal[m] = batch[m].outcome
    /\ \A m \in At("running") \cup At("ended") : m \notin DOMAIN journal
    /\ \A m \in DOMAIN batch : batch[m].outcome = "delivered" => Given(m) # {}
    /\ \A m \in DOMAIN journal : journal[m] = "delivered" => Given(m) # {}
    /\ \A m \in DOMAIN box : box[m].status = "delivered" => Given(m) # {}
    /\ \A m \in DOMAIN box \cap DOMAIN journal : box[m].status \in Outcomes => journal[m] = box[m].status

\* Envelopes leave the batch, messages change without an outcome.
LEMMA ReceiptsStay ==
  ASSUME Receipts, UNCHANGED <<journal, handed>>,
         \A m \in DOMAIN batch' : m \in DOMAIN batch /\ batch'[m] = batch[m],
         \A m \in DOMAIN box' : \/ m \in DOMAIN box /\ box'[m].status = box[m].status
                                \/ box'[m].status \notin Outcomes
  PROVE  Receipts'
<1>1. \A m : Given(m)' = Given(m)
  BY GivenStays
<1>2. \A m \in DOMAIN box' : box'[m].status \in Outcomes => m \in DOMAIN box /\ box'[m].status = box[m].status
  OBVIOUS
<1>3. "delivered" \in Outcomes
  BY DEF Outcomes
<1> QED
  BY <1>1, <1>2, <1>3 DEF Receipts, At

\* One envelope moves on, and the journal may gain an entry for it.
LEMMA ReceiptsMove ==
  ASSUME Typed, Receipts, NEW m \in DOMAIN batch, NEW s \in Stages, NEW o \in Outcomes \cup {""},
         batch' = Moved(m, s, o), box' = box,
         \A x : Given(x) \subseteq Given(x)',
         o = "delivered" => Given(m)' # {},
         \/ journal' = journal
         \/ journal' = Recorded(m) /\ o = batch[m].outcome,
         \/ s = "journalled" /\ m \in DOMAIN journal' /\ journal'[m] = o
         \/ s \in {"running", "ended"} /\ m \notin DOMAIN journal'
  PROVE  Receipts'
<1>1. /\ DOMAIN batch' = DOMAIN batch
      /\ \A x \in DOMAIN batch \ {m} : batch'[x] = batch[x]
      /\ batch'[m].stage = s /\ batch'[m].outcome = o
  BY DEF Moved, Typed
<1>2. /\ DOMAIN journal' \subseteq DOMAIN journal \cup {m}
      /\ \A x \in DOMAIN journal \ {m} : x \in DOMAIN journal' /\ journal'[x] = journal[x]
  BY DEF Recorded
<1>3. m \in DOMAIN journal' => \/ m \in DOMAIN journal /\ journal'[m] = journal[m]
                               \/ journal'[m] = o
  BY DEF Recorded
<1>4. \A x \in DOMAIN journal' : journal'[x] = "delivered" => Given(x)' # {}
  BY <1>2, <1>3 DEF Receipts
<1>5. \A x \in At("journalled")' : x \in DOMAIN journal' /\ journal'[x] = batch'[x].outcome
  BY <1>1, <1>2 DEF Receipts, At
<1>6. ASSUME NEW x \in DOMAIN batch', batch'[x].stage \in {"running", "ended"}
      PROVE  x \notin DOMAIN journal'
  <2>1. CASE x = m
    BY <1>1, <1>6, <2>1
  <2>2. CASE x # m
    <3>1. x \notin DOMAIN journal
      BY <1>1, <1>6, <2>2 DEF Receipts, At
    <3> QED
      BY <1>2, <2>2, <3>1
  <2> QED
    BY <2>1, <2>2
<1>7. \A x \in DOMAIN batch' : batch'[x].outcome = "delivered" => Given(x)' # {}
  BY <1>1 DEF Receipts
<1>8. \A x \in DOMAIN box' \cap DOMAIN journal' : box'[x].status \in Outcomes => journal'[x] = box'[x].status
  BY <1>2 DEF Receipts
<1>9. \A x \in At("running")' \cup At("ended")' : x \notin DOMAIN journal'
  BY <1>6 DEF At
<1> QED
  BY <1>1, <1>4, <1>5, <1>7, <1>8, <1>9 DEF Receipts

LEMMA WorkReceipts ==
  ASSUME Typed, Receipts, NEW m \in Ids, Work(m) \/ AckLost(m)
  PROVE  Receipts'
<1>1. ASSUME handed' = handed PROVE \A x : Given(x)' = Given(x)
  BY <1>1, GivenStays
<1>2. CASE Dispatch(m)
  <2>1. m \in DOMAIN batch /\ UNCHANGED <<box, journal, handed>> /\ \A x : Given(x)' = Given(x)
    BY <1>1, <1>2 DEF Dispatch, At
  <2>2. CASE OnRecord(m)
    <3>1. batch' = Moved(m, "journalled", journal[m]) /\ m \in DOMAIN journal /\ journal[m] \in Outcomes
      BY <1>2, <2>2 DEF Dispatch, OnRecord, Typed
    <3>2. journal[m] = "delivered" => Given(m)' # {}
      BY <2>1, <3>1 DEF Receipts
    <3>3. "journalled" \in Stages /\ "journalled" \notin {"running", "ended"}
      BY DEF Stages
    <3> DEFINE o == journal[m]
    <3>4. /\ batch' = Moved(m, "journalled", o) /\ o \in Outcomes \cup {""} /\ journal' = journal
          /\ m \in DOMAIN journal' /\ journal'[m] = o /\ (o = "delivered" => Given(m)' # {})
      BY <2>1, <3>1, <3>2
    <3>5. \A x : Given(x) \subseteq Given(x)'
      BY <2>1
    <3> HIDE DEF o
    <3> QED
      BY <2>1, <3>3, <3>4, <3>5, ReceiptsMove, Zenon
  <2>3. CASE ~OnRecord(m)
    <3>1. batch' = Moved(m, "running", "") /\ m \notin DOMAIN journal
      BY <1>2, <2>3 DEF Dispatch, OnRecord
    <3>2. "running" \in Stages /\ "running" # "journalled" /\ "" # "delivered"
      BY DEF Stages
    <3>3. \A x : Given(x) \subseteq Given(x)'
      BY <2>1
    <3>4. journal' = journal /\ box' = box /\ m \in DOMAIN batch /\ m \notin DOMAIN journal'
      BY <2>1, <3>1
    <3>5. "running" \in {"running", "ended"} /\ "" \in Outcomes \cup {""}
      OBVIOUS
    <3> QED
      BY <3>1, <3>2, <3>3, <3>4, <3>5, ReceiptsMove, Zenon
  <2> QED
    BY <2>2, <2>3
<1>3. CASE Fail(m)
  <2>1. m \in DOMAIN batch /\ UNCHANGED <<box, journal, handed>> /\ \A x : Given(x)' = Given(x)
        /\ batch' = Moved(m, "ended", "failed") /\ m \notin DOMAIN journal
    BY <1>1, <1>3 DEF Fail, At, Receipts
  <2>2. "ended" \in Stages /\ "ended" \in {"running", "ended"} /\ "failed" # "delivered"
    BY DEF Stages
  <2>3. \A x : Given(x) \subseteq Given(x)'
    BY <2>1
  <2>4. "failed" \in Outcomes \cup {""} /\ m \notin DOMAIN journal' /\ journal' = journal /\ box' = box
    BY <2>1 DEF Outcomes
  <2> QED
    BY <2>1, <2>2, <2>3, <2>4, ReceiptsMove, Zenon
<1>4. ASSUME NEW o \in Outcomes, HandOver(m, o) PROVE Receipts'
  <2>1. m \in DOMAIN batch /\ UNCHANGED <<box, journal>> /\ batch' = Moved(m, "ended", o) /\ m \in At("running")
    BY <1>4, HandOverIs
  <2>2. (\A x : Given(x) \subseteq Given(x)') /\ Given(m)' # {}
    BY <1>4, GivenGrows
  <2>3. m \notin DOMAIN journal
    BY <2>1 DEF Receipts
  <2>4. "ended" \in Stages /\ "ended" \in {"running", "ended"} /\ o \in Outcomes \cup {""}
    BY DEF Stages
  <2>5. m \notin DOMAIN journal' /\ journal' = journal /\ box' = box
    BY <2>1, <2>3
  <2> QED
    BY <2>1, <2>2, <2>4, <2>5, ReceiptsMove, Zenon
<1>5. CASE Journal(m)
  <2>1. m \in DOMAIN batch /\ UNCHANGED <<box, handed>> /\ journal' = Recorded(m)
        /\ batch' = Moved(m, "journalled", batch[m].outcome) /\ batch[m].outcome \in Outcomes
    BY <1>5 DEF Journal, At, Typed
  <2>2. m \in DOMAIN journal' /\ journal'[m] = batch[m].outcome
    BY <2>1 DEF Recorded
  <2>3. batch[m].outcome = "delivered" => Given(m)' # {}
    BY <1>1, <2>1 DEF Receipts
  <2> DEFINE o == batch[m].outcome
  <2>4. \A x : Given(x) \subseteq Given(x)'
    BY <1>1, <2>1
  <2>5. "journalled" \in Stages /\ "journalled" \notin {"running", "ended"}
    BY DEF Stages
  <2>6. batch' = Moved(m, "journalled", o) /\ o = batch[m].outcome /\ o \in Outcomes \cup {""}
    BY <2>1
  <2> HIDE DEF o
  <2> QED
    BY <2>1, <2>2, <2>3, <2>4, <2>5, <2>6, ReceiptsMove
<1>6. CASE Ack(m)
  <2>1. /\ UNCHANGED <<journal, handed>> /\ m \in At("journalled") /\ m \in DOMAIN batch
        /\ DOMAIN box' = DOMAIN box /\ m \in DOMAIN box
        /\ \A x \in DOMAIN box \ {m} : box'[x] = box[x]
        /\ box'[m].status = batch[m].outcome
        /\ \A x : Given(x)' = Given(x)
    BY <1>1, <1>6, AckShrinks
  <2>2. m \notin DOMAIN batch' /\ \A x \in DOMAIN batch' : x \in DOMAIN batch /\ batch'[x] = batch[x]
    BY <1>6 DEF Ack, Without
  <2>3. journal[m] = batch[m].outcome /\ (batch[m].outcome = "delivered" => Given(m) # {})
    BY <2>1 DEF Receipts
  <2> QED
    BY <2>1, <2>2, <2>3 DEF Receipts, At
<1>7. CASE Skip(m) \/ AckRefused(m) \/ AckLost(m)
  <2>1. batch' = Without(batch, {m}) /\ UNCHANGED <<box, journal, handed>>
    BY <1>7 DEF Skip, AckRefused, AckLost
  <2>2. \A x \in DOMAIN batch' : x \in DOMAIN batch /\ batch'[x] = batch[x]
    BY <2>1 DEF Without
  <2> QED
    BY <2>1, <2>2, ReceiptsStay
<1> QED
  BY <1>2, <1>3, <1>4, <1>5, <1>6, <1>7 DEF Work

LEMMA ReceiptsKept == Typed /\ Receipts /\ [Next]_vars => Receipts'
<1> SUFFICES ASSUME Typed, Receipts, [Next]_vars PROVE Receipts'
  OBVIOUS
<1>0. "accepted" \notin Outcomes /\ "leased" \notin Outcomes /\ "expired" \notin Outcomes
  BY DEF Outcomes
<1>1. ASSUME NEW t \in Agents, Accept(t) PROVE Receipts'
  <2>1. UNCHANGED <<batch, journal, handed>> /\ DOMAIN box' = DOMAIN box \cup {next}
        /\ \A x \in DOMAIN box : box'[x] = box[x]
    BY <1>1, AcceptIs
  <2>2. box'[next].status = "accepted"
    <3>1. box'[next] = [target |-> t, status |-> "accepted", lease |-> 0, held |-> FALSE]
      BY <1>1, AcceptIs
    <3> QED
      BY <3>1
  <2> QED
    BY <1>0, <2>1, <2>2, ReceiptsStay
<1>2. ASSUME NEW m \in Ids, Drop(m) \/ Forget(m) \/ Lapse(m) PROVE Receipts'
  <2>1. UNCHANGED <<batch, journal, handed>> /\ DOMAIN box' \subseteq DOMAIN box
        /\ \A x \in DOMAIN box' : box'[x].status = box[x].status \/ box'[x].status = "expired"
    BY <1>2, DropIs DEF Rest
  <2> QED
    BY <1>0, <2>1, ReceiptsStay
<1>3. ASSUME NEW m \in Ids, Work(m) \/ AckLost(m) PROVE Receipts'
  BY <1>3, WorkReceipts
<1>4. ASSUME Poll \/ PollLost
      PROVE  /\ UNCHANGED <<journal, handed>> /\ DOMAIN batch = {} /\ Fetchable \in SUBSET DOMAIN box
             /\ DOMAIN box' = DOMAIN box
             /\ \A m \in DOMAIN box \ Fetchable : box'[m] = box[m]
             /\ \A m \in Fetchable : box'[m].status = "leased"
  <2>1. ASSUME NEW m \in Fetchable PROVE box'[m].status = "leased"
    <3>1. box'[m] = [target |-> box[m].target, status |-> "leased", lease |-> NewToken(m), held |-> TRUE]
      BY <1>4, PollIs
    <3> QED
      BY <3>1
  <2> QED
    BY <1>4, <2>1, PollIs
<1>5. CASE Poll
  <2>1. ASSUME NEW m \in DOMAIN batch'
        PROVE  m \in Fetchable /\ batch'[m].stage = "fetched" /\ batch'[m].outcome = ""
    <3>1. m \in Fetchable /\ batch'[m] = Envelope(m)
      BY <1>5, BatchIs
    <3>2. Envelope(m).stage = "fetched" /\ Envelope(m).outcome = ""
      BY DEF Envelope
    <3> QED
      BY <3>1, <3>2
  <2>2. \A m : Given(m)' = Given(m)
    BY <1>4, <1>5, GivenStays
  <2>3. \A m \in DOMAIN box' : m \in DOMAIN box /\ (box'[m].status \in Outcomes => box'[m] = box[m])
    BY <1>0, <1>4, <1>5
  <2>4. "delivered" \in Outcomes
    BY DEF Outcomes
  <2>5. \A m \in DOMAIN batch' \cap DOMAIN box' : box'[m].status \notin Outcomes
    BY <1>0, <1>4, <1>5, <2>1
  <2>6. At("journalled")' = {} /\ At("running")' = {} /\ At("ended")' = {}
    BY <2>1 DEF At
  <2> QED
    BY <1>4, <1>5, <2>1, <2>2, <2>3, <2>4, <2>5, <2>6 DEF Receipts
<1>6. CASE PollLost
  <2>1. batch' = batch
    BY <1>6 DEF PollLost
  <2>2. \A m \in DOMAIN box' : \/ m \in DOMAIN box /\ box'[m].status = box[m].status
                               \/ box'[m].status \notin Outcomes
    BY <1>0, <1>4, <1>6
  <2> QED
    BY <1>4, <1>6, <2>1, <2>2, ReceiptsStay
<1>7. ASSUME NEW m \in Ids, Prune(m) PROVE Receipts'
  <2>1. UNCHANGED <<box, batch, handed>> /\ DOMAIN batch = {} /\ journal' = Without(journal, {m})
    BY <1>7 DEF Prune
  <2>2. DOMAIN journal' \subseteq DOMAIN journal /\ \A x \in DOMAIN journal' : journal'[x] = journal[x]
    BY <2>1 DEF Without
  <2>3. \A x : Given(x)' = Given(x)
    BY <2>1, GivenStays
  <2> QED
    BY <2>1, <2>2, <2>3 DEF Receipts, At
<1>8. CASE Stop
  <2>1. \A x \in DOMAIN batch' : x \in DOMAIN batch /\ batch'[x] = batch[x]
    BY <1>8 DEF Stop, Without
  <2> QED
    BY <1>8, <2>1, ReceiptsStay DEF Stop
<1>9. CASE Crash
  BY <1>9, ReceiptsStay DEF Crash
<1>10. ASSUME NEW t \in Agents, Flip(t) PROVE Receipts'
  BY <1>10, ReceiptsStay DEF Flip
<1>11. CASE Start \/ Exit \/ UNCHANGED vars
  BY <1>11, ReceiptsStay DEF Start, Exit, vars
<1> QED
  BY <1>1, <1>2, <1>3, <1>5, <1>6, <1>7, <1>8, <1>9, <1>10, <1>11 DEF Next, Environment, Worker, Faults

-----------------------------------------------------------------------------
(* How often a session is handed a message. *)

\* What the worker may still hand over: not on record, not handed over since
\* the worker started, and waiting at the hub or fetched.
Again(m) ==
    /\ m \notin DOMAIN journal /\ m \notin At("ended")
    /\ Waits(m) \/ m \in DOMAIN batch

Counted ==
    \A m \in Nat : /\ IsFiniteSet(Given(m))
                   /\ Handovers(m) <= 1 + crashes
                   /\ Again(m) => Handovers(m) <= crashes

LEMMA CountedStays ==
  ASSUME Counted, UNCHANGED <<handed, crashes>>, \A m \in Nat : Again(m)' => Again(m)
  PROVE  Counted'
<1>1. \A m : Given(m)' = Given(m)
  BY GivenStays
<1> QED
  BY <1>1 DEF Counted, Handovers

LEMMA WorkCounted ==
  ASSUME Typed, Receipts, Counted, NEW m \in Ids, Work(m) \/ AckLost(m)
  PROVE  Counted'
<1>1. CASE Dispatch(m)
  <2>1. m \in DOMAIN batch /\ UNCHANGED <<box, journal, handed, crashes>>
        /\ \E s \in {"journalled", "running"} : \E o : batch' = Moved(m, s, o)
    BY <1>1 DEF Dispatch, At
  <2>2. DOMAIN batch' = DOMAIN batch /\ \A x \in DOMAIN batch \ {m} : batch'[x] = batch[x]
    BY <2>1 DEF Moved, Typed
  <2>3. m \notin At("ended")
    BY <1>1 DEF Dispatch, At
  <2>4. ASSUME NEW x \in Nat, Again(x)' PROVE Again(x)
    <3>1. x \notin At("ended")
      BY <2>2, <2>3, <2>4 DEF Again, At
    <3> QED
      BY <2>1, <2>2, <2>4, <3>1 DEF Again, Waits
  <2> QED
    BY <2>1, <2>4, CountedStays
<1>2. CASE Fail(m)
  <2>1. m \in DOMAIN batch /\ UNCHANGED <<box, journal, handed, crashes>> /\ batch' = Moved(m, "ended", "failed")
        /\ m \notin At("ended")
    BY <1>2 DEF Fail, At
  <2>2. DOMAIN batch' = DOMAIN batch /\ \A x \in DOMAIN batch \ {m} : batch'[x] = batch[x]
    BY <2>1 DEF Moved, Typed
  <2>3. ASSUME NEW x \in Nat, Again(x)' PROVE Again(x)
    <3>1. x \notin At("ended")
      BY <2>1, <2>2, <2>3 DEF Again, At
    <3> QED
      BY <2>1, <2>2, <2>3, <3>1 DEF Again, Waits
  <2> QED
    BY <2>1, <2>3, CountedStays
<1>3. CASE Journal(m)
  <2>1. m \in DOMAIN batch /\ UNCHANGED <<box, handed, crashes>> /\ batch' = Moved(m, "journalled", batch[m].outcome)
        /\ DOMAIN journal' = DOMAIN journal \cup {m}
    BY <1>3 DEF Journal, At, Recorded
  <2>2. DOMAIN batch' = DOMAIN batch /\ \A x \in DOMAIN batch \ {m} : batch'[x] = batch[x]
    BY <2>1 DEF Moved, Typed
  <2>3. ASSUME NEW x \in Nat, Again(x)' PROVE Again(x)
    <3>1. x # m /\ x \notin DOMAIN journal
      BY <2>1, <2>3 DEF Again
    <3>2. x \notin At("ended")
      BY <2>2, <2>3, <3>1 DEF Again, At
    <3> QED
      BY <2>1, <2>2, <2>3, <3>1, <3>2 DEF Again, Waits
  <2> QED
    BY <2>1, <2>3, CountedStays
<1>4. ASSUME m \in DOMAIN batch, batch' = Without(batch, {m}), UNCHANGED <<journal, handed, crashes>>,
             \A x \in Nat : Waits(x)' => Waits(x), m \notin At("ended")
      PROVE  Counted'
  <2>1. DOMAIN batch' = DOMAIN batch \ {m} /\ \A x \in DOMAIN batch' : batch'[x] = batch[x]
    BY <1>4 DEF Without
  <2>2. ASSUME NEW x \in Nat, Again(x)' PROVE Again(x)
    BY <1>4, <2>1, <2>2 DEF Again, At
  <2> QED
    BY <1>4, <2>2, CountedStays
<1>5. CASE Ack(m)
  <2>1. /\ Shrinks /\ UNCHANGED <<journal, handed, crashes>> /\ m \in DOMAIN batch /\ m \in At("journalled")
        /\ batch' = Without(batch, {m})
    BY <1>5, AckShrinks DEF Ack
  <2>2. \A x \in Nat : Waits(x)' => Waits(x)
    BY <2>1 DEF Shrinks, Waits
  <2>3. m \notin At("ended")
    BY <2>1 DEF At
  <2> QED
    BY <1>4, <2>1, <2>2, <2>3
<1>6. CASE Skip(m) \/ AckRefused(m) \/ AckLost(m)
  <2>1. /\ m \in DOMAIN batch /\ m \notin At("ended") /\ batch' = Without(batch, {m})
        /\ UNCHANGED <<box, journal, handed, crashes>>
    BY <1>6 DEF Skip, AckRefused, AckLost, At
  <2> QED
    BY <1>4, <2>1 DEF Waits
<1>7. ASSUME NEW o \in Outcomes, HandOver(m, o) PROVE Counted'
  <2>1. /\ m \in DOMAIN batch /\ m \in At("running") /\ batch' = Moved(m, "ended", o) /\ m \in Nat
        /\ UNCHANGED <<box, journal, crashes>>
    BY <1>7, HandOverIs DEF Old
  <2>2. DOMAIN batch' = DOMAIN batch /\ (\A x \in DOMAIN batch \ {m} : batch'[x] = batch[x])
        /\ m \in At("ended")'
    BY <2>1 DEF Moved, Typed, At
  <2>3. Again(m)
    BY <2>1 DEF Receipts, Again, At
  <2>4. PICK p : Given(m)' = Given(m) \cup {p} /\ p \notin Given(m)
    BY <1>7, GivenGrows
  <2>5. IsFiniteSet(Given(m)') /\ Handovers(m)' = Handovers(m) + 1
    BY <2>1, <2>4, FS_AddElement DEF Counted, Handovers
  <2>6. Handovers(m) \in Nat /\ Handovers(m) <= crashes /\ crashes \in Nat
    BY <2>1, <2>3, FS_CardinalityType DEF Counted, Handovers, Typed
  <2>7. ASSUME NEW x \in Nat, x # m
        PROVE  /\ IsFiniteSet(Given(x)') /\ Handovers(x)' <= 1 + crashes'
               /\ Again(x)' => Handovers(x)' <= crashes'
    <3>1. Given(x)' = Given(x)
      BY <1>7, <2>7, GivenGrows
    <3>2. Again(x)' => Again(x)
      BY <2>1, <2>2, <2>7 DEF Again, At, Waits
    <3> QED
      BY <2>1, <3>1, <3>2 DEF Counted, Handovers
  <2>8. ~Again(m)'
    BY <2>2 DEF Again
  <2>9. Handovers(m)' <= 1 + crashes'
    BY <2>1, <2>5, <2>6
  <2> QED
    BY <2>5, <2>7, <2>8, <2>9 DEF Counted
<1> QED
  BY <1>1, <1>2, <1>3, <1>5, <1>6, <1>7 DEF Work

LEMMA CountedKept == Typed /\ Receipts /\ Counted /\ [Next]_vars => Counted'
<1> SUFFICES ASSUME Typed, Receipts, Counted, [Next]_vars PROVE Counted'
  OBVIOUS
<1>1. ASSUME NEW t \in Agents, Accept(t) PROVE Counted'
  <2>1. UNCHANGED <<batch, journal, handed, crashes>> /\ DOMAIN box' = DOMAIN box \cup {next}
        /\ \A x \in DOMAIN box : box'[x] = box[x]
    BY <1>1, AcceptIs
  <2>2. Given(next) = {}
    <3> SUFFICES ASSUME NEW a \in Agents, NEW i \in DOMAIN handed[a], handed[a][i] = next PROVE FALSE
      BY GivenHas
    <3>1. handed[a] \in Seq(Old)
      BY DEF Typed
    <3>2. handed[a][i] \in Old
      <4> HIDE DEF Old
      <4> QED
        BY <3>1
    <3> QED
      BY <3>2 DEF Old, Typed
  <2>3. \A x : Given(x)' = Given(x)
    BY <2>1, GivenStays
  <2>4. IsFiniteSet(Given(next)) /\ Handovers(next) = 0 /\ crashes \in Nat
    BY <2>2, FS_EmptySet DEF Handovers, Typed
  <2>5. ASSUME NEW x \in Nat, x # next, Again(x)' PROVE Again(x)
    BY <2>1, <2>5 DEF Again, At, Waits, Hub!IsWaiting, Hub!Waiting
  <2>6. ASSUME NEW x \in Nat
        PROVE  /\ IsFiniteSet(Given(x)') /\ Handovers(x)' <= 1 + crashes'
               /\ Again(x)' => Handovers(x)' <= crashes'
    <3>1. Given(x)' = Given(x) /\ Handovers(x)' = Handovers(x) /\ crashes' = crashes
      BY <2>1, <2>3 DEF Handovers
    <3>2. CASE x = next
      BY <2>4, <3>1, <3>2
    <3>3. CASE x # next
      BY <2>5, <3>1, <3>3 DEF Counted
    <3> QED
      BY <3>2, <3>3
  <2> QED
    BY <2>6 DEF Counted
<1>2. ASSUME NEW m \in Ids, Drop(m) \/ Forget(m) \/ Lapse(m) PROVE Counted'
  <2>1. UNCHANGED <<batch, journal, handed, crashes>> /\ Shrinks
    BY <1>2, DropIs, DropShrinks DEF Rest
  <2>2. \A x \in Nat : Again(x)' => Again(x)
    BY <2>1 DEF Again, At, Shrinks, Waits
  <2> QED
    BY <2>1, <2>2, CountedStays
<1>3. ASSUME NEW m \in Ids, Work(m) \/ AckLost(m) PROVE Counted'
  BY <1>3, WorkCounted
<1>4. CASE Poll \/ PollLost
  <2>1. /\ UNCHANGED <<journal, handed, crashes>> /\ DOMAIN batch = {} /\ Fetchable \in SUBSET DOMAIN box
        /\ DOMAIN box' = DOMAIN box
        /\ \A m \in DOMAIN box \ Fetchable : box'[m] = box[m]
        /\ \A m \in Fetchable : Hub!IsHead(box, m)
    BY <1>4, PollIs
  <2>2. \A m \in DOMAIN batch' : m \in Fetchable
    BY <1>4, <2>1, BatchIs DEF PollLost
  <2>3. At("ended") = {}
    BY <2>1 DEF At
  <2>4. ASSUME NEW x \in Nat, Again(x)' PROVE Again(x)
    <3>1. CASE x \in Fetchable
      BY <2>1, <2>3, <2>4, <3>1 DEF Again, Waits, Hub!IsHead
    <3>2. CASE x \notin Fetchable
      <4>1. x \in DOMAIN box /\ box'[x] = box[x] /\ Waits(x)'
        BY <2>1, <2>2, <2>4, <3>2 DEF Again, Waits
      <4> QED
        BY <2>1, <2>3, <2>4, <4>1 DEF Again, Waits, Hub!IsWaiting, Hub!Waiting
    <3> QED
      BY <3>1, <3>2
  <2> QED
    BY <2>1, <2>4, CountedStays
<1>5. ASSUME NEW m \in Ids, Prune(m) PROVE Counted'
  <2>1. UNCHANGED <<box, batch, handed, crashes>> /\ DOMAIN batch = {} /\ (Waits(m) => FALSE)
        /\ DOMAIN journal' = DOMAIN journal \ {m}
    BY <1>5 DEF Prune, Without, Waits
  <2>2. ASSUME NEW x \in Nat, Again(x)' PROVE Again(x)
    BY <2>1, <2>2 DEF Again, Waits, At
  <2> QED
    BY <2>1, <2>2, CountedStays
<1>6. CASE Stop
  <2>1. /\ UNCHANGED <<box, journal, handed, crashes>> /\ DOMAIN batch' = DOMAIN batch \ At("fetched")
        /\ \A x \in DOMAIN batch' : batch'[x] = batch[x]
    BY <1>6 DEF Stop, Without
  <2>2. ASSUME NEW x \in Nat, Again(x)' PROVE Again(x)
    <3>1. x \notin At("ended")
      <4>1. x \in At("ended") => x \notin At("fetched")
        BY DEF At
      <4> QED
        BY <2>1, <2>2, <4>1 DEF Again, At
    <3> QED
      BY <2>1, <2>2, <3>1 DEF Again, Waits
  <2> QED
    BY <2>1, <2>2, CountedStays
<1>7. CASE Crash
  <2>1. handed' = handed /\ crashes' = crashes + 1 /\ crashes \in Nat
    BY <1>7 DEF Crash, Typed
  <2>2. ASSUME NEW x \in Nat
        PROVE  IsFiniteSet(Given(x)') /\ Handovers(x)' \in Nat /\ Handovers(x)' <= crashes'
    <3>1. Given(x)' = Given(x)
      BY <2>1, GivenStays
    <3>2. Handovers(x) \in Nat /\ Handovers(x) <= 1 + crashes /\ IsFiniteSet(Given(x))
      BY FS_CardinalityType DEF Counted, Handovers
    <3> QED
      BY <2>1, <3>1, <3>2 DEF Handovers
  <2>3. \A x \in Nat : Handovers(x)' <= 1 + crashes'
    BY <2>1, <2>2
  <2> QED
    BY <2>2, <2>3 DEF Counted
<1>8. ASSUME NEW t \in Agents, Flip(t) PROVE Counted'
  <2>1. UNCHANGED <<box, batch, journal, handed, crashes>>
    BY <1>8 DEF Flip
  <2> QED
    BY <2>1, CountedStays DEF Again, Waits, At
<1>9. CASE Start \/ Exit \/ UNCHANGED vars
  <2>1. UNCHANGED <<box, batch, journal, handed, crashes>>
    BY <1>9 DEF Start, Exit, vars
  <2> QED
    BY <2>1, CountedStays DEF Again, Waits, At
<1> QED
  BY <1>1, <1>2, <1>3, <1>4, <1>5, <1>6, <1>7, <1>8, <1>9 DEF Next, Environment, Worker, Faults

-----------------------------------------------------------------------------

\* The inductive invariant.
DeliveryInv == Typed /\ Order /\ Receipts /\ Counted

LEMMA Starts == Init => DeliveryInv
<1> SUFFICES ASSUME Init PROVE DeliveryInv
  OBVIOUS
<1>1. /\ box = [m \in {} |-> 0] /\ next = 1 /\ batch = [m \in {} |-> 0] /\ journal = [m \in {} |-> ""]
      /\ handed = [t \in Agents |-> <<>>] /\ crashes = 0
  BY DEF Init, Hub!QueueInit
<1>2. DOMAIN box = {} /\ DOMAIN batch = {} /\ DOMAIN journal = {} /\ \A t \in Agents : handed[t] = <<>>
  BY <1>1
<1>3. Typed
  <2>1. handed \in [Agents -> Seq(Old)]
    BY <1>1
  <2> QED
    BY <1>1, <1>2, <2>1 DEF Typed, At
<1>4. \A t \in Agents : DOMAIN handed[t] = {}
  BY <1>2
<1>5. Order
  BY <1>2, <1>4 DEF Order, InQueueOrder
<1>6. Receipts
  BY <1>2 DEF Receipts, At
<1>7. ASSUME NEW m \in Nat PROVE IsFiniteSet(Given(m)) /\ Handovers(m) = 0
  <2>1. Given(m) = {}
    BY <1>4, GivenHas
  <2> QED
    BY <2>1, FS_EmptySet DEF Handovers
<1>8. Counted
  BY <1>1, <1>7 DEF Counted
<1> QED
  BY <1>3, <1>5, <1>6, <1>8 DEF DeliveryInv

\* The worker and its hub keep the types, the order, the receipts and the count
\* in every step of worker, deliver_if_live and record_and_ack.
THEOREM DeliveryInvariant == Spec => []DeliveryInv
<1>1. DeliveryInv /\ [Next]_vars => DeliveryInv'
  BY TypedKept, OrderKept, ReceiptsKept, CountedKept DEF DeliveryInv
<1> QED
  BY Starts, <1>1, PTL DEF Spec

\* A session never gets a message after a later one of its queue, whatever is
\* lost, lapses or dies: the loop of worker with deliver_if_live in its pool.
THEOREM HandedInOrder == Spec => []InQueueOrder
<1>1. DeliveryInv => InQueueOrder
  BY DEF DeliveryInv, Order
<1> QED
  BY <1>1, DeliveryInvariant, PTL

\* A message is handed over once more per death of the worker at most: the
\* receipt journal of worker covers everything but a death before its entry.
THEOREM AtMostOncePerCrash == Spec => []OncePerCrash
<1>1. DeliveryInv => OncePerCrash
  BY DeliveryAssumption DEF DeliveryInv, Counted, OncePerCrash, Ids
<1> QED
  BY <1>1, DeliveryInvariant, PTL

\* record_and_ack tells the hub what the journal has on record, and never
\* "delivered" of a message that no session was handed.
THEOREM ReceiptsAreTrue == Spec => []ReceiptIsTrue
<1>1. DeliveryInv => ReceiptIsTrue
  <2> SUFFICES ASSUME DeliveryInv, NEW m \in DOMAIN box, box[m].status \in Outcomes
               PROVE  /\ m \in DOMAIN journal => journal[m] = box[m].status
                      /\ box[m].status = "delivered" => Handovers(m) > 0
    BY DEF ReceiptIsTrue
  <2>1. m \in Nat /\ IsFiniteSet(Given(m))
    BY DEF DeliveryInv, Typed, Old, Counted
  <2>2. Given(m) # {} => Handovers(m) > 0
    BY <2>1, FS_EmptySet, FS_CardinalityType DEF Handovers
  <2> QED
    BY <2>2 DEF DeliveryInv, Receipts
<1> QED
  BY <1>1, DeliveryInvariant, PTL

-----------------------------------------------------------------------------
(* The hub of this module is a MailQueue. *)

QueueStep == [Hub!QueueNext]_(Hub!qvars)

LEMMA AcceptQueues ==
  ASSUME Typed, NEW t \in Agents, Accept(t)
  PROVE  QueueStep
<1>1. /\ next' = next + 1 /\ DOMAIN box' = DOMAIN box \cup {next} /\ next \notin DOMAIN box
      /\ \A x \in DOMAIN box : box'[x] = box[x]
  BY AcceptIs
<1>2. box'[next] = [target |-> t, status |-> "accepted", lease |-> 0, held |-> FALSE]
  BY AcceptIs
<1>3. box'[next].target = t
  BY <1>2
<1>4. Hub!Housekeeping(box, [m \in DOMAIN box' \ {next} |-> box'[m]])
  <2> DEFINE c == [m \in DOMAIN box' \ {next} |-> box'[m]]
  <2>1. DOMAIN c = DOMAIN box /\ \A m \in DOMAIN c : c[m] = box[m]
    BY <1>1
  <2> HIDE DEF c
  <2>2. Hub!Housekeeping(box, c)
    BY <2>1 DEF Hub!Housekeeping
  <2> QED
    BY <2>2 DEF c
<1>5. Hub!Accept
  BY <1>1, <1>2, <1>3, <1>4 DEF Hub!Accept
<1> QED
  BY <1>5 DEF QueueStep, Hub!QueueNext

LEMMA DropQueues ==
  ASSUME Typed, NEW m \in Ids, Drop(m) \/ Forget(m) \/ Lapse(m)
  PROVE  QueueStep
<1>0. box \in [DOMAIN box -> Mail]
  BY DEF Typed
<1>1. CASE Drop(m)
  <2>1. m \in DOMAIN box /\ Hub!IsWaiting(box, m) /\ next' = next
        /\ box' = [box EXCEPT ![m] = [box[m] EXCEPT !.status = "expired"]]
    BY <1>1 DEF Drop
  <2> DEFINE e == [box[m] EXCEPT !.status = "expired"]
  <2>2. e.status = "expired"
    BY <1>0, <2>1 DEF Mail
  <2>3. DOMAIN box' = DOMAIN box /\ box'[m] = e /\ \A x \in DOMAIN box \ {m} : box'[x] = box[x]
    BY <2>1
  <2>4. box'[m].status \in Hub!Dropped /\ box'[m] = [box[m] EXCEPT !.status = box'[m].status]
    BY <2>2, <2>3 DEF Hub!Dropped
  <2> HIDE DEF e
  <2>5. Hub!Housekeeping(box, box')
    BY <2>1, <2>3, <2>4 DEF Hub!Housekeeping
  <2> QED
    BY <2>1, <2>5 DEF QueueStep, Hub!QueueNext, Hub!Keep
<1>2. CASE Forget(m)
  <2>1. /\ ~Hub!IsWaiting(box, m) /\ next' = next /\ DOMAIN box' = DOMAIN box \ {m}
        /\ \A x \in DOMAIN box' : box'[x] = box[x]
    BY <1>2 DEF Forget, Without
  <2>2. Hub!Housekeeping(box, box')
    BY <2>1 DEF Hub!Housekeeping
  <2> QED
    BY <2>1, <2>2 DEF QueueStep, Hub!QueueNext, Hub!Keep
<1>3. CASE Lapse(m)
  <2>1. m \in DOMAIN box /\ next' = next /\ box' = [box EXCEPT ![m] = [box[m] EXCEPT !.held = FALSE]]
    BY <1>3 DEF Lapse
  <2>2. DOMAIN box' = DOMAIN box /\ box'[m] = [box[m] EXCEPT !.held = FALSE]
        /\ \A x \in DOMAIN box \ {m} : box'[x] = box[x]
    BY <2>1
  <2>3. Hub!Lapse
    BY <2>1, <2>2 DEF Hub!Lapse
  <2> QED
    BY <2>3 DEF QueueStep, Hub!QueueNext
<1> QED
  BY <1>1, <1>2, <1>3

LEMMA AckQueues ==
  ASSUME Typed, NEW m \in Ids, Ack(m)
  PROVE  QueueStep
<1>0. box \in [DOMAIN box -> Mail]
  BY DEF Typed
<1> DEFINE o == batch[m].outcome
           e == [box[m] EXCEPT !.status = o]
<1>1. /\ m \in DOMAIN box /\ Hub!IsHeld(box, m) /\ o \in Outcomes /\ next' = next
      /\ box' = [box EXCEPT ![m] = e]
  BY DEF Ack, Settles, Typed
<1>2. e.status = o
  BY <1>0, <1>1 DEF Mail
<1>3. DOMAIN box' = DOMAIN box /\ box'[m] = e /\ \A x \in DOMAIN box \ {m} : box'[x] = box[x]
  BY <1>1
<1>4. box'[m].status \in Outcomes /\ box'[m] = [box[m] EXCEPT !.status = box'[m].status]
  BY <1>1, <1>2, <1>3
<1> HIDE DEF e, o
<1>5. Hub!Housekeeping(box, [x \in DOMAIN box' |-> IF x = m THEN box[m] ELSE box'[x]])
  <2> DEFINE c == [x \in DOMAIN box' |-> IF x = m THEN box[m] ELSE box'[x]]
  <2>1. DOMAIN c = DOMAIN box /\ \A x \in DOMAIN c : c[x] = box[x]
    BY <1>1, <1>3
  <2> HIDE DEF c
  <2>2. Hub!Housekeeping(box, c)
    BY <2>1 DEF Hub!Housekeeping
  <2> QED
    BY <2>2 DEF c
<1>6. Hub!Settle
  BY <1>1, <1>3, <1>4, <1>5 DEF Hub!Settle
<1> QED
  BY <1>6 DEF QueueStep, Hub!QueueNext

LEMMA LeasedRecord ==
  ASSUME NEW b \in Mail, NEW l
  PROVE  [target |-> b.target, status |-> "leased", lease |-> l, held |-> TRUE]
           = [b EXCEPT !.status = "leased", !.lease = l, !.held = TRUE]
<1> DEFINE e == [b EXCEPT !.status = "leased", !.lease = l, !.held = TRUE]
<1>1. b = [f \in {"target", "status", "lease", "held"} |-> b[f]]
  BY DEF Mail
<1>2. e = [f \in {"target", "status", "lease", "held"} |-> e[f]]
  BY <1>1
<1>3. e.target = b.target /\ e.status = "leased" /\ e.lease = l /\ e.held = TRUE
  BY <1>1
<1> HIDE DEF e
<1>4. e = [target |-> b.target, status |-> "leased", lease |-> l, held |-> TRUE]
  BY <1>2, <1>3
<1> QED
  BY <1>4 DEF e

LEMMA PollQueues ==
  ASSUME Typed, Poll \/ PollLost
  PROVE  QueueStep
<1>0. box \in [DOMAIN box -> Mail]
  BY DEF Typed
<1>1. /\ next' = next /\ DOMAIN box' = DOMAIN box /\ Fetchable \in SUBSET DOMAIN box
      /\ \A m \in DOMAIN box \ Fetchable : box'[m] = box[m]
  BY PollIs
<1>2. ASSUME NEW m \in Fetchable
      PROVE  /\ Hub!IsHead(box, m) /\ ~Hub!IsHeld(box, m)
             /\ box'[m].lease # box[m].lease
             /\ box'[m] = [box[m] EXCEPT !.status = "leased", !.lease = box'[m].lease, !.held = TRUE]
  <2>1. Hub!IsHead(box, m) /\ ~Hub!IsHeld(box, m) /\ m \in DOMAIN box
    BY DEF Fetchable
  <2>2. box'[m] = [target |-> box[m].target, status |-> "leased", lease |-> NewToken(m), held |-> TRUE]
    BY PollIs
  <2>3. box'[m].lease = NewToken(m)
    BY <2>2
  <2>4. NewToken(m) # box[m].lease
    <3>1. box[m].lease \in 0..(Tokens - 1)
      BY <1>0, <2>1 DEF Mail
    <3> QED
      BY <3>1, TokenIsNew DEF NewToken
  <2> DEFINE l == NewToken(m)
  <2>5. [target |-> box[m].target, status |-> "leased", lease |-> l, held |-> TRUE]
          = [box[m] EXCEPT !.status = "leased", !.lease = l, !.held = TRUE]
    <3>1. box[m] \in Mail
      BY <1>0, <2>1
    <3> QED
      BY <3>1, LeasedRecord
  <2> QED
    BY <2>1, <2>2, <2>3, <2>4, <2>5
<1> DEFINE new == {m \in DOMAIN box \cap DOMAIN box' : box'[m].lease # box[m].lease}
           kept == [m \in DOMAIN box' |-> IF m \in new THEN box[m] ELSE box'[m]]
<1>3. new = Fetchable
  BY <1>1, <1>2
<1>4. DOMAIN kept = DOMAIN box /\ \A m \in DOMAIN box : kept[m] = box[m]
  BY <1>1, <1>3
<1> HIDE DEF new, kept
<1>5. Hub!Housekeeping(box, kept)
  BY <1>4 DEF Hub!Housekeeping
<1>6. ASSUME NEW m \in new
      PROVE  /\ Hub!IsHead(kept, m) /\ ~Hub!IsHeld(kept, m)
             /\ box'[m] = [box[m] EXCEPT !.status = "leased", !.lease = box'[m].lease, !.held = TRUE]
  <2>1. m \in Fetchable /\ m \in DOMAIN box
    BY <1>1, <1>3
  <2> QED
    BY <1>2, <1>4, <2>1 DEF Hub!IsHead, Hub!IsHeld, Hub!IsWaiting
<1>7. Hub!Lease
  <2> USE DEF new, kept
  <2> QED
    BY <1>1, <1>5, <1>6 DEF Hub!Lease
<1> QED
  BY <1>7 DEF QueueStep, Hub!QueueNext

\* What the worker sees of the hub is the queue that bus_broker.py promises: the
\* hub's half of every step, loss and crash included, is a step of a MailQueue.
THEOREM WorkerMeetsAQueue == Spec => IsQueue
<1>1. Init => Hub!QueueInit
  BY DEF Init
<1>2. ASSUME DeliveryInv, [Next]_vars PROVE QueueStep
  <2>0. Typed
    BY <1>2 DEF DeliveryInv
  <2>1. ASSUME UNCHANGED <<box, next>> PROVE QueueStep
    BY <2>1 DEF QueueStep, Hub!qvars
  <2>2. ASSUME NEW t \in Agents, Accept(t) PROVE QueueStep
    BY <2>0, <2>2, AcceptQueues
  <2>3. ASSUME NEW t \in Agents, Flip(t) PROVE QueueStep
    BY <2>1, <2>3 DEF Flip
  <2>4. ASSUME NEW m \in Ids, Drop(m) \/ Forget(m) \/ Lapse(m) PROVE QueueStep
    BY <2>0, <2>4, DropQueues
  <2>5. ASSUME NEW m \in Ids, Ack(m) PROVE QueueStep
    BY <2>0, <2>5, AckQueues
  <2>6. ASSUME NEW m \in Ids, Work(m) \/ AckLost(m) \/ Prune(m), ~Ack(m) PROVE QueueStep
    BY <2>1, <2>6 DEF Work, Dispatch, Skip, Fail, HandOver, Journal, AckRefused, AckLost, Prune
  <2>7. CASE Poll \/ PollLost
    BY <2>0, <2>7, PollQueues
  <2>8. CASE Start \/ Stop \/ Exit \/ Crash \/ UNCHANGED vars
    BY <2>1, <2>8 DEF Start, Stop, Exit, Crash, vars
  <2> QED
    BY <1>2, <2>2, <2>3, <2>4, <2>5, <2>6, <2>7, <2>8 DEF Next, Environment, Worker, Faults
<1> QED
  BY <1>1, <1>2, DeliveryInvariant, PTL DEF Spec, IsQueue, Hub!QueueSpec, QueueStep
====
