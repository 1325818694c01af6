----------------------------- MODULE BusDelivery -----------------------------
(***************************************************************************)
(* The delivery worker of one device, lib/bus.py `worker', against one hub *)
(* that is a MailQueue.                                                    *)
(*                                                                         *)
(* The worker's loop polls the hub for the agents that are reachable now   *)
(* and works through the batch of envelopes it gets: an envelope already   *)
(* in the receipt journal is acknowledged again with the outcome on        *)
(* record, any other is handed to its session by a thread of a pool.  The  *)
(* loop collects the outcomes one by one, journals each, then acknowledges *)
(* it, and polls again when the batch is done.  Any request or response    *)
(* may be lost and the process may die at any point; the journal survives. *)
(*                                                                         *)
(* The hub's clock is left out: a lease may lapse at any time.             *)
(***************************************************************************)
EXTENDS Integers, Sequences, FiniteSets

CONSTANTS
    Agents,         \* sessions registered on this device
    MaxMsg,         \* bound: messages ever accepted for them
    MaxCrashes,     \* bound: times the worker process dies
    MaxStops,       \* bound: times it is asked to stop
    MaxLosses,      \* bound: requests or responses lost
    Tokens          \* bound: lease tokens are counted modulo this

ASSUME DeliveryAssumption ==
    MaxMsg \in Nat /\ MaxCrashes \in Nat /\ MaxStops \in Nat /\ MaxLosses \in Nat
    /\ Tokens \in Nat \ {0, 1}

\* What `deliver' reports: written to a Claude socket or taken by the Codex
\* queue, or an error.
Outcomes == {"delivered", "failed"}

VARIABLES
    box, next,      \* the hub's queue for these agents
    reachable,      \* agents whose current_status is not offline
    worker,         \* "down", "running", "stopping" (worker.stop exists)
    batch,          \* the envelopes of the last poll: target, lease, stage, outcome
    journal,        \* receipts.sqlite: message id |-> outcome on record
    handed,         \* what each session got, in order (a history)
    crashes, stops, losses

hub == <<box, next>>
vars == <<box, next, reachable, worker, batch, journal, handed, crashes, stops, losses>>

Ids == 1..MaxMsg
Stages == {"fetched", "running", "ended", "journalled"}

Hub == INSTANCE MailQueue

TypeOK ==
    /\ next \in 1..(MaxMsg + 1)
    /\ DOMAIN box \subseteq Ids
    /\ \A m \in DOMAIN box : box[m].target \in Agents
    /\ reachable \subseteq Agents
    /\ worker \in {"down", "running", "stopping"}
    /\ DOMAIN batch \subseteq Ids
    /\ \A m \in DOMAIN batch : batch[m].stage \in Stages
                               /\ batch[m].stage \in {"ended", "journalled"} =>
                                     batch[m].outcome \in Outcomes
    /\ journal \in [DOMAIN journal -> Outcomes] /\ DOMAIN journal \subseteq Ids
    /\ handed \in [Agents -> Seq(Ids)]
    /\ worker = "down" => DOMAIN batch = {}
    /\ crashes \in 0..MaxCrashes /\ stops \in 0..MaxStops /\ losses \in 0..MaxLosses

Init ==
    /\ Hub!QueueInit
    /\ reachable = Agents
    /\ worker = "down"
    /\ batch = [m \in {} |-> 0] /\ journal = [m \in {} |-> ""]
    /\ handed = [t \in Agents |-> <<>>]
    /\ crashes = 0 /\ stops = 0 /\ losses = 0

NewToken(m) == (box[m].lease + 1) % Tokens
Envelope(m) == [target |-> box[m].target, lease |-> NewToken(m), stage |-> "fetched", outcome |-> ""]
At(stage) == {m \in DOMAIN batch : batch[m].stage = stage}
Without(f, S) == [m \in DOMAIN f \ S |-> f[m]]
Moved(m, stage, outcome) ==
    [batch EXCEPT ![m] = [target |-> batch[m].target, lease |-> batch[m].lease, stage |-> stage, outcome |-> outcome]]

-----------------------------------------------------------------------------
(* The hub and the sessions, seen from the worker. *)

Accept(t) ==
    /\ next <= MaxMsg
    /\ box' = [m \in DOMAIN box \cup {next} |->
                  IF m = next
                  THEN [target |-> t, status |-> "accepted", lease |-> 0, held |-> FALSE]
                  ELSE box[m]]
    /\ next' = next + 1
    /\ UNCHANGED <<reachable, worker, batch, journal, handed, crashes, stops, losses>>

\* Mail expires, or is cancelled with its conversation, wherever it is: the two
\* look the same to a worker.
Drop(m) ==
    /\ m \in DOMAIN box /\ Hub!IsWaiting(box, m)
    /\ box' = [box EXCEPT ![m].status = "expired"]
    /\ UNCHANGED <<next, reachable, worker, batch, journal, handed, crashes, stops, losses>>

Forget(m) ==
    /\ m \in DOMAIN box /\ ~Hub!IsWaiting(box, m)
    /\ box' = Without(box, {m})
    /\ UNCHANGED <<next, reachable, worker, batch, journal, handed, crashes, stops, losses>>

Lapse(m) ==
    /\ m \in DOMAIN box /\ Hub!IsHeld(box, m)
    /\ box' = [box EXCEPT ![m].held = FALSE]
    /\ UNCHANGED <<next, reachable, worker, batch, journal, handed, crashes, stops, losses>>

\* A session appears or goes away.
Flip(t) ==
    /\ reachable' = IF t \in reachable THEN reachable \ {t} ELSE reachable \cup {t}
    /\ UNCHANGED <<box, next, worker, batch, journal, handed, crashes, stops, losses>>

-----------------------------------------------------------------------------
(* The worker. *)

\* start_worker, after a send, a reply or a registration of any session here;
\* the worker's lock admits one process.
Start ==
    /\ worker = "down"
    /\ worker' = "running"
    /\ UNCHANGED <<box, next, reachable, batch, journal, handed, crashes, stops, losses>>

\* Mutant: any waiting message is leased, not only the head of its queue.
FetchableAny == {m \in DOMAIN box : /\ box[m].target \in reachable
                                    /\ Hub!IsWaiting(box, m) /\ ~Hub!IsHeld(box, m)}

\* The heads of the reachable agents' queues that nobody holds.
Fetchable == {m \in DOMAIN box : /\ box[m].target \in reachable
                                 /\ Hub!IsHead(box, m) /\ ~Hub!IsHeld(box, m)}

Leased(S) == [m \in DOMAIN box |->
                 IF m \in S
                 THEN [box[m] EXCEPT !.status = "leased", !.lease = NewToken(m), !.held = TRUE]
                 ELSE box[m]]

\* The loop polls once every future of the previous batch has been collected.
MayPoll == worker = "running" /\ DOMAIN batch = {}

Poll ==
    /\ MayPoll
    /\ Fetchable # {}
    /\ box' = Leased(Fetchable)
    /\ batch' = [m \in DOMAIN batch \cup Fetchable |->
                    IF m \in Fetchable THEN Envelope(m) ELSE batch[m]]
    /\ UNCHANGED <<next, reachable, worker, journal, handed, crashes, stops, losses>>

\* The hub leases the messages, but its answer does not arrive.
PollLost ==
    /\ MayPoll
    /\ Fetchable # {} /\ losses < MaxLosses
    /\ box' = Leased(Fetchable)
    /\ losses' = losses + 1
    /\ UNCHANGED <<next, reachable, worker, batch, journal, handed, crashes, stops>>

OnRecord(m) == m \in DOMAIN journal

\* The loop is not between a journal entry and its acknowledgement.
Free == At("journalled") = {}

\* Mutant: what is on record needs no further work.
DispatchIgnoresKnown(m) ==
    /\ worker = "running" /\ Free
    /\ m \in At("fetched")
    /\ batch' = IF OnRecord(m) THEN Without(batch, {m}) ELSE Moved(m, "running", "")
    /\ UNCHANGED <<box, next, reachable, worker, journal, handed, crashes, stops, losses>>

\* Mutant: what is on record was delivered.
DispatchTrustsKnown(m) ==
    /\ worker = "running" /\ Free
    /\ m \in At("fetched")
    /\ batch' = IF OnRecord(m) THEN Moved(m, "journalled", "delivered")
                               ELSE Moved(m, "running", "")
    /\ UNCHANGED <<box, next, reachable, worker, journal, handed, crashes, stops, losses>>

\* A saved outcome is journalled again and acknowledged; other envelopes run.
Dispatch(m) ==
    /\ worker = "running" /\ Free
    /\ m \in At("fetched")
    /\ batch' = IF OnRecord(m) THEN Moved(m, "journalled", journal[m])
                               ELSE Moved(m, "running", "")
    /\ UNCHANGED <<box, next, reachable, worker, journal, handed, crashes, stops, losses>>

\* deliver_if_live finds the session gone: the lease is left to lapse.
Skip(m) ==
    /\ m \in At("running") /\ batch[m].target \notin reachable
    /\ batch' = Without(batch, {m})
    /\ UNCHANGED <<box, next, reachable, worker, journal, handed, crashes, stops, losses>>

HandOver(m, outcome) ==
    /\ m \in At("running")
    /\ handed' = [handed EXCEPT ![batch[m].target] = Append(@, m)]
    /\ batch' = Moved(m, "ended", outcome)
    /\ UNCHANGED <<box, next, reachable, worker, journal, crashes, stops, losses>>

\* An error without effect; HandOver(m, "failed") is one after the effect, as a
\* codex call that times out.
Fail(m) ==
    /\ m \in At("running")
    /\ batch' = Moved(m, "ended", "failed")
    /\ UNCHANGED <<box, next, reachable, worker, journal, handed, crashes, stops, losses>>

\* Mutant: outcomes are not recorded until they are acknowledged, so a lost
\* acknowledgement leaves nothing on record.
RecordLater(m) == journal

Recorded(m) == [x \in DOMAIN journal \cup {m} |-> IF x = m THEN batch[m].outcome ELSE journal[x]]

\* record_and_ack, first half, when every envelope of the batch is dispatched.
Journal(m) ==
    /\ Free /\ At("fetched") = {}
    /\ m \in At("ended")
    /\ journal' = Recorded(m)
    /\ batch' = Moved(m, "journalled", batch[m].outcome)
    /\ UNCHANGED <<box, next, reachable, worker, handed, crashes, stops, losses>>

\* Mutant: the hub settles on the message id alone.
SettlesAnyLease(m) == m \in DOMAIN box /\ Hub!IsWaiting(box, m)

\* The hub takes the outcome while the lease of this very envelope runs.
Settles(m) ==
    /\ m \in DOMAIN box
    /\ Hub!IsHeld(box, m) /\ box[m].lease = batch[m].lease

\* record_and_ack, second half: answered, refused or lost, the loop moves on.
Ack(m) ==
    /\ m \in At("journalled") /\ Settles(m)
    /\ box' = [box EXCEPT ![m].status = batch[m].outcome]
    /\ batch' = Without(batch, {m})
    /\ UNCHANGED <<next, reachable, worker, journal, handed, crashes, stops, losses>>

AckRefused(m) ==
    /\ m \in At("journalled") /\ ~Settles(m)
    /\ batch' = Without(batch, {m})
    /\ UNCHANGED <<box, next, reachable, worker, journal, handed, crashes, stops, losses>>

AckLost(m) ==
    /\ m \in At("journalled") /\ losses < MaxLosses
    /\ batch' = Without(batch, {m})
    /\ losses' = losses + 1
    /\ UNCHANGED <<box, next, reachable, worker, journal, handed, crashes, stops>>

\* Two days after it was written an entry goes; MESSAGE_TTL is one day, so its
\* message no longer waits.
Prune(m) ==
    /\ worker = "running" /\ DOMAIN batch = {}
    /\ m \in DOMAIN journal
    /\ m \in DOMAIN box => ~Hub!IsWaiting(box, m)
    /\ journal' = Without(journal, {m})
    /\ UNCHANGED <<box, next, reachable, worker, batch, handed, crashes, stops, losses>>

\* worker.stop or a signal: no further envelope is dispatched, what runs is
\* still collected, journalled and acknowledged.
Stop ==
    /\ worker = "running" /\ stops < MaxStops
    /\ worker' = "stopping"
    /\ batch' = Without(batch, At("fetched"))
    /\ stops' = stops + 1
    /\ UNCHANGED <<box, next, reachable, journal, handed, crashes, losses>>

Exit ==
    /\ worker = "stopping" /\ DOMAIN batch = {}
    /\ worker' = "down"
    /\ UNCHANGED <<box, next, reachable, batch, journal, handed, crashes, stops, losses>>

\* The process dies: what it held in memory is gone, the journal is not.
Crash ==
    /\ worker # "down" /\ crashes < MaxCrashes
    /\ worker' = "down"
    /\ batch' = [m \in {} |-> 0]
    /\ crashes' = crashes + 1
    /\ UNCHANGED <<box, next, reachable, journal, handed, stops, losses>>

-----------------------------------------------------------------------------

Environment ==
    \/ \E t \in Agents : Accept(t) \/ Flip(t)
    \/ \E m \in Ids : Drop(m) \/ Forget(m) \/ Lapse(m)

Work(m) ==
    \/ Dispatch(m) \/ Skip(m) \/ Fail(m) \/ \E o \in Outcomes : HandOver(m, o)
    \/ Journal(m) \/ Ack(m) \/ AckRefused(m)

Worker ==
    \/ Start \/ Poll \/ Stop \/ Exit
    \/ \E m \in Ids : Work(m) \/ Prune(m)

Faults == Crash \/ PollLost \/ \E m \in Ids : AckLost(m)

Next == Environment \/ Worker \/ Faults

Spec == Init /\ [][Next]_vars

(***************************************************************************)
(* Fairness.  A down worker is started again by the next command of any    *)
(* session of the device; its loop never blocks for good (every delivery   *)
(* and request has a time-out); a lease nobody settles runs out.  A lease  *)
(* is a minute: from some point on that is enough to look an envelope up   *)
(* in the journal and acknowledge it, however slow the deliveries are.     *)
(***************************************************************************)
MinuteSuffices ==
    \A m \in Ids : <>[][Lapse(m) => ~(m \in DOMAIN batch /\ OnRecord(m))]_vars

Fairness ==
    /\ WF_vars(Start) /\ WF_vars(Exit) /\ WF_vars(Poll)
    /\ \A m \in Ids : WF_vars(Work(m)) /\ WF_vars(Lapse(m))
    /\ MinuteSuffices

FairSpec == Spec /\ Fairness

-----------------------------------------------------------------------------
(* Properties. *)

\* The hub half of this module is a MailQueue.
IsQueue == Hub!QueueSpec

\* Where in the sessions' histories m is.
Given(m) == {x \in UNION {{t} \X DOMAIN handed[t] : t \in Agents} : handed[x[1]][x[2]] = m}
Handovers(m) == Cardinality(Given(m))

\* At least once means once more per crash, and never more: only the window
\* between the handover and the journal entry repeats a handover.
OncePerCrash == \A m \in Ids : Handovers(m) <= 1 + crashes

\* A session never gets a message after a later one of its queue.
InQueueOrder ==
    \A t \in Agents : \A i, j \in DOMAIN handed[t] : i < j => handed[t][i] <= handed[t][j]

\* The status the hub reports is the outcome the device has on record, and
\* "delivered" is only reported of what a session was handed.
ReceiptIsTrue ==
    \A m \in DOMAIN box : box[m].status \in Outcomes =>
        /\ m \in DOMAIN journal => journal[m] = box[m].status
        /\ box[m].status = "delivered" => Handovers(m) > 0

\* If the sessions stay reachable from some point on, no mail waits for ever:
\* one unlucky message does not hold up its queue either.
AllSettle ==
    <>[](reachable = Agents) =>
        \A m \in Ids : (m \in DOMAIN box /\ Hub!IsWaiting(box, m))
                           ~> ~(m \in DOMAIN box /\ Hub!IsWaiting(box, m))
=============================================================================
