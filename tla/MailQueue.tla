------------------------------ MODULE MailQueue ------------------------------
(***************************************************************************)
(* What the bus hub promises the workers that fetch mail from it, without  *)
(* buses, admissions, conversations or a clock: the abstraction of         *)
(* lib/bus_broker.py that the delivery worker of lib/bus.py relies on.     *)
(*                                                                         *)
(* Every request may first expire or cancel mail that still waits and      *)
(* forget settled mail (Housekeeping); then it accepts one message, leases *)
(* messages, settles one lease, or does nothing more.  A lease is `held'   *)
(* until it is settled or its time runs out.                               *)
(***************************************************************************)
EXTENDS Integers

CONSTANTS Agents, Outcomes

VARIABLES
    box,    \* message id |-> target, status, token of its last lease, held
    next    \* the next message id

qvars == <<box, next>>

Waiting == {"accepted", "leased"}
Dropped == {"expired", "cancelled"}

QueueInit == box = [m \in {} |-> 0] /\ next = 1

IsWaiting(b, m) == b[m].status \in Waiting
IsHeld(b, m) == b[m].status = "leased" /\ b[m].held

\* The earliest waiting message of its target.
IsHead(b, m) ==
    /\ IsWaiting(b, m)
    /\ \A e \in DOMAIN b : b[e].target = b[m].target /\ IsWaiting(b, e) => m <= e

\* c is b after mail was expired or cancelled and settled mail was forgotten.
Housekeeping(b, c) ==
    /\ DOMAIN c \subseteq DOMAIN b
    /\ \A m \in DOMAIN b \ DOMAIN c : ~IsWaiting(b, m)
    /\ \A m \in DOMAIN c :
          \/ c[m] = b[m]
          \/ IsWaiting(b, m) /\ c[m].status \in Dropped /\ c[m] = [b[m] EXCEPT !.status = c[m].status]

Keep == Housekeeping(box, box') /\ UNCHANGED next

\* One more message at the end of its target's queue.
Accept ==
    /\ next \in DOMAIN box' \ DOMAIN box
    /\ box'[next].target \in Agents
    /\ box'[next] = [target |-> box'[next].target, status |-> "accepted", lease |-> 0, held |-> FALSE]
    /\ Housekeeping(box, [m \in DOMAIN box' \ {next} |-> box'[m]])
    /\ next' = next + 1

\* Heads that nobody holds a lease on are leased, each under a new token.
Lease ==
    LET new == {m \in DOMAIN box \cap DOMAIN box' : box'[m].lease # box[m].lease}
        kept == [m \in DOMAIN box' |-> IF m \in new THEN box[m] ELSE box'[m]]
    IN  /\ DOMAIN box' \subseteq DOMAIN box
        /\ Housekeeping(box, kept)
        /\ \A m \in new :
              /\ IsHead(kept, m) /\ ~IsHeld(kept, m)
              /\ box'[m] = [box[m] EXCEPT !.status = "leased", !.lease = box'[m].lease, !.held = TRUE]
        /\ UNCHANGED next

\* A held lease is settled with an outcome.
Settle ==
    /\ \E m \in DOMAIN box \cap DOMAIN box' :
          /\ IsHeld(box, m)
          /\ box'[m].status \in Outcomes
          /\ box'[m] = [box[m] EXCEPT !.status = box'[m].status]
          /\ Housekeeping(box, [x \in DOMAIN box' |-> IF x = m THEN box[m] ELSE box'[x]])
    /\ UNCHANGED next

\* Leases run out.
Lapse ==
    /\ DOMAIN box' = DOMAIN box
    /\ \A m \in DOMAIN box : box'[m] = box[m] \/ box'[m] = [box[m] EXCEPT !.held = FALSE]
    /\ UNCHANGED next

QueueNext == Keep \/ Accept \/ Lease \/ Settle \/ Lapse

QueueSpec == QueueInit /\ [][QueueNext]_qvars
=============================================================================
