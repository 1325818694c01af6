---------------------------- MODULE MCBusAdapters ----------------------------
(***************************************************************************)
(* BusAdapters for TLC: sessions of one device and one agent of a peer,    *)
(* both devices admitted everywhere at first.  One run explores several    *)
(* kinds of behaviours, each with its own budget.                          *)
(***************************************************************************)
EXTENDS BusAdapters, TLC

CONSTANTS admin, dev, peer, a, b, c, general, team, k,
    Budgets

MCOwner == [x \in Agents |-> IF x = c THEN peer ELSE dev]

\* ids: messages; until: time; changes: registrations, leaves, withdrawals and
\* redeemed invitations.
MCBudgets ==
    { \* a conversation until it has ended, around a registration and a loss
      [ids |-> 1, until |-> 2, changes |-> 2],
      \* a bus that is joined, lost, admitted and joined again
      [ids |-> 0, until |-> 1, changes |-> 4]}

\* Two sessions on two buses.
MCRemoval == {[ids |-> 1, until |-> 3, changes |-> 3]}

VARIABLE left    \* the budget
mcvars == <<db, now, regs, cmd, told, astray, faults, left>>

\* Both devices enrolled, the peer's agent published, no session yet.
MCInit ==
    /\ now = 0 /\ left \in Budgets
    /\ db = [principals |-> {admin, dev, peer}, revoked |-> {}, grants |-> {dev, peer} \X Buses,
             agents |-> [x \in Agents \cap {c} |-> 0], members |-> (Agents \cap {c}) \X Buses,
             msgs |-> [m \in {} |-> 0], convs |-> [x \in {} |-> 0],
             replies |-> [r \in {} |-> 0], next |-> 1]
    /\ AdaptersInit

Counted == db'.members # db.members \/ db'.grants # db.grants

\* An invitation adds nothing to what the operator's own principal may do.
MCNext ==
    /\ AdaptersNext
    /\ db'.grants \subseteq {dev, peer} \X Buses
    /\ now' <= left.until /\ db'.next <= left.ids + 1
    /\ Counted => left.changes > 0
    /\ left' = IF Counted THEN [left EXCEPT !.changes = @ - 1] ELSE left

MCSpec == MCInit /\ [][MCNext]_mcvars
=============================================================================
