---------------------------- MODULE MCBusDelivery ----------------------------
(***************************************************************************)
(* BusDelivery for TLC, with budgets: one session that comes and goes, and *)
(* every fault; two sessions in one batch and a worker that is killed.     *)
(***************************************************************************)
EXTENDS BusDelivery

CONSTANTS a, b

Budgets == {[agents |-> {a}, away |-> {a}, crashes |-> 1, stops |-> 1, losses |-> 1],
            [agents |-> {a, b}, away |-> {}, crashes |-> 1, stops |-> 0, losses |-> 0]}

VARIABLE left    \* the budget of this behaviour
mcvars == <<vars, left>>

Within == /\ \A m \in DOMAIN box' : box'[m].target \in left.agents
          /\ Agents \ reachable' \subseteq left.away
          /\ crashes' <= left.crashes /\ stops' <= left.stops /\ losses' <= left.losses

MCInit == left \in Budgets /\ Init
MCNext == Next /\ Within /\ UNCHANGED left

MCSpec == MCInit /\ [][MCNext]_mcvars /\ Fairness
=============================================================================
