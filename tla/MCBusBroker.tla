----------------------------- MODULE MCBusBroker -----------------------------
(***************************************************************************)
(* BusBroker for TLC: two devices with one agent each and an operator      *)
(* without agents.  One run explores several kinds of behaviours, each     *)
(* with its own budget.                                                    *)
(***************************************************************************)
EXTENDS BusBroker, TLC

CONSTANTS admin, p, q, a, b, general, team, k,
    Budgets

MCOwner == (a :> p) @@ (b :> q)

\* Exchanging the two devices, with their agents, changes nothing.
Swap == {(a :> b) @@ (b :> a) @@ (p :> q) @@ (q :> p)}

\* ids: messages; convs: conversations on record at a time; until: time; keyed:
\* reply requests are remembered; changes: admission requests; buses: those used,
\* with everyone enrolled there at first unless the broker starts empty.
MCBudgets ==
    { \* an exchange of three messages
      [ids |-> 3, convs |-> 3, until |-> 1, keyed |-> TRUE, changes |-> 0, buses |-> {general}, empty |-> FALSE],
      \* a message and its answer until every retention rule has run
      [ids |-> 2, convs |-> 1, until |-> 5, keyed |-> TRUE, changes |-> 0, buses |-> {general}, empty |-> FALSE],
      \* agents that leave, lose their bus or are revoked, and come back, around their mail
      [ids |-> 2, convs |-> 2, until |-> 1, keyed |-> FALSE, changes |-> 1, buses |-> {general}, empty |-> FALSE],
      [ids |-> 2, convs |-> 1, until |-> 1, keyed |-> FALSE, changes |-> 2, buses |-> {general}, empty |-> FALSE],
      [ids |-> 1, convs |-> 1, until |-> 1, keyed |-> FALSE, changes |-> 3, buses |-> {team}, empty |-> FALSE],
      \* enrolment, registration and the deletion of stale agents
      [ids |-> 1, convs |-> 1, until |-> 3, keyed |-> FALSE, changes |-> 4, buses |-> {general}, empty |-> TRUE]}

VARIABLE left    \* the budget
mcvars == <<db, now, left>>

\* All devices admitted and all agents published: a state two Redeem and two
\* Register requests for each bus reach.
Enrolled(buses) ==
    /\ now = 0
    /\ db = [principals |-> {admin, p, q}, revoked |-> {}, grants |-> {p, q} \X buses,
             agents |-> [x \in Agents |-> 0], members |-> Agents \X buses,
             msgs |-> [m \in {} |-> 0], convs |-> [c \in {} |-> 0],
             replies |-> [r \in {} |-> 0], next |-> 1]

MCInit == left \in Budgets /\ (IF left.empty THEN Init ELSE Enrolled(left.buses))

MCNext ==
    \/ /\ Messaging /\ UNCHANGED left
       /\ db'.next <= left.ids + 1 /\ Cardinality(DOMAIN db'.convs) <= left.convs
       /\ (DOMAIN db'.replies = {} \/ left.keyed)
    \/ Tick /\ now < left.until /\ UNCHANGED left
    \/ /\ left.changes > 0
       /\ Admission /\ db'.grants \subseteq Principals \X left.buses
       /\ left' = [left EXCEPT !.changes = @ - 1]

MCSpec == MCInit /\ [][MCNext]_mcvars
=============================================================================
