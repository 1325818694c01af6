---------------------------- MODULE FlowInference ----------------------------
(***************************************************************************)
(* The pure part of the bus graph: the undirected message graph of a       *)
(* snapshot (analysis.mjs) and the hierarchy the Flow layout draws over it *)
(* (flow.mjs).  Agents are numbers, because ids are ordered; a link's      *)
(* weight log(1 + count) is represented by 1 + count, and a sum of weights *)
(* by the product: only their order matters.                               *)
(***************************************************************************)
EXTENDS Integers, FiniteSets, Functions, FiniteSetsExt

NoOne == 0      \* no agent has this id
Empty == [x \in {} |-> NoOne]

weightedGraph(ids, links) == \* both directions and all buses together; self-messages are no relation
    LET pairs == {{l[1], l[2]} : l \in {k \in DOMAIN links : k[1] # k[2]}}
        of(p) == {l \in DOMAIN links : {l[1], l[2]} = p}
    IN  [ids |-> ids,
         count |-> [p \in pairs |-> MapThenSumSet(LAMBDA l : links[l].count, of(p))]]

neighborsFor(g, a) == {b \in g.ids : {a, b} \in DOMAIN g.count}
Weight(g, a, b) == 1 + g.count[{a, b}]
weightWithin(g, a, S) ==
    FoldSet(LAMBDA b, w : w * Weight(g, a, b), 1, neighborsFor(g, a) \cap S)

Spread(g, S, a) == \* the agents of S within n links of a, for each n
    LET R[n \in 0..Cardinality(S)] ==
            IF n = 0 THEN {a}
            ELSE LET near == R[n - 1] IN near \cup {b \in S : neighborsFor(g, b) \cap near # {}}
    IN  R
componentsOf(g, S) == {Spread(g, S, a)[Cardinality(S)] : a \in S}

\* sort(...)[0]: the largest pair of keys first, then the smallest id.
Best(S, key(_)) ==
    CHOOSE a \in S : \A b \in S \ {a} :
        LET k == key(a)
            l == key(b)
        IN  k[1] > l[1] \/ (k[1] = l[1] /\ (k[2] > l[2] \/ (k[2] = l[2] /\ a < b)))
-----------------------------------------------------------------------------
RootOf(g, C, selected) ==
    IF selected \in C THEN selected
    ELSE Best(C, LAMBDA a : <<Cardinality(neighborsFor(g, a)), weightWithin(g, a, g.ids)>>)

HubOf(g, B, root) ==
    Best(B \cap neighborsFor(g, root), LAMBDA a : <<weightWithin(g, a, B), Weight(g, root, a)>>)

\* The nearest strong link towards the hub, over the agents within n links of it.
Nearest(g, a, within) ==
    Best(neighborsFor(g, a) \cap within[Min({n \in DOMAIN within : a \in within[n]}) - 1],
         LAMBDA b : <<Weight(g, a, b), 0>>)
BranchParent(g, B, root, hub, a) == IF a = hub THEN root ELSE Nearest(g, a, Spread(g, B, hub))

rootsOf(g, selected) == {RootOf(g, C, selected) : C \in componentsOf(g, g.ids)}
HubParents(g, B, root, hub) == [a \in B |-> BranchParent(g, B, root, hub, a)]
InBranch(g, B, root) == HubParents(g, B, root, HubOf(g, B, root))
\* Every branch, with the root it hangs from.
BranchParents(g, roots) ==
    {InBranch(g, B, CHOOSE r \in roots : neighborsFor(g, r) \cap B # {}) :
        B \in componentsOf(g, g.ids \ roots)}
Merge(fs) == [a \in UNION {DOMAIN f : f \in fs} |-> (CHOOSE f \in fs : a \in DOMAIN f)[a]]
originalParents(g, selected) == Merge(BranchParents(g, rootsOf(g, selected)))

Ancestors(parent, a) == \* the chain of parents above a
    LET U[n \in Nat] == IF n = 0 THEN {parent[b] : b \in {a} \cap DOMAIN parent}
                        ELSE LET above == U[n - 1]
                             IN  above \cup {parent[b] : b \in above \cap DOMAIN parent}
    IN  U[Cardinality(DOMAIN parent)]
cycleMembers(parent) == {a \in DOMAIN parent : a \in Ancestors(parent, a)}

Chosen(inferred, choices, kept) ==
    [a \in DOMAIN inferred |-> IF a \in kept THEN choices[a] ELSE inferred[a]]

ObservedChoices(g, inferred, choices) ==
    {a \in DOMAIN choices \cap DOMAIN inferred : choices[a] \in neighborsFor(g, a)}
\* Mutant: choices are checked one by one only.
UncheckedOverrides(inferred, choices, valid) == valid
\* The choices that survive together: as long as there is a cycle, those on it go.
acceptedOverrides(inferred, choices, valid) ==
    LET K[n \in Nat] == IF n = 0 THEN valid
                        ELSE LET kept == K[n - 1]
                             IN  kept \ cycleMembers(Chosen(inferred, choices, kept))
    IN  K[Cardinality(valid)]

\* The largest component, of those the one with the smallest id.
LargestComponent(comps) ==
    CHOOSE C \in comps : \A D \in comps \ {C} :
        \/ Cardinality(C) > Cardinality(D)
        \/ Cardinality(C) = Cardinality(D) /\ Min(C) < Min(D)
rootId(g, selected) ==
    IF selected # NoOne \/ g.ids = {} THEN selected
    ELSE RootOf(g, LargestComponent(componentsOf(g, g.ids)), NoOne)

FlowOf(g, selected, choices, inferred, kept) ==
    [sig |-> g, roots |-> rootsOf(g, selected), parent |-> Chosen(inferred, choices, kept),
     accepted |-> Restrict(choices, kept), rootId |-> rootId(g, selected)]
Inferred(g, selected, choices, inferred) ==
    FlowOf(g, selected, choices, inferred,
           acceptedOverrides(inferred, choices, ObservedChoices(g, inferred, choices)))
InferFor(g, selected, choices) == Inferred(g, selected, choices, originalParents(g, selected))
inferFlow(g, conductor, choices) ==
    InferFor(g, IF conductor \in g.ids THEN conductor ELSE NoOne, choices)

validateParentOverride(g, flow, child, parent) ==
    /\ {child, parent} \subseteq g.ids /\ child # parent
    /\ child \notin flow.roots
    /\ parent \in neighborsFor(g, child)
    /\ child \notin Ancestors(flow.parent, parent)

\* One group per connected component: what the analysis falls back to.
makeCommunities(g) == componentsOf(g, g.ids)
=============================================================================
