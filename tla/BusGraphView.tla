----------------------------- MODULE BusGraphView -----------------------------
(***************************************************************************)
(* The interactive bus graph (App.svelte, model.mjs) in the dashboard: the *)
(* host polls and hands over snapshots, the person drags, pins, collapses, *)
(* picks roots and parents, and ELK computes Flow layouts asynchronously,  *)
(* one job after the other.  Every handler is a function on the component's*)
(* state, composed as the code calls it.                                   *)
(*                                                                         *)
(* Abstractions.  A position is Automatic (computed by a layout) or the    *)
(* tag <<scope, device>> under which the person put the card there.  A     *)
(* community is the set of its members (its id encodes them).  Selection   *)
(* highlighting, panels, edge routing, zoom and text are left out.         *)
(***************************************************************************)
EXTENDS FlowInference, Sequences

CONSTANTS Agent,       \* agent ids
          Device,      \* device keys
          Snapshots,   \* what the host may hand over
          Modes,       \* layouts other than "flow"
          NoScope,     \* scope ''
          None,        \* null
          MaxPolls,    \* bound on update and clear
          MaxSteps     \* bound on these and the person's operations together

ASSUME ViewAssumption == /\ Agent \subseteq Nat \ {NoOne}
                         /\ "flow" \notin Modes
                         /\ MaxPolls \in Nat /\ MaxSteps \in Nat
\* A snapshot is a finite document; a count that is no natural number is read
\* as 0 (integer, model.mjs:6, 43).
ASSUME SnapshotAssumption ==
    \A raw \in Snapshots :
        /\ DOMAIN raw.agents \subseteq Agent /\ IsFiniteSet(DOMAIN raw.agents)
        /\ IsFiniteSet(DOMAIN raw.buses)
        /\ \A b \in DOMAIN raw.buses :
              /\ IsFiniteSet(DOMAIN raw.buses[b].edges)
              /\ \A l \in DOMAIN raw.buses[b].edges : raw.buses[b].edges[l] \in Nat

VARIABLES app,      \* the component's state
          jobs,     \* layout jobs in the order they were queued at ELK
          alive,    \* mounted
          latest,   \* the last snapshot handed over: [scope, model]
          polls, ops

vars == <<app, jobs, alive, latest, polls, ops>>

Updated(f, g) == \* the entries of f, with those of g set
    [x \in DOMAIN f \cup DOMAIN g |-> IF x \in DOMAIN g THEN g[x] ELSE f[x]]
Automatic == <<>>
AgentNode(a) == [kind |-> "agent", of |-> {a}]
GroupNode(c) == [kind |-> "group", of |-> c]
NoNode == [kind |-> "none", of |-> {}]
-----------------------------------------------------------------------------
(* Snapshots (model.mjs) *)

\* A link counts where both ends are agents and members of the bus.
snapshotModel(raw) ==
    LET counted(b) == {l \in DOMAIN raw.buses[b].edges :
                          /\ {l[1], l[2]} \subseteq DOMAIN raw.agents \cap raw.buses[b].members
                          /\ raw.buses[b].edges[l] > 0}
        buses(l) == {b \in DOMAIN raw.buses : l \in counted(b)}
        links == [l \in UNION {counted(b) : b \in DOMAIN raw.buses} |->
                     [count |-> MapThenSumSet(LAMBDA b : raw.buses[b].edges[l], buses(l)),
                      buses |-> buses(l)]]
    IN  [agents |-> raw.agents, links |-> links, graph |-> weightedGraph(DOMAIN raw.agents, links)]
NoModel == [agents |-> Empty, links |-> Empty, graph |-> weightedGraph({}, Empty)]
Handed == [raw \in Snapshots |-> snapshotModel(raw)]
\* null is no snapshot.
ASSUME NoneAssumption == \A raw \in Snapshots : [scope |-> raw.scope, model |-> Handed[raw]] # None
graphSignature(m) == m.graph \* the signature is lossless

\* Mutant: links are not compared.
CanDeferAgents(m, n) ==
    \A a \in DOMAIN m.agents :
        a \in DOMAIN n.agents /\ n.agents[a].device = m.agents[a].device
canDeferRefresh(m, n) == \* nothing displayed is withdrawn
    /\ \A a \in DOMAIN m.agents :
          /\ a \in DOMAIN n.agents
          /\ n.agents[a].device = m.agents[a].device
          /\ m.agents[a].buses \subseteq n.agents[a].buses
    /\ \A l \in DOMAIN m.links :
          l \in DOMAIN n.links /\ m.links[l].buses \subseteq n.links[l].buses

layoutNodes(m, previous) == \* spectralNodes and flowNodes keep a position on the same condition
    [a \in DOMAIN m.agents |->
        [group |-> m.agents[a].device,
         pos |-> IF a \in DOMAIN previous /\ previous[a].group = m.agents[a].device
                 THEN previous[a].pos ELSE Automatic]]

placeConductor(base, c, pinned) ==
    IF c \in DOMAIN base /\ DOMAIN base # {c} /\ c \notin pinned
    THEN [base EXCEPT ![c].pos = Automatic] ELSE base
-----------------------------------------------------------------------------
(* Presentation *)

placementRoot(s) == IF s.mode = "flow" THEN s.flow.rootId ELSE s.conductor

collapsedGroups(s) == \* a community with a removed member is discarded whole
    {c \in s.analysis.groups \cap s.collapsed :
        c \subseteq DOMAIN s.model.agents /\ s.communities /\ c # {placementRoot(s)}}

Destination(a, groups, hidden) ==
    IF a \in hidden THEN GroupNode(CHOOSE c \in groups : a \in c) ELSE AgentNode(a)
Presentation(s, root, groups, hidden) ==
    [agents |-> [a \in (DOMAIN s.base \cap DOMAIN s.model.agents) \ hidden |-> s.base[a].pos],
     groups |-> [c \in {x \in groups : (x \ {root}) \cap DOMAIN s.base # {}} |->
                    IF c \in DOMAIN s.aggregates THEN s.aggregates[c] ELSE Automatic],
     edges |-> {e \in {<<Destination(l[1], groups, hidden), Destination(l[2], groups, hidden)>> :
                          l \in DOMAIN s.model.links} : ~(e[1] = e[2] /\ e[1].kind = "group")}]
ShowGroups(s, root, groups) == Presentation(s, root, groups, (UNION groups) \ {root})
graphPresentation(s) == ShowGroups(s, placementRoot(s), collapsedGroups(s))

Drawn(s) == {AgentNode(a) : a \in DOMAIN s.nodes.agents} \cup {GroupNode(c) : c \in DOMAIN s.nodes.groups}
Reselect(s) == [s EXCEPT !.selected = IF @ \in Drawn(s) THEN @ ELSE NoNode]
present(s) == Reselect([s EXCEPT !.nodes = graphPresentation(s)])

capturePositions(s) ==
    [s EXCEPT !.base = [a \in DOMAIN s.base |->
                           IF a \in DOMAIN s.nodes.agents
                           THEN [s.base[a] EXCEPT !.pos = s.nodes.agents[a]] ELSE s.base[a]],
              !.aggregates = Updated(@, s.nodes.groups)]

analyzeGraph(m) == [sig |-> graphSignature(m), groups |-> makeCommunities(m.graph)]

pruneGroups(s) ==
    [s EXCEPT !.collapsed = @ \cap s.analysis.groups,
              !.aggregates = Restrict(@, DOMAIN @ \cap s.analysis.groups),
              !.focused = IF @ \in s.analysis.groups THEN @ ELSE {}]
-----------------------------------------------------------------------------
(* Layout *)

place(s, previous) == [s EXCEPT !.base = layoutNodes(s.model, previous)]

invalidateLayout(s) == [s EXCEPT !.generation = @ + 1, !.flowPending = FALSE]

\* What inferFlow returns for every graph, root and choice of parents.
ParentChoices(ids) == UNION {[S -> ids] : S \in SUBSET ids}
Hierarchy == [g \in {Handed[raw].graph : raw \in Snapshots} \cup {NoModel.graph} |->
                 [c \in Agent \cup {NoOne} |-> [f \in ParentChoices(Agent) |-> inferFlow(g, c, f)]]]
Asked(s) == [graph |-> s.model.graph, root |-> s.root, overrides |-> s.overrides]
FlowFor(asked) == Hierarchy[asked.graph][asked.root][asked.overrides]
FlowNow(s) == FlowFor(Asked(s))

WithFlow(s, flow) == [s EXCEPT !.flow = flow, !.overrides = flow.accepted]
inferCurrentFlow(s) == WithFlow(s, FlowNow(s))

\* Mutant: a layout refused during a drag leaves the pending mark behind.
PendingWhileHeld(s) ==
    [s EXCEPT !.generation = @ + 1, !.interrupted = FALSE, !.flowPending = TRUE]
\* computeFlow up to its await.  While a card is dragged layoutFlow throws at
\* once and the drawing is kept.
computeFlow(s) ==
    [s EXCEPT !.generation = @ + 1, !.interrupted = FALSE, !.flowPending = ~s.dragging]
JobOf(s, previous) == \* the job queued at ELK, if any
    IF s.dragging THEN <<>>
    ELSE <<[generation |-> s.generation, previous |-> previous, asked |-> Asked(s)]>>

rememberConductorHome(s) ==
    [s EXCEPT !.home = IF s.conductor \in DOMAIN s.base THEN s.base[s.conductor] ELSE None]
Home(s, base) ==
    IF s.home # None /\ s.conductor \notin s.pinned /\ s.conductor \in DOMAIN base
       /\ base[s.conductor].group = s.home.group
    THEN [base EXCEPT ![s.conductor].pos = s.home.pos] ELSE base
restoreConductor(s) == [s EXCEPT !.base = Home(s, @), !.conductor = NoOne, !.home = None]
SetApart(s) == [s EXCEPT !.base = placeConductor(@, s.conductor, s.pinned)]

Pinned(s) == Restrict(s.base, s.pinned \cap DOMAIN s.base)
Recomputed(s, recompute) ==
    IF recompute THEN pruneGroups([s EXCEPT !.analysis = analyzeGraph(s.model), !.stale = FALSE]) ELSE s
Rearranged(s) ==
    IF s.mode = "flow" THEN computeFlow(present(inferCurrentFlow(s)))
    ELSE present([SetApart(rememberConductorHome(place(s, Pinned(s)))) EXCEPT !.aggregates = Empty])
arrange(s, recompute) == \* and the job that computeFlow queues
    /\ app' = Rearranged(Recomputed(capturePositions(
                  [invalidateLayout(s) EXCEPT !.interrupted = FALSE]), recompute))
    /\ jobs' = IF app'.mode = "flow" THEN jobs \o JobOf(app', Pinned(app')) ELSE jobs

isCurrent(job) == alive /\ job.generation = app.generation /\ app.mode = "flow" /\ ~app.dragging

\* Mutant: the graph is not compared after the wait.
Unrepeated(job) == FALSE
Outdated(job) == job.asked.graph # graphSignature(app.model)

Again(job) == [job EXCEPT !.asked = Asked(app)]

Committed(job) ==
    [WithFlow(app, FlowFor(job.asked)) EXCEPT
                !.base = layoutNodes(app.model, job.previous), !.aggregates = Empty,
                !.flowPending = FALSE, !.stale = graphSignature(app.model) # app.analysis.sig]

Resolve == \* ELK answers the first job
    /\ jobs # <<>>
    /\ LET job == Head(jobs)
       IN  \/ ~isCurrent(job) /\ jobs' = Tail(jobs) /\ app' = app
           \/ isCurrent(job) /\ Outdated(job) /\ jobs' = Append(Tail(jobs), Again(job)) /\ app' = app
           \/ isCurrent(job) /\ ~Outdated(job) /\ jobs' = Tail(jobs) /\ app' = present(Committed(job))
    /\ UNCHANGED <<alive, latest, polls, ops>>
-----------------------------------------------------------------------------
(* The host: update, clear, destroy *)

Cleared(s) ==
    [invalidateLayout(s) EXCEPT
        !.dragging = FALSE, !.pending = None, !.scope = NoScope, !.selected = NoNode,
        !.focused = {}, !.conductor = NoOne, !.home = None, !.root = NoOne, !.overrides = Empty,
        !.flow = Hierarchy[NoModel.graph][NoOne][Empty], !.collapsed = {}, !.pinned = {},
        !.aggregates = Empty, !.base = Empty, !.model = NoModel, !.interrupted = FALSE,
        !.nodes = [agents |-> Empty, groups |-> Empty, edges |-> {}],
        !.analysis = analyzeGraph(NoModel), !.stale = FALSE]

Init ==
    /\ app = [model |-> NoModel, scope |-> NoScope, analysis |-> analyzeGraph(NoModel),
              flow |-> Hierarchy[NoModel.graph][NoOne][Empty], stale |-> FALSE,
              base |-> Empty, nodes |-> [agents |-> Empty, groups |-> Empty, edges |-> {}],
              selected |-> NoNode, focused |-> {}, communities |-> TRUE, mode |-> "flow",
              pinned |-> {}, conductor |-> NoOne, home |-> None, root |-> NoOne,
              overrides |-> Empty, collapsed |-> {}, aggregates |-> Empty,
              dragging |-> FALSE, pending |-> None, generation |-> 0,
              flowPending |-> FALSE, interrupted |-> FALSE]
    /\ jobs = <<>> /\ alive = TRUE
    /\ latest = [scope |-> NoScope, model |-> NoModel]
    /\ polls = 0 /\ ops = 0

sameDevice(m, n) == {a \in DOMAIN m.agents \cap DOMAIN n.agents : m.agents[a].device = n.agents[a].device}

\* Mutant: overrides of a reassigned device are kept while the ids are there.
KeepsOverrides(s, next) == {a \in DOMAIN s.overrides : {a, s.overrides[a]} \subseteq DOMAIN next.agents}
retainedOverrides(s, next) ==
    {a \in DOMAIN s.overrides : {a, s.overrides[a]} \subseteq sameDevice(s.model, next)}

Rescoped(s, changed) == \* nothing of another account's view is kept
    IF changed
    THEN [s EXCEPT !.selected = NoNode, !.focused = {}, !.collapsed = {}, !.pinned = {},
                   !.conductor = NoOne, !.home = None, !.root = NoOne,
                   !.overrides = Empty, !.aggregates = Empty]
    ELSE s
Adopted(s, next, scope, kept) == \* preferences never cross a reassigned device
    [s EXCEPT !.pinned = @ \cap kept,
              !.home = IF s.conductor \in kept THEN @ ELSE None,
              !.conductor = IF @ \in kept THEN @ ELSE NoOne,
              !.root = IF @ \in kept THEN @ ELSE NoOne,
              !.overrides = Restrict(@, retainedOverrides(s, next)),
              !.scope = scope, !.model = next,
              !.stale = next.graph # s.analysis.sig]
Regrouped(s, layout) == Recomputed(s, layout)
Ungrouped(s, narrower) == \* the aggregate may have encoded removed membership
    IF narrower THEN [s EXCEPT !.aggregates = Empty, !.collapsed = {}, !.focused = {}] ELSE s
Reinferred(s, layout) == IF layout THEN inferCurrentFlow(s) ELSE s
Repainted(s, previous) == present(place(s, previous))
Invalidated(s, layout) == IF layout THEN [invalidateLayout(s) EXCEPT !.interrupted = FALSE] ELSE s
Relaid(s, layout) == IF layout /\ s.mode = "flow" /\ s.model.agents # Empty THEN computeFlow(s) ELSE s

Refresh(s, next, scope, changed, narrower, layout) ==
    LET previous == IF changed THEN Empty ELSE s.base
    IN  /\ app' = Relaid(Repainted(Reinferred(Ungrouped(Regrouped(Adopted(
                      Rescoped(Invalidated(s, layout), changed), next, scope,
                      sameDevice(s.model, next)), layout), narrower), layout), previous), layout)
        /\ jobs' = IF layout /\ app'.mode = "flow" /\ next.agents # Empty
                   THEN jobs \o JobOf(app', previous) ELSE jobs
applyRefresh(s, next, scope) ==
    Refresh(capturePositions(s), next, scope, scope # s.scope, ~canDeferRefresh(s.model, next),
            \/ scope # s.scope \/ ~canDeferRefresh(s.model, next)
            \/ DOMAIN s.model.agents # DOMAIN next.agents)

Defers(next, scope) == app.dragging /\ scope = app.scope /\ canDeferRefresh(app.model, next)

Polled == /\ alive /\ polls < MaxPolls /\ polls + ops < MaxSteps
          /\ polls' = polls + 1

update(raw) ==
    LET next == Handed[raw]
    IN  /\ Polled
        /\ latest' = [scope |-> raw.scope, model |-> next]
        /\ \/ /\ Defers(next, raw.scope)
              /\ app' = [app EXCEPT !.pending = latest'] /\ jobs' = jobs
           \/ /\ ~Defers(next, raw.scope)
              /\ applyRefresh([app EXCEPT !.dragging = FALSE, !.pending = None], next, raw.scope)
        /\ UNCHANGED <<alive, ops>>

clear ==
    /\ Polled
    /\ app' = Cleared(app) /\ latest' = [scope |-> NoScope, model |-> NoModel]
    /\ UNCHANGED <<jobs, alive, ops>>

destroy ==
    /\ alive /\ alive' = FALSE
    /\ app' = invalidateLayout(Cleared(app)) /\ latest' = [scope |-> NoScope, model |-> NoModel]
    /\ UNCHANGED <<jobs, polls, ops>>
-----------------------------------------------------------------------------
(* The person *)

Operation == alive /\ polls + ops < MaxSteps /\ ops' = ops + 1 /\ UNCHANGED <<alive, latest, polls>>
Plain(s) == app' = s /\ UNCHANGED jobs
Tag(a) == <<app.scope, app.model.agents[a].device>>

Selected(s, node) == \* select(id) of an agent's card, or of nothing
    IF node = s.selected /\ s.focused = {} THEN s
    ELSE present([capturePositions(s) EXCEPT !.selected = node, !.focused = {}])
focusGroup(s, c) ==
    present([capturePositions(s) EXCEPT !.focused = IF @ = c THEN {} ELSE c, !.selected = NoNode])
select(node) == /\ node \in {n \in Drawn(app) : n.kind = "agent"} \cup {NoNode}
                /\ app.selected # node /\ Operation /\ Plain(Selected(app, node))
selectGroup(c) == /\ c \in app.analysis.groups /\ Operation /\ Plain(focusGroup(app, c))

Layered(s) == IF s.communities THEN s
              ELSE [s EXCEPT !.collapsed = {}, !.aggregates = Empty, !.focused = {}]
toggleCommunityLayer ==
    Operation /\ Plain(present(Layered([capturePositions(app) EXCEPT !.communities = ~@])))

Shifted(s, c, a) == \* expanding a group moves its members to where the group was put
    /\ c \in DOMAIN s.aggregates /\ s.aggregates[c] # Automatic
    /\ a \in c /\ a # placementRoot(s)
Expanded(s, c) ==
    [s EXCEPT !.base = [a \in DOMAIN s.base |->
                           IF Shifted(s, c, a) THEN [group |-> s.base[a].group, pos |-> <<s.scope, s.base[a].group>>]
                           ELSE s.base[a]],
              !.aggregates = Restrict(@, DOMAIN @ \ {c}), !.collapsed = @ \ {c}]
Toggled(s, c) == present(IF c \in s.collapsed THEN Expanded(capturePositions(s), c)
                         ELSE [capturePositions(s) EXCEPT !.collapsed = @ \cup {c}, !.selected = NoNode])
toggleGroup(c) == c \in app.analysis.groups /\ Operation /\ Plain(Toggled(app, c))
openMember(a) == \* from the list of a community's members
    \E c \in app.analysis.groups :
        /\ a \in c /\ Operation
        /\ Plain(Selected(IF c \in app.collapsed /\ a # placementRoot(app) THEN Toggled(app, c) ELSE app,
                          AgentNode(a)))

\* What can be done to a selected agent: its card is clicked, then a button.
Details(a) == AgentNode(a) \in Drawn(app) /\ Operation
Opened(a) == Selected(app, AgentNode(a))

Pin(s, a) == [s EXCEPT !.pinned = IF a \in @ THEN @ \ {a} ELSE @ \cup {a}]
togglePin(a) == \* a layout under way starts again with the new pins
    /\ Details(a)
    /\ \/ /\ app.flowPending
          /\ arrange(Pin(capturePositions(Opened(a)), a), FALSE)
       \/ /\ ~app.flowPending
          /\ Plain(present(Pin(capturePositions(Opened(a)), a)))

chooseConductor(a) ==
    /\ app.mode # "flow" /\ Details(a)
    /\ \/ /\ a = app.conductor
          /\ Plain(present(restoreConductor(capturePositions(Opened(a)))))
       \/ /\ a # app.conductor
          /\ Plain(present(SetApart(rememberConductorHome(
                [restoreConductor(capturePositions(Opened(a))) EXCEPT !.conductor = a]))))

chooseFlowRoot(a) ==
    /\ app.mode = "flow" /\ Details(a)
    /\ arrange([Opened(a) EXCEPT !.root = IF @ = a THEN NoOne ELSE a], FALSE)

chooseParent(a, parent) ==
    /\ app.mode = "flow" /\ Details(a)
    /\ \/ /\ parent # NoOne /\ validateParentOverride(app.model.graph, app.flow, a, parent)
          /\ arrange([Opened(a) EXCEPT !.overrides = Updated(@, [b \in {a} |-> parent])], FALSE)
       \/ /\ parent = NoOne /\ a \in DOMAIN app.overrides
          /\ arrange([Opened(a) EXCEPT !.overrides = Restrict(@, DOMAIN @ \ {a})], FALSE)

recompute == app.model.agents # Empty /\ Operation /\ arrange(app, TRUE)
chooseLayout(m) == m # app.mode /\ Operation /\ arrange([app EXCEPT !.mode = m], FALSE)
chooseDirection == app.mode = "flow" /\ Operation /\ arrange(app, FALSE)

Held == [invalidateLayout(app) EXCEPT !.dragging = TRUE, !.interrupted = @ \/ app.flowPending]
Grab(node) == ~app.dragging /\ node \in Drawn(app) /\ Operation
dragStart(a) == \* the card follows the pointer
    Grab(AgentNode(a)) /\ Plain([Held EXCEPT !.nodes.agents[a] = Tag(a)])
dragGroupStart(c) == Grab(GroupNode(c)) /\ Plain([Held EXCEPT !.nodes.groups[c] = <<app.scope>>])
\* Mutant: the snapshot that arrived during the drag is forgotten.
ForgetPending ==
    /\ alive /\ app.dragging
    /\ Plain(capturePositions([app EXCEPT !.dragging = FALSE, !.pending = None]))
    /\ UNCHANGED <<alive, latest, polls, ops>>
dragStop ==
    /\ alive /\ app.dragging
    /\ \/ /\ app.pending = None
          /\ Plain(capturePositions([app EXCEPT !.dragging = FALSE]))
       \/ /\ app.pending # None
          /\ applyRefresh(capturePositions([app EXCEPT !.dragging = FALSE, !.pending = None]),
                          app.pending.model, app.pending.scope)
    /\ UNCHANGED <<alive, latest, polls, ops>>
-----------------------------------------------------------------------------
Next ==
    \/ \E raw \in Snapshots : update(raw)
    \/ clear \/ destroy \/ Resolve
    \/ \E a \in Agent :
          \/ select(AgentNode(a)) \/ openMember(a) \/ togglePin(a) \/ chooseConductor(a)
          \/ chooseFlowRoot(a) \/ dragStart(a)
          \/ \E parent \in Agent \cup {NoOne} : chooseParent(a, parent)
    \/ select(NoNode)
    \/ \E c \in app.analysis.groups : selectGroup(c) \/ toggleGroup(c) \/ dragGroupStart(c)
    \/ toggleCommunityLayer \/ recompute \/ chooseDirection \/ dragStop
    \/ \E m \in Modes \cup {"flow"} : chooseLayout(m)

\* ELK answers every job; nothing else has to happen.  Only Resolve takes a job
\* from the front, so this is the weak fairness of Resolve.
Answer == jobs # <<>> /\ jobs' \in {Tail(jobs), Append(Tail(jobs), Again(Head(jobs)))}
Spec == Init /\ [][Next]_vars /\ WF_jobs(Answer)
-----------------------------------------------------------------------------
TypeOK ==
    /\ DOMAIN app.model.agents \subseteq Agent /\ app.pinned \subseteq Agent
    /\ \A a \in DOMAIN app.base : app.base[a].group \in Device
    /\ {app.conductor, app.root, app.flow.rootId} \subseteq Agent \cup {NoOne}
    /\ app.analysis.groups \subseteq SUBSET Agent /\ app.mode \in Modes \cup {"flow"}
    /\ \A i \in 1..Len(jobs) : jobs[i].generation \in 0..app.generation
    /\ {alive, app.dragging, app.flowPending, app.stale, app.interrupted} \subseteq BOOLEAN

(* Nothing that the last snapshot withdrew is drawn, remembered or named in *)
(* the panels, not even while a card is dragged or a layout is under way    *)
(* (model.mjs:1-2, 99-101).                                                 *)
NothingWithdrawn ==
    LET now == latest.model
        ids == DOMAIN now.agents
        nodes == UNION {n.of : n \in Drawn(app)}
    IN  /\ nodes \cup (UNION app.analysis.groups) \cup (UNION app.collapsed) \subseteq ids
        /\ (UNION DOMAIN app.aggregates) \cup app.focused \subseteq ids
        /\ DOMAIN app.flow.parent \cup app.flow.roots \cup DOMAIN app.overrides \subseteq ids
        /\ app.pinned \cup ({app.conductor, app.root} \ {NoOne}) \subseteq ids
        /\ \A a \in DOMAIN app.nodes.agents : now.agents[a].device = app.base[a].group
        /\ \A e \in app.nodes.edges : \E l \in DOMAIN now.links : l[1] \in e[1].of /\ l[2] \in e[2].of
        /\ app.selected.of \subseteq ids

(* Pins, the chosen root, the conductor and parent choices never pass to    *)
(* another device or another account's view, and neither does the position  *)
(* a person gave a card (App.svelte:313-318, model.mjs:88).                 *)
Same(a) == a \in DOMAIN app.model.agents /\ a \in DOMAIN app'.model.agents /\ Tag(a) = Tag(a)'
IdentityKept ==
    [][/\ \A a \in app.pinned \cap app'.pinned : Same(a)
       /\ app.root # NoOne /\ app'.root = app.root => Same(app.root)
       /\ app.conductor # NoOne /\ app'.conductor = app.conductor => Same(app.conductor)
       /\ \A a \in DOMAIN app.overrides \cap DOMAIN app'.overrides :
             app.overrides[a] = app'.overrides[a] => Same(a) /\ Same(app.overrides[a])
       /\ \A a \in DOMAIN app'.base : app'.base[a].pos \in {Automatic, Tag(a)'}]_vars

(* The hierarchy that Flow draws is a forest over all visible agents, along *)
(* observed relations only, that honours the person's choices               *)
(* (flow.mjs:71-72, 137-139).                                               *)
Organised ==
    LET g == app.model.graph
        f == app.flow
    IN  /\ DOMAIN f.parent = g.ids \ f.roots /\ f.roots \subseteq g.ids
        /\ \A a \in DOMAIN f.parent : f.parent[a] \in neighborsFor(g, a)
        /\ cycleMembers(f.parent) = {}
        /\ f.rootId \in f.roots \/ g.ids = {}
        /\ \A a \in DOMAIN app.overrides : f.parent[a] = app.overrides[a]

(* The drawing follows the last snapshot, or the one before as long as a    *)
(* card is held and nothing was withdrawn; a change of traffic that the     *)
(* groups do not show is announced (App.svelte:295-298, 325).               *)
LatestShown ==
    /\ IF app.pending = None THEN app.model = latest.model /\ app.scope = latest.scope
       ELSE app.dragging /\ app.pending = latest
    /\ app.stale = (app.analysis.sig # graphSignature(app.model))

(* A layout that ELK finishes is drawn only for the graph, root and choices *)
(* of that moment (App.svelte:193-204).                                     *)
NoStaleCommit ==
    [][Resolve /\ app' # app =>
          /\ app'.flow = FlowNow(app')
          /\ alive /\ app.mode = "flow" /\ ~app.dragging]_vars

(* The graph does not stay in "Arranging" for ever.                         *)
LayoutSettles == app.flowPending ~> ~app.flowPending
===============================================================================
