--------------------------- MODULE MCBusGraphView ---------------------------
(* Three agents on two devices, one or two buses, and the snapshots a      *)
(* dashboard may hand over between two polls.                              *)
EXTENDS BusGraphView, TLC

MCAgent == 1..3
MCDevice == {"d1", "d2"}
MCModes == {"spectral"}

Row(device, buses) == [device |-> device, buses |-> buses]
Edges(f) == [members |-> MCAgent, edges |-> f]

AllAgents == (1 :> Row("d1", {"b"})) @@ (2 :> Row("d1", {"b"})) @@ (3 :> Row("d2", {"b"}))
Triangle == (<<1, 2>> :> 3) @@ (<<2, 3>> :> 2) @@ (<<3, 1>> :> 1)
Busy == (<<1, 2>> :> 3) @@ (<<2, 3>> :> 2) @@ (<<3, 1>> :> 1) @@ (<<1, 3>> :> 4)

Full == [scope |-> "s", agents |-> AllAgents, buses |-> [b \in {"b"} |-> Edges(Triangle)]]
MoreTraffic == [Full EXCEPT !.buses["b"].edges = Busy]
LinkGone == [Full EXCEPT !.buses["b"].edges = (<<1, 2>> :> 3) @@ (<<2, 3>> :> 2)]
AgentGone == [Full EXCEPT !.agents = (1 :> Row("d1", {"b"})) @@ (2 :> Row("d1", {"b"}))]
Reassigned == [Full EXCEPT !.agents = (2 :> Row("d2", {"b"})) @@ AllAgents]
OtherScope == [Full EXCEPT !.scope = "t"]

MCSnapshots == {Full, MoreTraffic, LinkGone, AgentGone, Reassigned, OtherScope}
=============================================================================
