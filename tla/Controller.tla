----------------------------- MODULE Controller -----------------------------
(***************************************************************************)
(* controller/controller.py with its SwitchController objects              *)
(* (controller/extensions/switch.py) and flows (extensions/flow.py): one   *)
(* action per event handler, complete with every call it makes.            *)
(*                                                                         *)
(* A SwitchController is named by the session it was created for, so a     *)
(* stale one (its switch has reconnected, or is gone) keeps its own state. *)
(***************************************************************************)
EXTENDS Connection, Integers

VARIABLES
    connections,  \* Controller.connections
    switches,     \* Controller.switches: dpid -> SwitchController, by session
    neighbour,    \* SwitchController.neighbour: neighbour switch -> port
    flows,        \* Controller.flows: no entry, or its 'installed' flag
    hosts,        \* Controller.hosts: host -> port
    nodes, edges, \* Controller.graph
    ecmp          \* Controller._ecmp_last_index_used

ctlVars == <<connections, switches, neighbour, flows, hosts, nodes, edges, ecmp>>

NoIndex == -1   \* the pair has no entry in _ecmp_last_index_used
NoNeighbours == [s \in Switches |-> NoPort]

CtlTypeOK ==
    /\ connections \subseteq Conns
    /\ switches \in [Switches -> Conns \cup {NoCon}]
    /\ neighbour \in [Conns -> [Switches -> Ports \cup {NoPort}]]
    /\ flows \in [FlowIds -> {"absent", "pending", "installed"}]
    /\ hosts \in [Hosts -> Ports \cup {NoPort}]
    /\ nodes \subseteq GraphNodes
    /\ edges \subseteq GraphNodes \X GraphNodes
    /\ ecmp \in [Hosts \X Hosts -> Nat \cup {NoIndex}]

CtlInit ==
    /\ connections = {}
    /\ switches = [s \in Switches |-> NoCon]
    /\ neighbour = [c \in Conns |-> NoNeighbours]
    /\ flows = [i \in FlowIds |-> "absent"]
    /\ hosts = [h \in Hosts |-> NoPort]
    /\ nodes = {}
    /\ edges = {}
    /\ ecmp = [pair \in Hosts \X Hosts |-> NoIndex]

-----------------------------------------------------------------------------
(* Switch events.                                                          *)

\* graph.remove_node(n): the edges at n go with it.
EdgesWithout(n) == { e \in edges : e[1] # n /\ e[2] # n }

HandleConnectionUp(c) ==
    /\ nodes' = nodes \cup {Dpid[c]}
    /\ connections' = connections \cup {c}
    /\ switches' = IF c \in connections THEN switches
                   ELSE [switches EXCEPT ![Dpid[c]] = c]
    /\ neighbour' = IF c \in connections THEN neighbour
                    ELSE [neighbour EXCEPT ![c] = NoNeighbours]
    /\ UNCHANGED <<flows, hosts, edges, ecmp>>

HandleConnectionDown(c) ==
    /\ connections' = connections \ {c}
    /\ nodes' = nodes \ {Dpid[c]}
    /\ edges' = EdgesWithout(Dpid[c])
    /\ UNCHANGED <<switches, neighbour, flows, hosts, ecmp>>

\* Slips: the entry outlives its rules; the other switches keep theirs.
FlowRemovedKeepsEntry(f) ==
    /\ Send([c \in Conns |-> IF \E s \in Switches : switches[s] = c
                             THEN <<DeleteByFlow(f)>> ELSE <<>>])
    /\ UNCHANGED ctlVars

FlowRemovedKeepsRules(f) ==
    /\ flows' = [flows EXCEPT ![FlowId[f]] = "absent"]
    /\ UNCHANGED <<toSwitch, connections, switches, neighbour, hosts, nodes, edges, ecmp>>

\* The entry of the flow is dropped and every switch told to drop its rule.
HandleFlowRemoved(f) ==
    /\ flows' = [flows EXCEPT ![FlowId[f]] = "absent"]
    /\ Send([c \in Conns |-> IF \E s \in Switches : switches[s] = c
                             THEN <<DeleteByFlow(f)>> ELSE <<>>])
    /\ UNCHANGED <<connections, switches, neighbour, hosts, nodes, edges, ecmp>>

-----------------------------------------------------------------------------
(* Link events.                                                            *)

\* Slip: a link to a switch that is not up yet is passed over.
LinkAddedBetweenKnown(l) ==
    LET c == switches[l.dpid1]
    IN  IF c = NoCon \/ switches[l.dpid2] = NoCon THEN UNCHANGED ctlVars
        ELSE /\ nodes' = nodes \cup {l.dpid1, l.dpid2}
             /\ edges' = edges \cup {<<l.dpid1, l.dpid2>>}
             /\ neighbour' = [neighbour EXCEPT ![c][l.dpid2] = l.port1]
             /\ UNCHANGED <<connections, switches, flows, hosts, ecmp>>

\* With no SwitchController for the source the KeyError is swallowed: the
\* edge stays, without a port.
HandleLinkAdded(l) ==
    LET c == switches[l.dpid1]
    IN  /\ nodes' = nodes \cup {l.dpid1, l.dpid2}
        /\ edges' = edges \cup {<<l.dpid1, l.dpid2>>}
        /\ neighbour' = IF c = NoCon THEN neighbour
                        ELSE [neighbour EXCEPT ![c][l.dpid2] = l.port1]
        /\ UNCHANGED <<connections, switches, flows, hosts, ecmp>>

\* Slip: the rules go, the port does not.
LinkRemovedKeepsEdge(l) ==
    LET c == switches[l.dpid1]
    IN  /\ IF c = NoCon THEN UNCHANGED toSwitch
           ELSE Send(OnlyTo(c, DeleteByPort(l.port1)))
        /\ UNCHANGED ctlVars

\* remove_edge raises without the edge and removeLinkTo without the port; what
\* follows the exception is skipped.
HandleLinkRemoved(l) ==
    LET e == <<l.dpid1, l.dpid2>>
        c == IF e \in edges THEN switches[l.dpid1] ELSE NoCon
        p == IF c = NoCon THEN NoPort ELSE neighbour[c][l.dpid2]
    IN  /\ edges' = edges \ {e}
        /\ IF p = NoPort
           THEN UNCHANGED <<neighbour, toSwitch>>
           ELSE /\ Send(OnlyTo(c, DeleteByPort(p)))
                /\ neighbour' = [neighbour EXCEPT ![c][l.dpid2] = NoPort]
        /\ UNCHANGED <<connections, switches, flows, hosts, nodes, ecmp>>

-----------------------------------------------------------------------------
(* Host events.                                                            *)

\* Slips: the switch filed for the port; an edge in one direction only.
HostSeenFilesSwitch(h, s, p) ==
    /\ hosts' = IF hosts[h] = NoPort THEN [hosts EXCEPT ![h] = s] ELSE hosts
    /\ nodes' = nodes \cup {h, s}
    /\ edges' = edges \cup {<<h, s>>, <<s, h>>}
    /\ UNCHANGED <<connections, switches, neighbour, flows, ecmp>>

HostSeenOneWay(h, s, p) ==
    /\ hosts' = IF hosts[h] = NoPort THEN [hosts EXCEPT ![h] = p] ELSE hosts
    /\ nodes' = nodes \cup {h, s}
    /\ edges' = edges \cup {<<s, h>>}
    /\ UNCHANGED <<connections, switches, neighbour, flows, ecmp>>

\* A join or a move: only an unknown host is filed, whatever the event says.
HandleHostSeen(h, s, p) ==
    /\ hosts' = IF hosts[h] = NoPort THEN [hosts EXCEPT ![h] = p] ELSE hosts
    /\ IF h \in nodes
       THEN UNCHANGED <<nodes, edges>>
       ELSE /\ nodes' = nodes \cup {h, s}
            /\ edges' = edges \cup {<<h, s>>, <<s, h>>}
    /\ UNCHANGED <<connections, switches, neighbour, flows, ecmp>>

HostLeftKeepsPort(h) ==
    /\ nodes' = nodes \ {h}
    /\ edges' = EdgesWithout(h)
    /\ UNCHANGED <<hosts, connections, switches, neighbour, flows, ecmp>>

HandleHostLeft(h) ==
    /\ hosts' = [hosts EXCEPT ![h] = NoPort]
    /\ nodes' = nodes \ {h}
    /\ edges' = EdgesWithout(h)
    /\ UNCHANGED <<connections, switches, neighbour, flows, ecmp>>

-----------------------------------------------------------------------------
(* SwitchController._handle_PacketIn and Controller.validate_and_install.  *)

\* Slip: the index does not advance.
SameIndex(last, total) == IF last = NoIndex THEN 0 ELSE last

\* _get_latest_ECMP_index: round robin over the paths of a pair of hosts.
NextIndex(last, total) ==
    IF last = NoIndex THEN 0
    ELSE IF last >= total - 1 THEN 0
    ELSE last + 1

\* _find_path, given the list all_shortest_paths returned.
ChosenIndex(f, paths) == NextIndex(ecmp[<<SrcHw[f], DstHw[f]>>], Len(paths))

\* SwitchController.update: the port of hop i of a path.  NoPort stands for the
\* KeyError of get_hosts()[dst_hw].
OutPort(f, path, i) ==
    LET next == IF i < Len(path) THEN path[i + 1] ELSE NoCon
        c    == switches[path[i]]
    IN  IF next \in Switches /\ neighbour[c][next] # NoPort
        THEN neighbour[c][next]
        ELSE hosts[DstHw[f]]

\* Slip: the loop starts one hop late.
HopsAfterFirst(path) == { i \in 3 .. Len(path) :
                            path[i] \in Switches /\ switches[path[i]] # NoCon }

\* The positions of a path that have a SwitchController to update.
Hops(path) == { i \in 1 .. Len(path) :
                  path[i] \in Switches /\ switches[path[i]] # NoCon }

\* The hops update is called on before one raises, if any does.
Updated(f, path) ==
    { i \in Hops(path) : \A j \in Hops(path) : j <= i => OutPort(f, path, j) # NoPort }

\* What the loop of validate_and_install sends on each session.
RulesOf(f, path) ==
    [c \in Conns |->
       IF \E i \in Updated(f, path) : switches[path[i]] = c
       THEN <<AddRule(f, OutPort(f, path, CHOOSE i \in Updated(f, path) :
                                             switches[path[i]] = c))>>
       ELSE <<>>]

PathsOf(f) == PathList(nodes, edges, SrcHw[f], DstHw[f])

UntouchedByPacketIn ==
    UNCHANGED <<connections, switches, neighbour, hosts, nodes, edges>>

\* Not IPv4: "Ignorando".
IgnorePacket(fr) ==
    /\ fr.pkt \in Hosts
    /\ UNCHANGED <<toSwitch, flows, ecmp>>
    /\ UntouchedByPacketIn

\* The flow is marked installed: the packet goes back to the switch's table.
ForwardInstalled(c, fr) ==
    /\ fr.pkt \in Flows
    /\ flows[FlowId[fr.pkt]] = "installed"
    /\ Send(OnlyTo(c, PacketOut(fr)))
    /\ UNCHANGED <<flows, ecmp>>
    /\ UntouchedByPacketIn

\* _find_path raised: the entry stays, not installed, and the packet is dropped.
NoPathFound(fr) ==
    /\ fr.pkt \in Flows
    /\ flows[FlowId[fr.pkt]] # "installed"
    /\ PathsOf(fr.pkt) = <<>>
    /\ flows' = [flows EXCEPT ![FlowId[fr.pkt]] = "pending"]
    /\ UNCHANGED <<toSwitch, ecmp>>
    /\ UntouchedByPacketIn

\* A rule to every switch of the chosen path, then the packet.  A KeyError in
\* update leaves the rules already sent, the flag down and the packet dropped.
InstallPath(c, fr) ==
    LET f     == fr.pkt
        paths == PathsOf(f)
        index == ChosenIndex(f, paths)
        path  == paths[index + 1]
        rules == RulesOf(f, path)
        ok    == Updated(f, path) = Hops(path)
    IN  /\ f \in Flows
        /\ flows[FlowId[f]] # "installed"
        /\ paths # <<>>
        /\ ecmp' = [ecmp EXCEPT ![<<SrcHw[f], DstHw[f]>>] = index]
        /\ flows' = [flows EXCEPT ![FlowId[f]] = IF ok THEN "installed" ELSE "pending"]
        /\ Send(IF ok THEN [rules EXCEPT ![c] = Append(@, PacketOut(fr))] ELSE rules)
        /\ UntouchedByPacketIn

HandlePacketIn(c, fr) ==
    \/ IgnorePacket(fr)
    \/ ForwardInstalled(c, fr)
    \/ NoPathFound(fr)
    \/ InstallPath(c, fr)
=============================================================================
