------------------------------ MODULE Topology ------------------------------
(***************************************************************************)
(* The network the controller manages, as the controller's data types see  *)
(* it: switches (datapath ids), the OpenFlow sessions they may open, ports, *)
(* the directed links LLDP can report, hosts and their attachment points,  *)
(* and the IP flows the hosts may send.  Everything here is constant.      *)
(*                                                                         *)
(* A flow of controller/extensions/flow.py is a model value: SrcHw and     *)
(* DstHw give its two MAC addresses and FlowId the crc32 key under which   *)
(* Controller.flows files it.                                              *)
(***************************************************************************)
EXTENDS Naturals, SequencesExt

CONSTANTS
    Switches,   \* datapath ids
    Conns,      \* OpenFlow sessions (of_01.Connection objects)
    Dpid,       \* the switch that opens a session
    NoCon,      \* "no session": a dict without an entry for the switch
    Ports,      \* port numbers in use
    Links,      \* directed links: [dpid1, port1, dpid2, port2]
    Hosts,      \* host MAC addresses
    Attach,     \* where each host is plugged: [sw, port]
    Flows,      \* IP flows (5-tuples)
    SrcHw,      \* source MAC of a flow
    DstHw,      \* destination MAC of a flow
    FlowIds,    \* values of Flow.flow_id()
    FlowId      \* the crc32 of a flow; it need not be injective

NoPort == 0     \* OpenFlow port numbers start at 1

ASSUME SwitchAssumption ==
    /\ Dpid \in [Conns -> Switches]
    /\ NoCon \notin Conns

ASSUME PortAssumption == Ports \subseteq Nat \ {NoPort}

ASSUME LinkAssumption ==
    Links \subseteq [dpid1: Switches, port1: Ports, dpid2: Switches, port2: Ports]

ASSUME HostAssumption ==
    /\ Attach \in [Hosts -> [sw: Switches, port: Ports]]
    /\ Hosts \cap Switches = {}

ASSUME FlowAssumption ==
    /\ SrcHw \in [Flows -> Hosts]
    /\ DstHw \in [Flows -> Hosts]
    /\ FlowId \in [Flows -> FlowIds]
    /\ Flows \cap Hosts = {}
    /\ IsFiniteSet(Flows)

-----------------------------------------------------------------------------
(* Data-plane frames.  A payload is an IP flow, or a host: a frame that     *)
(* host sends which is not IPv4 (ARP).  sw and port say where it arrived.   *)

Payloads == Flows \cup Hosts

Frames == [pkt: Payloads, sw: Switches, port: Ports]

\* packet.src of a frame.
Sender(pkt) == IF pkt \in Flows THEN SrcHw[pkt] ELSE pkt

-----------------------------------------------------------------------------
(* networkx.all_shortest_paths on the controller's DiGraph.                *)

GraphNodes == Switches \cup Hosts

\* The walks of n edges that start at src and never repeat a node.
Walks(edges, src) ==
    LET W[n \in Nat] ==
          IF n = 0 THEN {<<src>>}
          ELSE UNION { { Append(w, e[2]) :
                           e \in { d \in edges : /\ d[1] = w[n]
                                                 /\ d[2] \notin ToSet(w) } } :
                       w \in W[n - 1] }
    IN  W

\* Every path of minimum length; none when an end is not a node of the graph
\* (NodeNotFound) or cannot be reached (NetworkXNoPath).
ShortestPaths(nodes, edges, src, dst) ==
    LET W       == Walks(edges, src)
        To(n)   == { w \in W[n] : w[n + 1] = dst }
        Lengths == { n \in 0 .. Cardinality(nodes) : To(n) # {} }
    IN  IF src \in nodes /\ dst \in nodes /\ Lengths # {}
        THEN To(CHOOSE n \in Lengths : \A m \in Lengths : n <= m)
        ELSE {}

\* The list the generator yields: some order, the same for the same graph.
PathList(nodes, edges, src, dst) ==
    CHOOSE order \in SetToSeqs(ShortestPaths(nodes, edges, src, dst)) : TRUE
=============================================================================
