----------------------------- MODULE Properties -----------------------------
(***************************************************************************)
(* What the deployed system promises: how the controller's view, the       *)
(* discovery's and the tracker's, and the tables of the switches relate.   *)
(***************************************************************************)
EXTENDS Deployment

\* Nothing is under way: no message, no frame, no handler to call.
Quiet == /\ Idle
         /\ \A c \in Conns : toSwitch[c] = <<>> /\ fromSwitch[c] = <<>>
         /\ frames = {}

\* No session that was opened has been lost.
SessionsLast == \A c \in Conns \ unused : Online(c)

\* Nor is any switch without one.
AllUp == SessionsLast /\ \A s \in Switches : Connected(s)

Installed(f) == flows[FlowId[f]] = "installed"

-----------------------------------------------------------------------------
(* Rules and flows.                                                        *)

\* Where a frame of f can be after n hops by the rules of the switches.
Reached(f) ==
    LET At[n \in Nat] ==
          IF n = 0 THEN {Attach[SrcHw[f]]}
          ELSE { [sw |-> l.dpid2, port |-> l.port2] :
                   l \in { k \in Links : \E at \in At[n - 1] :
                             /\ k.dpid1 = at.sw
                             /\ k.port1 = table[at.sw][f]
                             /\ k.port1 # at.port } }
    IN  UNION { At[n] : n \in 0 .. Cardinality(Switches) }

\* The rules carry a frame of f from its source host to its destination.
Delivers(f) == \E at \in Reached(f) :
                 [sw |-> at.sw, port |-> table[at.sw][f]] = Attach[DstHw[f]]

\* With every switch connected, a flow marked installed is carried by their
\* tables: the flag validate_and_install trusts has its rules behind it.
InstalledFlowDelivers ==
    (Quiet /\ \A s \in Switches : Connected(s)) =>
      \A f \in Flows : Installed(f) => Delivers(f)

\* As long as no session is lost, no switch keeps a rule of a flow the
\* controller has forgotten: a rule lost anywhere is withdrawn everywhere
\* (_handle_flow_removal).
NoOrphanRules ==
    (Quiet /\ SessionsLast) => \A s \in Switches, f \in Flows :
               (Connected(s) /\ table[s][f] # NoPort) => Installed(f)

\* A packet sent back to a switch's table finds there the rule it was sent
\* back for.
PacketOutMatches ==
    \A c \in Conns :
      (Online(c) /\ toSwitch[c] # <<>> /\ Head(toSwitch[c]).type = "packet_out")
        => RuleFor(Head(toSwitch[c]).frame) # NoPort

\* Once a switch has answered the barrier of its handshake, and until the
\* controller is told, it has no rule left.
HandshakeLeavesNoRules ==
    \A c \in Conns :
      (/\ Online(c) /\ conState[c] = "connecting"
       /\ \A i \in DOMAIN toSwitch[c] : toSwitch[c][i].type # "barrier")
        => table[Dpid[c]] = NoRules

\* Port p of switch s is where the hop - a switch or a host - is.
LeadsTo(s, p, hop) ==
    IF hop \in Hosts THEN Attach[hop] = [sw |-> s, port |-> p]
    ELSE \E l \in Links : l.dpid1 = s /\ l.port1 = p /\ l.dpid2 = hop

\* What the step wrote to session c.
Written(c) == { toSwitch'[c][i] : i \in Len(toSwitch[c]) + 1 .. Len(toSwitch'[c]) }

NewlyInstalled(f) == ~ Installed(f) /\ Installed(f)'

\* A rule for f to the next hop is sent to every switch of a shortest path.
Covered(f) ==
    \E path \in ShortestPaths(nodes, edges, SrcHw[f], DstHw[f]) :
      \A i \in 2 .. Len(path) - 1 :
        \E c \in Conns, p \in Ports :
          /\ Dpid[c] = path[i]
          /\ AddRule(f, p) \in Written(c)
          /\ LeadsTo(path[i], p, path[i + 1])

\* While every switch is connected and no session was lost, a flow is marked
\* installed only as every switch of a shortest path is sent the rule that
\* leads to the next hop.
InstallsCoverPath ==
    [][\A f \in Flows : (NewlyInstalled(f) /\ AllUp) => Covered(f)]_vars

-----------------------------------------------------------------------------
(* Views of the topology.                                                  *)

\* As long as no session is lost, between events the graph has an edge between
\* two switches exactly for the links discovery holds, and the neighbour table
\* of the first switch the port of one.
GraphMirrorsDiscovery ==
    (Idle /\ SessionsLast) =>
            /\ edges \cap (Switches \X Switches)
                 = { <<l.dpid1, l.dpid2>> : l \in adjacency }
            /\ \A l \in adjacency :
                 /\ switches[l.dpid1] # NoCon
                 /\ \E k \in adjacency :
                      /\ k.dpid1 = l.dpid1 /\ k.dpid2 = l.dpid2
                      /\ neighbour[switches[l.dpid1]][l.dpid2] = k.port1

\* The controller knows the hosts the tracker knows.
HostsMirrorTracker ==
    \A h \in Hosts : (hosts[h] # NoPort) <=> (tracked[h] # Nowhere)

\* A host of the graph has a port: update never raises for its flows.
GraphHostHasPort == \A h \in Hosts : h \in nodes => hosts[h] # NoPort

\* As long as no session is lost, a known host is attached to the graph while
\* its switch is in it.
KnownHostAttached ==
    (Quiet /\ SessionsLast) => \A h \in Hosts :
      (/\ tracked[h] # Nowhere
       /\ Connected(tracked[h].sw)
       /\ tracked[h].sw \in nodes)
        => \E s \in Switches : {<<h, s>>, <<s, h>>} \subseteq edges

\* The nexus never hands out a session that is closed.
NexusHoldsLiveSession ==
    \A s \in Switches : nexus[s] # NoCon => conState[nexus[s]] # "closed"

-----------------------------------------------------------------------------
(* Equal-cost paths.                                                       *)

\* f takes another of the shortest paths than the last flow of the pair did.
Rotated(f) ==
    LET pair  == <<SrcHw[f], DstHw[f]>>
        total == Cardinality(ShortestPaths(nodes, edges, pair[1], pair[2]))
    IN  /\ ecmp'[pair] \in 0 .. total - 1
        /\ total > 1 => ecmp'[pair] # ecmp[pair]

\* Flows of a pair of hosts take its shortest paths in turn.
InstallsRotate == [][\A f \in Flows : NewlyInstalled(f) => Rotated(f)]_vars

-----------------------------------------------------------------------------
(* Liveness.                                                               *)

\* Links that LLDP does cross are eventually in the graph, to stay.
TopologyLearned ==
    <>[](\A l \in Links \ FlakyLinks : <<l.dpid1, l.dpid2>> \in edges)
=============================================================================
