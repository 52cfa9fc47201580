------------------------------ MODULE Platform ------------------------------
(***************************************************************************)
(* The POX components between the sockets and the controller, run by one   *)
(* cooperative thread: the OpenFlow read loop (openflow/of_01.py), the     *)
(* link discovery (openflow/discovery.py) and the host tracker             *)
(* (host_tracker/host_tracker.py).                                         *)
(*                                                                         *)
(* The thread takes one message at a time.  An event it raises calls its   *)
(* handlers in the order of their priority - discovery, host tracker,      *)
(* controller, then the SwitchController of the session - and a handler    *)
(* may raise further events.  "todo" holds the handler calls of the event  *)
(* being dispatched that have not run yet; the next message is read only   *)
(* when there are none.  Time is not modelled: any link LLDP may miss can  *)
(* expire, and any host that falls silent can be forgotten.                *)
(***************************************************************************)
EXTENDS Controller

CONSTANTS
    FlakyLinks,   \* the links whose LLDP frames may fail to come back
    SilentHosts   \* the hosts that may be silent past the tracker's interval

ASSUME FaultAssumption ==
    /\ FlakyLinks \subseteq Links
    /\ SilentHosts \subseteq Hosts

VARIABLES
    fromSwitch,  \* bytes of each session the read loop has not read yet
    adjacency,   \* Discovery.adjacency
    tracked,     \* host_tracker.entryByMAC: the [sw, port] of a MAC
    todo         \* handler calls left of the event being dispatched

pltVars == <<fromSwitch, adjacency, tracked, todo>>

\* Messages from a switch; "eof" is the end of the stream.
Reports ==
         [type: {"features", "barrier", "eof"}]
    \cup [type: {"lldp"}, link: Links]
    \cup [type: {"packet_in"}, frame: Frames]
    \cup [type: {"flow_removed"}, flow: Flows]

Nowhere == [sw |-> NoCon, port |-> NoPort]   \* a MAC without an entry
Location == [sw: Switches, port: Ports]

\* Handler calls to come: LinkEvents to raise, links to pop from adjacency,
\* the ConnectionDown of a session, the PacketIn of a session.
Nothing == [removed |-> {}, popped |-> {}, down |-> NoCon, packet |-> {}]

Calls == [removed: SUBSET Links, popped: SUBSET Links,
          down: Conns \cup {NoCon}, packet: SUBSET (Conns \X Frames)]

Idle == todo = Nothing

PltTypeOK ==
    /\ fromSwitch \in [Conns -> Seq(Reports)]
    /\ adjacency \subseteq Links
    /\ tracked \in [Hosts -> Location \cup {Nowhere}]
    /\ todo \in Calls

PltInit ==
    /\ fromSwitch = [c \in Conns |-> <<>>]
    /\ adjacency = {}
    /\ tracked = [h \in Hosts |-> Nowhere]
    /\ todo = Nothing

-----------------------------------------------------------------------------
(* The read loop.                                                          *)

\* The thread is between events and session c has a message of type t.
Reading(c, t) ==
    /\ Idle
    /\ conState[c] # "closed"
    /\ fromSwitch[c] # <<>>
    /\ Head(fromSwitch[c]).type = t

Consume(c) == fromSwitch' = [fromSwitch EXCEPT ![c] = Tail(@)]

ReadFeatures(c) ==
    /\ Reading(c, "features")
    /\ Consume(c)
    /\ FeaturesReply(c)
    /\ UNCHANGED <<ctlVars, adjacency, tracked, todo>>

ReadBarrier(c) ==
    /\ Reading(c, "barrier")
    /\ Consume(c)
    /\ FinishConnecting(c)
    /\ HandleConnectionUp(c)
    /\ UNCHANGED <<adjacency, tracked, todo>>

ReadFlowRemoved(c) ==
    /\ Reading(c, "flow_removed")
    /\ Consume(c)
    /\ HandleFlowRemoved(Head(fromSwitch[c]).flow)
    /\ UNCHANGED <<conState, nexus, adjacency, tracked, todo>>

LinksAt(s) == { l \in adjacency : l.dpid1 = s \/ l.dpid2 = s }

\* Connection.close: once the datapath is known, ConnectionDown is raised and
\* discovery, first in line, deletes the links of the switch.
ReadEof(c) ==
    /\ Reading(c, "eof")
    /\ fromSwitch' = [fromSwitch EXCEPT ![c] = <<>>]
    /\ Disconnect(c)
    /\ todo' = IF conState[c] = "new" THEN Nothing
               ELSE [Nothing EXCEPT !.removed = LinksAt(Dpid[c]),
                                    !.popped  = LinksAt(Dpid[c]),
                                    !.down    = c]
    /\ UNCHANGED <<ctlVars, adjacency, tracked>>

-----------------------------------------------------------------------------
(* Discovery.                                                              *)

\* An LLDP frame of a switch with no session, or of a link already known.
LldpIgnored(c) ==
    /\ Reading(c, "lldp")
    /\ LET l == Head(fromSwitch[c]).link
       IN  nexus[l.dpid1] = NoCon \/ l \in adjacency
    /\ Consume(c)
    /\ UNCHANGED <<conVars, ctlVars, adjacency, tracked, todo>>

LinkDetected(c) ==
    /\ Reading(c, "lldp")
    /\ LET l == Head(fromSwitch[c]).link
       IN  /\ nexus[l.dpid1] # NoCon
           /\ l \notin adjacency
           /\ adjacency' = adjacency \cup {l}
           /\ HandleLinkAdded(l)
    /\ Consume(c)
    /\ UNCHANGED <<conVars, tracked, todo>>

\* _expire_links, called by its timer.
ExpireLinks ==
    /\ Idle
    /\ \E expired \in SUBSET (adjacency \cap FlakyLinks) :
         /\ expired # {}
         /\ todo' = [Nothing EXCEPT !.removed = expired, !.popped = expired]
    /\ UNCHANGED <<conVars, ctlVars, fromSwitch, adjacency, tracked>>

\* _delete_links: a LinkEvent for each link in some order ...
RaiseLinkRemoved ==
    \E l \in todo.removed :
      /\ HandleLinkRemoved(l)
      /\ todo' = [todo EXCEPT !.removed = @ \ {l}]
      /\ UNCHANGED <<conState, nexus, fromSwitch, adjacency, tracked>>

\* ... and only then are they gone from adjacency.
PopLinks ==
    /\ todo.removed = {}
    /\ todo.popped # {}
    /\ adjacency' = adjacency \ todo.popped
    /\ todo' = [todo EXCEPT !.popped = {}]
    /\ UNCHANGED <<conVars, ctlVars, fromSwitch, tracked>>

\* The controller's turn in the dispatch of ConnectionDown.
DispatchConnectionDown ==
    /\ todo.removed = {} /\ todo.popped = {}
    /\ todo.down # NoCon
    /\ HandleConnectionDown(todo.down)
    /\ todo' = [todo EXCEPT !.down = NoCon]
    /\ UNCHANGED <<conVars, fromSwitch, adjacency, tracked>>

IsEdgePort(s, p) ==
    \A l \in adjacency : /\ ~ (l.dpid1 = s /\ l.port1 = p)
                         /\ ~ (l.dpid2 = s /\ l.port2 = p)

-----------------------------------------------------------------------------
(* The host tracker, and the session's SwitchController after it.          *)

\* Only a session that finished its handshake has a SwitchController.
CallSwitchController(c) ==
    todo' = IF conState[c] # "connected" THEN Nothing
            ELSE [Nothing EXCEPT !.packet = {<<c, Head(fromSwitch[c]).frame>>}]

\* A PacketIn that tells the tracker nothing new.
ReadPacketIn(c) ==
    /\ Reading(c, "packet_in")
    /\ LET fr == Head(fromSwitch[c]).frame
       IN  \/ ~ IsEdgePort(Dpid[c], fr.port)
           \/ tracked[Sender(fr.pkt)] = [sw |-> Dpid[c], port |-> fr.port]
    /\ Consume(c)
    /\ CallSwitchController(c)
    /\ UNCHANGED <<conVars, ctlVars, adjacency, tracked>>

HostJoins(c) ==
    /\ Reading(c, "packet_in")
    /\ LET fr == Head(fromSwitch[c]).frame
           h  == Sender(fr.pkt)
       IN  /\ IsEdgePort(Dpid[c], fr.port)
           /\ tracked[h] = Nowhere
           /\ tracked' = [tracked EXCEPT ![h] = [sw |-> Dpid[c], port |-> fr.port]]
           /\ HandleHostSeen(h, Dpid[c], fr.port)
    /\ Consume(c)
    /\ CallSwitchController(c)
    /\ UNCHANGED <<conVars, adjacency>>

\* The event carries the old location; the entry's dpid is updated after it,
\* its port never is (the new one is stored under another attribute).
HostMoves(c) ==
    /\ Reading(c, "packet_in")
    /\ LET fr == Head(fromSwitch[c]).frame
           h  == Sender(fr.pkt)
       IN  /\ IsEdgePort(Dpid[c], fr.port)
           /\ tracked[h] \notin {Nowhere, [sw |-> Dpid[c], port |-> fr.port]}
           /\ HandleHostSeen(h, tracked[h].sw, tracked[h].port)
           /\ tracked' = [tracked EXCEPT ![h].sw = Dpid[c]]
    /\ Consume(c)
    /\ CallSwitchController(c)
    /\ UNCHANGED <<conVars, adjacency>>

\* _check_timeouts, for an entry past its interval.
HostExpires(h) ==
    /\ Idle
    /\ h \in SilentHosts
    /\ tracked[h] # Nowhere
    /\ HandleHostLeft(h)
    /\ tracked' = [tracked EXCEPT ![h] = Nowhere]
    /\ UNCHANGED <<conVars, fromSwitch, adjacency, todo>>

DispatchPacketIn ==
    \E call \in todo.packet :
      /\ HandlePacketIn(call[1], call[2])
      /\ todo' = Nothing
      /\ UNCHANGED <<conState, nexus, fromSwitch, adjacency, tracked>>

-----------------------------------------------------------------------------
\* The steps the thread owes: a message to read or a handler to call.
Read(c) ==
    \/ ReadFeatures(c) \/ ReadBarrier(c) \/ ReadFlowRemoved(c) \/ ReadEof(c)
    \/ LldpIgnored(c) \/ LinkDetected(c)
    \/ ReadPacketIn(c) \/ HostJoins(c) \/ HostMoves(c)

Dispatch ==
    RaiseLinkRemoved \/ PopLinks \/ DispatchConnectionDown \/ DispatchPacketIn

\* The steps a timer makes.
Timeout == ExpireLinks \/ \E h \in Hosts : HostExpires(h)
=============================================================================
