---------------------------- MODULE AnyController ----------------------------
(***************************************************************************)
(* A software switch with a controller that may ask for anything, but uses *)
(* the buffer id of a packet_in once at most.                              *)
(*                                                                         *)
(* The controller's end (pox/openflow/of_01.py) keeps the ports of the     *)
(* connection by the port_status messages it gets.                         *)
(***************************************************************************)
EXTENDS SoftSwitch

CONSTANTS
    FirstPorts,  \* ports at the start
    LatePorts,   \* ports that may be added and deleted
    Addresses,   \* Ethernet addresses
    Packets,     \* packets that may arrive
    FlowMods, PacketOuts,
    Bits,        \* configuration bits that may be changed
    MaxQueue     \* bound on the messages that wait

AllPorts   == FirstPorts \cup LatePorts
AllPackets == [src : Addresses, dst : Addresses]
Buffered   == [packet : AllPackets, in_port : Int]
Matches    == [in_port : Int \cup {Wild}, dl_src : Addresses \cup {Wild}, dl_dst : Addresses \cup {Wild}]

Priorities == 0..65535

\* What entries do with a packet, and what packet_outs do.
EntryActions == [type : {"controller", "in_port", "flood", "all"}]
                \cup [type : {"output"}, port : Int] \cup [type : {"set_dst"}, addr : Addresses]
OutActions   == EntryActions \cup [type : {"table"}]

FlowModMessages ==
    [command : {"ADD", "MODIFY", "MODIFY_STRICT", "DELETE", "DELETE_STRICT"},
     match : Matches, priority : Priorities, actions : Seq(EntryActions),
     flags : SUBSET {"SEND_FLOW_REM", "CHECK_OVERLAP", "EMERG"},
     idle : BOOLEAN, hard : BOOLEAN, out_port : Int \cup {None}, buffer : Nat]

PacketOutMessages ==
    [actions : Seq(OutActions), packet : AllPackets \cup {None}, in_port : Int, buffer : Nat]

Entries == [match : { fm.match : fm \in FlowMods }, priority : { fm.priority : fm \in FlowMods },
            actions : { fm.actions : fm \in FlowMods }, flags : { fm.flags : fm \in FlowMods },
            idle : BOOLEAN, hard : BOOLEAN]

ASSUME AnyControllerAssumption ==
    /\ AllPorts \subseteq Int
    /\ Packets \subseteq AllPackets
    /\ FlowMods \subseteq FlowModMessages
    /\ PacketOuts \subseteq PacketOutMessages
    /\ Bits \subseteq ConfigBits
    /\ None \notin AllPackets \cup Buffered \cup Entries

VARIABLES
    held,   \* packet_ins with a buffer id that the controller has not used
    known   \* con.ports: ports, each with whether its link is down

vars == <<switchVars, held, known>>

\* A packet that is looked up, with the port, and messages to the controller.
PacketMatches == [in_port : AllPorts, dl_src : Addresses, dl_dst : Addresses]

PacketIns  == [type : {"packet_in"}, buffer : 0..MaxBuffers, reason : {"ACTION", "NO_MATCH"},
               packet : AllPackets, in_port : Int]
PortStatus == [type : {"port_status"}, port : AllPorts, reason : {"ADD", "DELETE", "MODIFY"}, down : BOOLEAN]
Messages   == PacketIns \cup PortStatus \cup [type : {"flow_removed"}, entry : Entries] \cup {Error}

TypeOK ==
    /\ table \in Seq(Entries)
    /\ packetBuffer \in [1..MaxBuffers -> Buffered \cup {None}]
    /\ DOMAIN ports \subseteq AllPorts
    /\ \A p \in DOMAIN ports : ports[p] \subseteq ConfigBits
    /\ toController \in Seq(Messages)
    /\ emitted \subseteq (DOMAIN ports) \X AllPackets
    /\ last \in [packet : PacketMatches, entry : Entries \cup {None}] \cup {None}
    /\ held \subseteq PacketIns /\ \A m \in held : m.buffer # 0
    /\ known \subseteq AllPorts \X BOOLEAN

Down(p) == "PORT_DOWN" \in ports[p]

Init ==
    /\ table = <<>>
    /\ packetBuffer = [i \in 1..MaxBuffers |-> None]
    /\ ports = [p \in FirstPorts |-> {}]
    /\ toController = <<>>
    /\ emitted = {}
    /\ last = None
    /\ held = {}
    /\ known = { <<p, FALSE>> : p \in FirstPorts }

Answer(b) == held' = { h \in held : h.buffer # b }

Ids == {0} \cup { h.buffer : h \in held }

PacketArrives ==
    /\ \E packet \in Packets, p \in AllPorts : RxPacket(packet, p)
    /\ UNCHANGED <<held, known>>

FlowModArrives ==
    /\ \E fm \in FlowMods, b \in Ids : RxFlowMod([fm EXCEPT !.buffer = b]) /\ Answer(b)
    /\ UNCHANGED known

PacketOutArrives ==
    /\ \E po \in PacketOuts, b \in Ids :
         (po.packet = None \/ b = 0) /\ RxPacketOut([po EXCEPT !.buffer = b]) /\ Answer(b)
    /\ UNCHANGED known

PortModArrives ==
    /\ \E p \in AllPorts, bit \in Bits, on \in BOOLEAN :
         RxPortMod(p, {bit}, IF on THEN {bit} ELSE {})
    /\ UNCHANGED <<held, known>>

PortsChange ==
    /\ \E p \in LatePorts : AddPort(p) \/ DeletePort(p)
    /\ UNCHANGED <<held, known>>

Expiry ==
    /\ \E idle \in SUBSET { e \in ToSet(table) : e.idle }, hard \in SUBSET { e \in ToSet(table) : e.hard } :
         RemoveExpiredEntries(idle, hard)
    /\ UNCHANGED <<held, known>>

\* handle_PORT_STATUS: a port that is deleted is not forgotten, because
\* _forget is given the port and not its number.
HandlePortStatus(m) ==
    known' = IF m.reason = "DELETE" THEN known
             ELSE { x \in known : x[1] # m.port } \cup { <<m.port, m.down>> }

TakeMessage ==
    /\ toController # <<>>
    /\ toController' = Tail(toController)
    /\ emitted' = {}
    /\ LET m == Head(toController)
       IN  /\ held' = IF m.type = "packet_in" /\ m.buffer # 0 THEN held \cup {m} ELSE held
           /\ IF m.type = "port_status" THEN HandlePortStatus(m) ELSE UNCHANGED known
    /\ UNCHANGED <<table, packetBuffer, ports, last>>

Next ==
    \/ /\ Len(toController) < MaxQueue
       /\ \/ PacketArrives \/ FlowModArrives \/ PacketOutArrives
          \/ PortModArrives \/ PortsChange \/ Expiry
    \/ TakeMessage

Spec == Init /\ [][Next]_vars

Reported == held \cup { toController[i] : i \in { j \in DOMAIN toController :
              toController[j].type = "packet_in" /\ toController[j].buffer # 0 } }

\* A slot is in use exactly while the controller has its id to use, and holds
\* the packet that was reported with this id: no packet is sent for another,
\* and no slot is lost.
BuffersAccounted ==
    \A i \in 1..MaxBuffers :
      LET r == { m \in Reported : m.buffer = i }
      IN  IF packetBuffer[i] = None THEN r = {}
          ELSE Cardinality(r) = 1 /\ \A m \in r :
                 m.packet = packetBuffer[i].packet /\ m.in_port = packetBuffer[i].in_port

NoNews == \A i \in DOMAIN toController : toController[i].type # "port_status"

\* When no port_status is on its way, the controller knows every port there
\* is and whether it is down.
PortsKnown == NoNews => \A p \in DOMAIN ports : <<p, Down(p)>> \in known
=============================================================================
