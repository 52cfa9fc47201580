----------------------------- MODULE L2Learning -----------------------------
(***************************************************************************)
(* A learning switch (pox/forwarding/l2_learning.py), which the README     *)
(* starts through samples.spanning_tree, and the software switch that it   *)
(* controls.  Hosts are on ports, several of them on one where a port has  *)
(* a hub, and may move to another port.                                    *)
(***************************************************************************)
EXTENDS SoftSwitch

CONSTANTS
    Hosts,       \* each host is the address of its network card
    AllPorts,
    MovedTo,     \* ports each host may move to, in any order
    MaxMoves,    \* bound on the moves
    Group,       \* a multicast address
    Filtered,    \* a bridge filtered address
    Traffic,     \* packets that hosts send
    MaxInFlight  \* bound on the messages between switch and controller

ASSUME L2Assumption ==
    /\ Traffic \subseteq [src : Hosts, dst : Hosts \cup {Group, Filtered}]
    /\ MovedTo \in [Hosts -> SUBSET AllPorts]

VARIABLES
    at,         \* the port of each host
    moves,      \* how often a host has moved
    macToPort,  \* LearningSwitch.macToPort
    toSwitch    \* messages sent to the switch and not yet received

l2Vars == <<at, moves, macToPort, toSwitch>>
vars   == <<switchVars, l2Vars>>

TypeOK ==
    /\ at \in [Hosts -> AllPorts]
    /\ moves \in 0..MaxMoves
    /\ macToPort \in [Hosts -> AllPorts \cup {None}]
    /\ \A i \in DOMAIN toSwitch :
         toSwitch[i].type \in {"flow_mod", "packet_out"} /\ toSwitch[i].buffer \in 0..MaxBuffers
    /\ \A i \in DOMAIN toController : toController[i].buffer \in 0..MaxBuffers
    /\ \A i \in DOMAIN packetBuffer :
         packetBuffer[i] \in {None} \cup [packet : Traffic, in_port : AllPorts]

\* The switch is connected and the learning switch listens to it.
Init ==
    /\ table = <<>>
    /\ packetBuffer = [i \in 1..MaxBuffers |-> None]
    /\ ports = [p \in AllPorts |-> {}]
    /\ toController = <<>>
    /\ emitted = {}
    /\ last = None
    /\ at \in [Hosts -> AllPorts]
    /\ moves = 0
    /\ macToPort = [h \in Hosts |-> None]
    /\ toSwitch = <<>>

-----------------------------------------------------------------------------
(* _handle_PacketIn *)

OFP_DEFAULT_PRIORITY == 32768

\* drop: without a port; what it matches is dropped on every port.
DropMatch(m) == [in_port |-> Wild, dl_src |-> m.packet.src, dl_dst |-> m.packet.dst]

\* from_packet(packet, event.port)
FlowMatch(m) == [in_port |-> m.in_port, dl_src |-> m.packet.src, dl_dst |-> m.packet.dst]

Rule(match, actions, buffer) ==
    [type |-> "flow_mod", command |-> "ADD", match |-> match, priority |-> OFP_DEFAULT_PRIORITY,
     actions |-> actions, flags |-> {}, idle |-> TRUE, hard |-> TRUE,
     out_port |-> None, buffer |-> buffer]

\* Data that is a packet_in becomes its buffer id, or else the packet itself.
PacketOut(m, actions) ==
    [type |-> "packet_out", actions |-> actions, buffer |-> m.buffer, in_port |-> m.in_port,
     packet |-> IF m.buffer = 0 THEN m.packet ELSE None]

Flood(m) == <<PacketOut(m, <<[type |-> "flood"]>>)>>

Drop(m, duration) ==
    IF duration THEN <<Rule(DropMatch(m), <<>>, m.buffer)>>
    ELSE IF m.buffer = 0 THEN <<>>
    ELSE <<[PacketOut(m, <<>>) EXCEPT !.packet = None]>>

\* Slip: rules without the hard timeout.
InstallForGood(m, port) ==
    <<[Rule(FlowMatch(m), <<[type |-> "output", port |-> port]>>, m.buffer) EXCEPT !.hard = FALSE]>>

\* A packet that is not buffered is sent to the table after the rule.
Install(m, port) ==
    <<Rule(FlowMatch(m), <<[type |-> "output", port |-> port]>>, m.buffer)>>
    \o (IF m.buffer # 0 THEN <<>> ELSE <<PacketOut(m, <<[type |-> "table"]>>)>>)

Learn(m, known) == [known EXCEPT ![m.packet.src] = m.in_port]

HandlePacketIn ==
    /\ toController # <<>>
    /\ LET m     == Head(toController)
           dst   == m.packet.dst
           known == Learn(m, macToPort)
       IN  /\ macToPort' = known
           /\ toSwitch' = toSwitch \o
                CASE dst = Filtered           -> Drop(m, FALSE)
                  [] dst = Group              -> Flood(m)
                  [] dst \in Hosts ->
                       IF known[dst] = None THEN Flood(m)
                       ELSE IF known[dst] = m.in_port THEN Drop(m, TRUE)
                       ELSE Install(m, known[dst])
    /\ toController' = Tail(toController)
    /\ emitted' = {}
    /\ UNCHANGED <<table, packetBuffer, ports, last, at, moves>>

-----------------------------------------------------------------------------
(* The switch and the hosts. *)

SwitchReceives ==
    /\ toSwitch # <<>>
    /\ toSwitch' = Tail(toSwitch)
    /\ IF Head(toSwitch).type = "flow_mod" THEN RxFlowMod(Head(toSwitch))
                                           ELSE RxPacketOut(Head(toSwitch))
    /\ UNCHANGED <<at, moves, macToPort>>

\* Fewer packets are under way than the bound.
HostSends(packet) ==
    /\ Len(toController) + Len(toSwitch) < MaxInFlight
    /\ RxPacket(packet, at[packet.src])
    /\ UNCHANGED l2Vars

HostMoves ==
    /\ moves < MaxMoves
    /\ moves' = moves + 1
    /\ \E h \in Hosts : \E p \in MovedTo[h] \ {at[h]} : at' = [at EXCEPT ![h] = p]
    /\ emitted' = {}
    /\ UNCHANGED <<table, packetBuffer, ports, toController, last, macToPort, toSwitch>>

\* An entry is not used for its idle timeout, or is as old as its hard one.
IdleExpires(e) == RemoveExpiredEntries({e}, {}) /\ UNCHANGED l2Vars
HardExpires(e) == RemoveExpiredEntries({}, {e}) /\ UNCHANGED l2Vars

Next ==
    \/ HandlePacketIn
    \/ SwitchReceives
    \/ \E packet \in Traffic : HostSends(packet)
    \/ HostMoves
    \/ \E i \in DOMAIN table : IdleExpires(table[i])
    \/ \E i \in DOMAIN table : HardExpires(table[i])

Spec == Init /\ [][Next]_vars

Rules == { Entry(Rule(match, actions, 0)) :
             match \in [in_port : AllPorts \cup {Wild}, dl_src : Hosts, dl_dst : Hosts],
             actions \in {<<>>} \cup { <<[type |-> "output", port |-> p]>> : p \in AllPorts } }

\* Messages are handled, hosts go on sending, and an entry with a hard
\* timeout does not stay for ever.  Nothing is said of idle timeouts: an
\* entry may be in use all the time.
FairSpec ==
    /\ Spec
    /\ WF_vars(HandlePacketIn) /\ WF_vars(SwitchReceives)
    /\ \A packet \in Traffic : SF_vars(HostSends(packet))
    /\ \A e \in Rules : WF_vars(e \in ToSet(table) /\ HardExpires(e))

-----------------------------------------------------------------------------
\* Nothing is lost in the buffers: a slot is in use only while a message
\* with its id is under way, to the controller or back, and only one is.
NoBufferLeaks ==
    \A i \in 1..MaxBuffers :
      LET Held(msgs) == { k \in DOMAIN msgs : msgs[k].buffer = i }
      IN  IF packetBuffer[i] = None THEN Held(toController) = {} /\ Held(toSwitch) = {}
          ELSE \/ Held(toSwitch) = {} /\ \E k \in DOMAIN toController : Held(toController) = {k}
               \/ Held(toController) = {} /\ \E k \in DOMAIN toSwitch : Held(toSwitch) = {k}

Delivered(packet) == <<at[packet.dst], packet>> \in emitted

Shared(packet) == at[packet.src] = at[packet.dst]

\* Rules that lead to where a host was are not for ever: once hosts stay
\* where they are and go on sending to each other, what one sends arrives,
\* again and again.
Heals ==
    \A packet \in Traffic :
      packet.dst \in Hosts => []<>(Delivered(packet) \/ Shared(packet))
=============================================================================
