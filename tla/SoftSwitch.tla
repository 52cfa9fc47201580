----------------------------- MODULE SoftSwitch -----------------------------
(***************************************************************************)
(* The software switch (pox/datapaths/switch.py): a flow table, buffers    *)
(* for packets that the controller has been asked about, and ports with    *)
(* their configuration.  Handlers run one at a time in POX's scheduler.    *)
(*                                                                         *)
(* A packet has a source and a destination.  Entries do not output to the  *)
(* table, which would look them up again for ever.                         *)
(***************************************************************************)
EXTENDS FlowTable

CONSTANTS
    MaxBuffers,  \* max_buffers
    Stp          \* _STP_MAC

ASSUME SoftSwitchAssumption == MaxBuffers \in Nat

ConfigBits == {"PORT_DOWN", "NO_RECV", "NO_RECV_STP", "NO_FLOOD", "NO_FWD", "NO_PACKET_IN"}

VARIABLES
    table,         \* the entries, by descending effective priority
    packetBuffer,  \* _packet_buffer: packet and input port by buffer id
    ports,         \* configuration of each port there is
    toController,  \* messages sent and not yet received
    emitted,       \* packets that the last step sent out of ports
    last           \* the last packet looked up, and the entry it hit

switchVars == <<table, packetBuffer, ports, toController, emitted, last>>

-----------------------------------------------------------------------------
(* Processing of one packet: the packet as rewritten so far, the slots     *)
(* that hold this same object, and what has been sent.                     *)

Start(packet, inPort, tab) ==
    [packet |-> packet, in_port |-> inPort, table |-> tab, buffers |-> packetBuffer,
     slots |-> {}, out |-> {}, told |-> <<>>, last |-> last]

\* Slip: with no slot left the last one is taken.
FreeSlotTaken(buffers) ==
    LET free == { i \in 1..MaxBuffers : buffers[i] = None }
    IN  IF free = {} THEN MaxBuffers ELSE Min(free)

\* _buffer_packet: the first empty slot, or 0 for none.
FreeSlot(buffers) ==
    LET free == { i \in 1..MaxBuffers : buffers[i] = None }
    IN  IF free = {} THEN 0 ELSE Min(free)

\* send_packet_in, with the packet buffered if possible.
AskController(st, reason) ==
    LET i == FreeSlot(st.buffers)
    IN  [st EXCEPT !.slots = @ \cup {i},
                   !.buffers = [j \in 1..MaxBuffers |->
                       IF j = i THEN [packet |-> st.packet, in_port |-> st.in_port] ELSE @[j]],
                   !.told = Append(@, [type |-> "packet_in", buffer |-> i, reason |-> reason,
                                       packet |-> st.packet, in_port |-> st.in_port])]

CanSend(p) == p \in DOMAIN ports /\ ports[p] \cap {"NO_FWD", "PORT_DOWN"} = {}

\* _output_packet, for ports that are not virtual and for those that stand
\* for several ports.
Targets(a, inPort) ==
    CASE a.type = "output"  -> {a.port} \ {inPort}
      [] a.type = "in_port" -> {inPort}
      [] a.type = "flood"   -> { p \in DOMAIN ports \ {inPort} : "NO_FLOOD" \notin ports[p] }
      [] a.type = "all"     -> DOMAIN ports \ {inPort}

\* The packet is rewritten in place, in the slots that hold it too.
Rewrite(st, addr) ==
    [st EXCEPT !.packet.dst = addr,
               !.buffers = [i \in 1..MaxBuffers |->
                   IF i \in st.slots THEN [packet |-> [@[i].packet EXCEPT !.dst = addr],
                                           in_port |-> @[i].in_port]
                   ELSE @[i]]]

Do(st, a) ==
    CASE a.type = "controller" -> AskController(st, "ACTION")
      [] a.type = "set_dst"    -> Rewrite(st, a.addr)
      [] a.type \in {"output", "in_port", "flood", "all"} ->
           [st EXCEPT !.out = @ \cup { <<p, st.packet>> : p \in { q \in Targets(a, st.in_port) : CanSend(q) } }]

PacketMatch(st) == [in_port |-> st.in_port, dl_src |-> st.packet.src, dl_dst |-> st.packet.dst]

Receives(p, packet) ==
    /\ p \in DOMAIN ports
    /\ (IF packet.dst = Stp THEN "NO_RECV_STP" ELSE "NO_RECV") \notin ports[p]

\* rx_packet
Lookup(st) ==
    LET e   == EntryFor(st.table, PacketMatch(st))
        hit == [st EXCEPT !.last = [packet |-> PacketMatch(st), entry |-> e]]
    IN  IF ~ Receives(st.in_port, st.packet) THEN st
        ELSE IF e # None THEN FoldLeft(Do, hit, e.actions)
        ELSE IF "NO_PACKET_IN" \in ports[st.in_port] THEN hit
        ELSE AskController(hit, "NO_MATCH")

DoAny(st, a) == IF a.type = "table" THEN Lookup(st) ELSE Do(st, a)

Process(actions, st) == FoldLeft(DoAny, st, actions)

\* _process_actions_for_packet_from_buffer: the slot is released afterwards.
ProcessBuffered(actions, i, tab) ==
    IF i = 0 \/ packetBuffer[i] = None
    THEN Start(None, None, tab)
    ELSE [Process(actions, Start(packetBuffer[i].packet, packetBuffer[i].in_port, tab))
             EXCEPT !.buffers[i] = None]

\* What has been said before the packet is processed comes first.
Commit(st, said) ==
    /\ packetBuffer' = st.buffers
    /\ emitted' = st.out
    /\ last' = st.last
    /\ toController' = toController \o said \o st.told

Say(said) == /\ toController' = toController \o said
             /\ emitted' = {}
             /\ UNCHANGED <<packetBuffer, last>>

-----------------------------------------------------------------------------
(* The handlers. *)

RxPacket(packet, p) ==
    /\ Receives(p, packet)
    /\ Commit(Lookup(Start(packet, p, table)), <<>>)
    /\ UNCHANGED <<table, ports>>

FlowsRemoved(removed) == [i \in DOMAIN removed |-> [type |-> "flow_removed", entry |-> removed[i]]]

Error == [type |-> "error"]

\* _rx_flow_mod: the buffered packet is processed even after an error.
RxFlowMod(fm) ==
    LET r == FlowMod(table, fm)
    IN  /\ table' = r.table
        /\ Commit(ProcessBuffered(fm.actions, fm.buffer, r.table),
                  FlowsRemoved(r.removed) \o (IF r.error THEN <<Error>> ELSE <<>>))
        /\ UNCHANGED ports

\* _rx_packet_out: data comes before a buffer id.
RxPacketOut(po) ==
    /\ IF po.packet # None
       THEN Commit(Process(po.actions, Start(po.packet, po.in_port, table)), <<>>)
       ELSE Commit(ProcessBuffered(po.actions, po.buffer, table), <<>>)
    /\ UNCHANGED <<table, ports>>

\* Slip: the controller hears of ports that go down, not of those that return.
RxPortModDown(p, mask, config) ==
    LET new == (ports[p] \ mask) \cup (config \cap mask)
    IN  /\ IF p \notin DOMAIN ports THEN Say(<<Error>>) /\ UNCHANGED ports
           ELSE /\ ports' = [ports EXCEPT ![p] = new]
                /\ Say(IF "PORT_DOWN" \notin new \ ports[p] THEN <<>>
                       ELSE <<[type |-> "port_status", port |-> p, reason |-> "MODIFY", down |-> TRUE]>>)
        /\ UNCHANGED table

\* The bits of mask take their value from config.
RxPortMod(p, mask, config) ==
    LET new == (ports[p] \ mask) \cup (config \cap mask)
    IN  /\ IF p \notin DOMAIN ports THEN Say(<<Error>>) /\ UNCHANGED ports
           ELSE /\ ports' = [ports EXCEPT ![p] = new]
                /\ Say(IF ("PORT_DOWN" \in new) = ("PORT_DOWN" \in ports[p]) THEN <<>>
                       ELSE <<[type |-> "port_status", port |-> p, reason |-> "MODIFY", down |-> "PORT_DOWN" \in new]>>)
        /\ UNCHANGED table

AddPort(p) ==
    /\ p \notin DOMAIN ports
    /\ ports' = [q \in DOMAIN ports \cup {p} |-> IF q = p THEN {} ELSE ports[q]]
    /\ Say(<<[type |-> "port_status", port |-> p, reason |-> "ADD", down |-> FALSE]>>)
    /\ UNCHANGED table

DeletePort(p) ==
    /\ p \in DOMAIN ports
    /\ ports' = [q \in DOMAIN ports \ {p} |-> ports[q]]
    /\ Say(<<[type |-> "port_status", port |-> p, reason |-> "DELETE", down |-> FALSE]>>)
    /\ UNCHANGED table

\* The timer of ExpireMixin.
RemoveExpiredEntries(idle, hard) ==
    LET r == RemoveExpired(table, idle, hard)
    IN  /\ idle \cup hard # {}
        /\ \A e \in idle : e.idle
        /\ \A e \in hard : e.hard
        /\ table' = r.table
        /\ Say(FlowsRemoved(r.removed))
        /\ UNCHANGED ports
=============================================================================
