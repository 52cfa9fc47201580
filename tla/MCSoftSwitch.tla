---------------------------- MODULE MCSoftSwitch ----------------------------
(***************************************************************************)
(* Two hosts and two or three ports; a packet that is matched by an exact  *)
(* entry, by one for its destination and by one for its input port.  What  *)
(* the switch is used for is chosen at the start: flow_mods of all kinds,  *)
(* buffers, ports that come and go, each with a controller that may send   *)
(* anything, or the learning switch of pox/forwarding.                     *)
(***************************************************************************)
EXTENDS AnyController

VARIABLES
    at, moves, macToPort, toSwitch,  \* of the learning switch
    use

AtoB == [src |-> "a", dst |-> "b"]
BtoA == [src |-> "b", dst |-> "a"]

Match(p, s, d) == [in_port |-> p, dl_src |-> s, dl_dst |-> d]
Exact    == Match(1, "a", "b")
ToB      == Match(Wild, Wild, "b")
OnPort1  == Match(1, Wild, Wild)
All      == Match(Wild, Wild, Wild)

Output(p)  == [type |-> "output", port |-> p]
Virtual(t) == [type |-> t]

Request(command, match, priority, actions, flags, times) ==
    [command |-> command, match |-> match, priority |-> priority, actions |-> actions,
     flags |-> flags, idle |-> "idle" \in times, hard |-> "hard" \in times,
     out_port |-> None, buffer |-> 0]

Adds(flags, times) ==
    { Request("ADD", m, n, <<Output(2)>>, flags, times) : m \in {Exact, ToB, OnPort1}, n \in {1, 2} }

OtherChanges ==
    { Request("ADD", ToB, 1, <<>>, {"CHECK_OVERLAP"}, {"hard"}),
      Request("ADD", Exact, 1, <<>>, {"EMERG"}, {}),
      Request("MODIFY", ToB, 2, <<Output(1)>>, {"SEND_FLOW_REM"}, {"idle"}),
      Request("MODIFY_STRICT", ToB, 1, <<Output(1)>>, {}, {}),
      Request("DELETE", ToB, 1, <<>>, {}, {}),
      [Request("DELETE", All, 1, <<>>, {}, {}) EXCEPT !.out_port = 2],
      Request("DELETE_STRICT", ToB, 2, <<>>, {}, {}) }

NoPorts  == {}
Port1    == {1}
Ports12  == {1, 2}
Port3    == {3}
NoBits   == {}
SomeBits == {"PORT_DOWN", "NO_PACKET_IN"}
RecvBits == {"NO_RECV", "NO_FLOOD"}

OnePacket   == {AtoB}
BothPackets == {AtoB, BtoA}
NoOuts      == {}

TableMods   == Adds({"SEND_FLOW_REM"}, {"hard"}) \cup OtherChanges

\* One rule, with the packet of a buffer or without.
BufferMods == { Request("ADD", ToB, 1, <<Output(2)>>, {}, {"idle"}) }

Out(actions, packet, p) ==
    [actions |-> actions, packet |-> packet, in_port |-> p, buffer |-> 0]

BufferOuts ==
    { Out(<<Virtual("flood")>>, None, 1), Out(<<>>, None, 1),
      Out(<<Virtual("in_port"), Virtual("controller")>>, None, 1),
      Out(<<[type |-> "set_dst", addr |-> "a"], Virtual("table")>>, BtoA, 1),
      Out(<<Virtual("all")>>, AtoB, 2) }

Pair   == {"a", "b"}
BJoins == [h \in Pair |-> IF h = "b" THEN Ports12 ELSE {}]
AllKinds == BothPackets \cup { [src |-> "a", dst |-> "group"], [src |-> "b", dst |-> "filtered"] }

-----------------------------------------------------------------------------
\* The constants of the configuration are those of "table".
Buffers == INSTANCE AnyController WITH
    MaxBuffers <- 2, FirstPorts <- Ports12, LatePorts <- NoPorts, Addresses <- Pair, Packets <- BothPackets,
    FlowMods <- BufferMods, PacketOuts <- BufferOuts, Bits <- RecvBits, MaxQueue <- 2

PortChanges == INSTANCE AnyController WITH
    MaxBuffers <- 1, FirstPorts <- Port1, LatePorts <- Port3, Addresses <- Pair, Packets <- OnePacket,
    FlowMods <- BufferMods, PacketOuts <- NoOuts, Bits <- SomeBits, MaxQueue <- 3

Learning == INSTANCE L2Learning WITH
    MaxBuffers <- 2, Hosts <- Pair, AllPorts <- Ports12, MovedTo <- BJoins, MaxMoves <- 1,
    Group <- "group", Filtered <- "filtered", Traffic <- AllKinds, MaxInFlight <- 3

anyVars   == <<held, known>>
learnVars == <<at, moves, macToPort, toSwitch>>

NotLearning == at = None /\ moves = None /\ macToPort = None /\ toSwitch = None

InitAny ==
    \/ use = "table"    /\ NotLearning /\ Init
    \/ use = "buffers"  /\ NotLearning /\ Buffers!Init
    \/ use = "ports"    /\ NotLearning /\ PortChanges!Init
    \/ use = "learning" /\ held = {} /\ known = {} /\ Learning!Init

NextAny ==
    /\ \/ use = "table"    /\ Next             /\ UNCHANGED learnVars
       \/ use = "buffers"  /\ Buffers!Next     /\ UNCHANGED learnVars
       \/ use = "ports"    /\ PortChanges!Next /\ UNCHANGED learnVars
       \/ use = "learning" /\ Learning!Next    /\ UNCHANGED anyVars
    /\ UNCHANGED use

SpecAny == InitAny /\ [][NextAny]_<<vars, learnVars, use>>

-----------------------------------------------------------------------------
(* Properties, each in its module, and where it is promised. *)

\* A slot in use holds the one packet that was reported with its id, and the
\* learning switch gives back each that it is told of.
EachBufferReported ==
    /\ use = "table"    => BuffersAccounted
    /\ use = "buffers"  => Buffers!BuffersAccounted
    /\ use = "ports"    => PortChanges!BuffersAccounted
    /\ use = "learning" => Learning!NoBufferLeaks

\* The controller knows the ports there are when no news is on its way.
EveryPortKnown ==
    /\ use = "table" => PortsKnown
    /\ use = "ports" => PortChanges!PortsKnown

\* Whatever the controller asks for, the detailed table does what an OpenFlow
\* table promises: sorted insertion by binary search and the first match give
\* an entry of highest priority.
Promise == INSTANCE OpenFlowTable WITH
    entries <- IF use = "learning" THEN {} ELSE ToSet(table),
    last <- IF use = "learning" THEN None ELSE last,
    Requests <- FlowMods \cup BufferMods,
    Seen <- [in_port : AllPorts \cup {1, 2, 3}, dl_src : Addresses \cup Pair, dl_dst : Addresses \cup Pair]

ImplementsTable == Promise!Spec
=============================================================================
