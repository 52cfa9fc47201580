--------------------------- MODULE DeploymentProofs ---------------------------
(***************************************************************************)
(* Types, sessions, and the controller's views of hosts, links and flows,  *)
(* in a deployment of any size and, but for what the theorems say, with    *)
(* any faults.                                                             *)
(*                                                                         *)
(* Types: what each handler of the controller does to the controller's     *)
(* own state, whoever calls it, then every step of the system.  Sessions:  *)
(* the nexus holds live sessions only, and a handshake leaves its switch   *)
(* without rules.                                                          *)
(*                                                                         *)
(* The graph, the table of ports and the tracker name the same hosts,      *)
(* whatever fails: the controller learns of a host only from the tracker's *)
(* events, and its two records of one are written and erased together.     *)
(*                                                                         *)
(* The graph is what discovery holds where no two cables join the same     *)
(* switches and no session is lost: links may expire and come back and     *)
(* hosts may be forgotten.  These views agree between events only, so the  *)
(* invariant says how they differ within one: a link whose removal was     *)
(* told is out of the graph and still in adjacency.  It also needs to know *)
(* that LLDP never names a switch before its ConnectionUp, or the edge     *)
(* would have no port, and that ConnectionUp comes once, or the ports      *)
(* would be forgotten.                                                     *)
(*                                                                         *)
(* Rules of forgotten flows are gone when nothing is under way.            *)
(*                                                                         *)
(* The paths found in the graph are its shortest ones, and one that is     *)
(* installed is another than the last one of its pair of hosts.            *)
(***************************************************************************)
EXTENDS Properties, TLAPS, FiniteSetTheorems, SequenceTheorems

-----------------------------------------------------------------------------
(* The messages the controller sends.                                      *)

\* Every message the controller builds is an OpenFlow message it may send.
LEMMA MessagesTyped ==
    /\ \A f \in Flows, p \in Ports : AddRule(f, p) \in Messages
    /\ \A p \in Ports : DeleteByPort(p) \in Messages
    /\ \A f \in Flows : DeleteByFlow(f) \in Messages
    /\ \A fr \in Frames : PacketOut(fr) \in Messages
    /\ ClearRules \in Messages /\ BarrierRequest \in Messages
BY DEF AddRule, DeleteByPort, DeleteByFlow, PacketOut, ClearRules, BarrierRequest, Messages

\* One message on one session is a well-typed output.
LEMMA OnlyToTyped ==
    ASSUME NEW c \in Conns, NEW m \in Messages
    PROVE  OnlyTo(c, m) \in [Conns -> Seq(Messages)]
<1>1. <<>> \in Seq(Messages) /\ <<m>> \in Seq(Messages)
  OBVIOUS
<1>2. QED BY <1>1 DEF OnlyTo, Silence

\* The two messages of the handshake are one, too.
LEMMA HandshakeTyped ==
    ASSUME NEW c \in Conns
    PROVE  [Silence EXCEPT ![c] = <<ClearRules, BarrierRequest>>] \in [Conns -> Seq(Messages)]
<1>1. <<>> \in Seq(Messages) /\ <<ClearRules, BarrierRequest>> \in Seq(Messages)
  BY MessagesTyped
<1>2. QED BY <1>1 DEF Silence

\* Connection.send keeps the sockets well typed.
LEMMA SendTyped ==
    ASSUME toSwitch \in [Conns -> Seq(Messages)],
           NEW out \in [Conns -> Seq(Messages)], Send(out)
    PROVE  toSwitch' \in [Conns -> Seq(Messages)]
BY DEF Send

-----------------------------------------------------------------------------
(* The handlers of switch, link and host events.                           *)

LEMMA ConnectionUpTyped ==
    ASSUME CtlTypeOK, NEW c \in Conns, HandleConnectionUp(c)
    PROVE  CtlTypeOK'
BY SwitchAssumption
   DEF CtlTypeOK, HandleConnectionUp, NoNeighbours, GraphNodes

LEMMA ConnectionDownTyped ==
    ASSUME CtlTypeOK, NEW c \in Conns, HandleConnectionDown(c)
    PROVE  CtlTypeOK'
BY DEF CtlTypeOK, HandleConnectionDown, EdgesWithout

LEMMA FlowRemovedTyped ==
    ASSUME CtlTypeOK, toSwitch \in [Conns -> Seq(Messages)],
           NEW f \in Flows, HandleFlowRemoved(f)
    PROVE  CtlTypeOK' /\ toSwitch' \in [Conns -> Seq(Messages)]
<1>1. CtlTypeOK'
  BY FlowAssumption DEF CtlTypeOK, HandleFlowRemoved
<1> DEFINE out == [c \in Conns |-> IF \E s \in Switches : switches[s] = c
                                   THEN <<DeleteByFlow(f)>> ELSE <<>>]
<1>2. out \in [Conns -> Seq(Messages)]
  BY MessagesTyped
<1>3. Send(out)
  BY DEF HandleFlowRemoved
<1>4. QED BY <1>1, <1>2, <1>3, SendTyped

LEMMA LinkAddedTyped ==
    ASSUME CtlTypeOK, NEW l \in Links, HandleLinkAdded(l)
    PROVE  CtlTypeOK'
<1>1. l.dpid1 \in Switches /\ l.dpid2 \in Switches /\ l.port1 \in Ports
  BY LinkAssumption
<1>2. neighbour' \in [Conns -> [Switches -> Ports \cup {NoPort}]]
  BY <1>1 DEF CtlTypeOK, HandleLinkAdded
<1>3. QED BY <1>1, <1>2 DEF CtlTypeOK, HandleLinkAdded, GraphNodes

LEMMA LinkRemovedTyped ==
    ASSUME CtlTypeOK, toSwitch \in [Conns -> Seq(Messages)],
           NEW l \in Links, HandleLinkRemoved(l)
    PROVE  CtlTypeOK' /\ toSwitch' \in [Conns -> Seq(Messages)]
<1> DEFINE e == <<l.dpid1, l.dpid2>>
           c == IF e \in edges THEN switches[l.dpid1] ELSE NoCon
           p == IF c = NoCon THEN NoPort ELSE neighbour[c][l.dpid2]
<1>1. l.dpid1 \in Switches /\ l.dpid2 \in Switches
  BY LinkAssumption
<1>2. c \in Conns \cup {NoCon} /\ p \in Ports \cup {NoPort} /\ (c = NoCon => p = NoPort)
  BY <1>1 DEF CtlTypeOK
<1>3. neighbour' \in [Conns -> [Switches -> Ports \cup {NoPort}]]
  <2>1. CASE p = NoPort
    BY <2>1 DEF CtlTypeOK, HandleLinkRemoved
  <2>2. CASE p # NoPort
    <3>1. c \in Conns
      BY <1>2, <2>2
    <3>2. neighbour' = [neighbour EXCEPT ![c][l.dpid2] = NoPort]
      BY <2>2 DEF HandleLinkRemoved
    <3> HIDE DEF c
    <3>3. QED BY <1>1, <3>1, <3>2 DEF CtlTypeOK
  <2>3. QED BY <2>1, <2>2
<1>4. CtlTypeOK'
  BY <1>3 DEF CtlTypeOK, HandleLinkRemoved
<1>5. CASE p = NoPort
  BY <1>4, <1>5 DEF HandleLinkRemoved
<1>6. CASE p # NoPort
  <2>1. OnlyTo(c, DeleteByPort(p)) \in [Conns -> Seq(Messages)]
    BY <1>2, <1>6, OnlyToTyped, MessagesTyped
  <2>2. Send(OnlyTo(c, DeleteByPort(p)))
    BY <1>6 DEF HandleLinkRemoved
  <2>3. QED BY <1>4, <2>1, <2>2, SendTyped
<1>7. QED BY <1>5, <1>6

LEMMA HostSeenTyped ==
    ASSUME CtlTypeOK, NEW h \in Hosts, NEW s \in Switches, NEW p \in Ports,
           HandleHostSeen(h, s, p)
    PROVE  CtlTypeOK'
<1>1. nodes' \subseteq GraphNodes /\ edges' \subseteq GraphNodes \X GraphNodes
  BY DEF CtlTypeOK, HandleHostSeen, GraphNodes
<1>2. QED BY <1>1 DEF CtlTypeOK, HandleHostSeen

LEMMA HostLeftTyped ==
    ASSUME CtlTypeOK, NEW h \in Hosts, HandleHostLeft(h)
    PROVE  CtlTypeOK'
BY DEF CtlTypeOK, HandleHostLeft, EdgesWithout

-----------------------------------------------------------------------------
(* Equal-cost paths and the rules of a path.                               *)

\* The index chosen for a pair of hosts always points into a non-empty list of
\* paths, however many paths there were when the last index was chosen.
THEOREM IndexInRange ==
    ASSUME NEW last \in Nat \cup {NoIndex}, NEW total \in Nat \ {0}
    PROVE  NextIndex(last, total) \in 0 .. total - 1
BY DEF NextIndex, NoIndex

\* With two paths or more the index moves: two successive installations
\* between the same hosts never pick the same index.
THEOREM IndexRotates ==
    ASSUME NEW last \in Nat \cup {NoIndex}, NEW total \in Nat, total > 1
    PROVE  NextIndex(last, total) # last
BY DEF NextIndex, NoIndex

\* A hop with a SwitchController sends to a port, or raises (NoPort).
LEMMA OutPortTyped ==
    ASSUME CtlTypeOK, NEW f \in Flows, NEW path, NEW i \in Hops(path)
    PROVE  OutPort(f, path, i) \in Ports \cup {NoPort}
<1>1. switches[path[i]] \in Conns
  BY DEF CtlTypeOK, Hops
<1>2. hosts[DstHw[f]] \in Ports \cup {NoPort}
  BY FlowAssumption DEF CtlTypeOK
<1>3. ASSUME NEW next \in Switches
      PROVE  neighbour[switches[path[i]]][next] \in Ports \cup {NoPort}
  BY <1>1 DEF CtlTypeOK
<1>4. QED BY <1>2, <1>3 DEF OutPort

\* validate_and_install sends one well-formed rule at most on each session.
LEMMA RulesTyped ==
    ASSUME CtlTypeOK, NEW f \in Flows, NEW path
    PROVE  RulesOf(f, path) \in [Conns -> Seq(Messages)]
<1> DEFINE Hop(c) == CHOOSE i \in Updated(f, path) : switches[path[i]] = c
<1>1. ASSUME NEW c \in Conns, \E i \in Updated(f, path) : switches[path[i]] = c
      PROVE  <<AddRule(f, OutPort(f, path, Hop(c)))>> \in Seq(Messages)
  <2>1. Hop(c) \in Updated(f, path)
    BY <1>1
  <2>2. Hop(c) \in Hops(path) /\ OutPort(f, path, Hop(c)) # NoPort
    <3>1. Hop(c) \in Hops(path)
      BY <2>1 DEF Updated
    <3>2. Hop(c) \in Nat
      BY <3>1 DEF Hops
    <3>3. QED BY <2>1, <3>1, <3>2 DEF Updated
  <2>3. OutPort(f, path, Hop(c)) \in Ports
    BY <2>2, OutPortTyped
  <2>4. QED BY <2>3, MessagesTyped
<1>2. QED BY <1>1 DEF RulesOf

LEMMA PacketInTyped ==
    ASSUME CtlTypeOK, toSwitch \in [Conns -> Seq(Messages)],
           NEW c \in Conns, NEW fr \in Frames, HandlePacketIn(c, fr)
    PROVE  CtlTypeOK' /\ toSwitch' \in [Conns -> Seq(Messages)]
<1>1. PacketOut(fr) \in Messages
  BY MessagesTyped
<1>2. CASE IgnorePacket(fr)
  BY <1>2 DEF IgnorePacket, UntouchedByPacketIn, CtlTypeOK
<1>3. CASE ForwardInstalled(c, fr)
  <2>1. CtlTypeOK'
    BY <1>3 DEF ForwardInstalled, UntouchedByPacketIn, CtlTypeOK
  <2>2. Send(OnlyTo(c, PacketOut(fr)))
    BY <1>3 DEF ForwardInstalled
  <2>3. QED BY <1>1, <2>1, <2>2, OnlyToTyped, SendTyped
<1>4. CASE NoPathFound(fr)
  BY <1>4, FlowAssumption DEF NoPathFound, UntouchedByPacketIn, CtlTypeOK
<1>5. CASE InstallPath(c, fr)
  <2> DEFINE f     == fr.pkt
             paths == PathsOf(f)
             index == ChosenIndex(f, paths)
             path  == paths[index + 1]
             rules == RulesOf(f, path)
             ok    == Updated(f, path) = Hops(path)
             out   == IF ok THEN [rules EXCEPT ![c] = Append(@, PacketOut(fr))]
                      ELSE rules
  <2>1. f \in Flows
    BY <1>5 DEF InstallPath
  <2>2. index \in Nat
    <3>1. ecmp[<<SrcHw[f], DstHw[f]>>] \in Nat \cup {NoIndex}
      BY <2>1, FlowAssumption DEF CtlTypeOK
    <3>2. QED BY <3>1 DEF ChosenIndex, NextIndex
  <2>3. ecmp' \in [Hosts \X Hosts -> Nat \cup {NoIndex}]
    <3>1. ecmp' = [ecmp EXCEPT ![<<SrcHw[f], DstHw[f]>>] = index]
      BY <1>5 DEF InstallPath
    <3> HIDE DEF index
    <3>2. QED BY <2>1, <2>2, <3>1, FlowAssumption DEF CtlTypeOK
  <2>4. flows' \in [FlowIds -> {"absent", "pending", "installed"}]
    <3>1. flows' = [flows EXCEPT ![FlowId[f]] = IF ok THEN "installed" ELSE "pending"]
      BY <1>5 DEF InstallPath
    <3> HIDE DEF ok
    <3>2. QED BY <2>1, <3>1, FlowAssumption DEF CtlTypeOK
  <2>5. CtlTypeOK'
    BY <1>5, <2>3, <2>4 DEF InstallPath, UntouchedByPacketIn, CtlTypeOK
  <2>6. rules \in [Conns -> Seq(Messages)]
    BY <2>1, RulesTyped
  <2>7. Send(out)
    BY <1>5 DEF InstallPath
  <2>8. out \in [Conns -> Seq(Messages)]
    <3> HIDE DEF rules, ok
    <3>1. QED BY <1>1, <2>6
  <2>9. QED BY <2>5, <2>7, <2>8, SendTyped
<1>6. QED BY <1>2, <1>3, <1>4, <1>5 DEF HandlePacketIn

-----------------------------------------------------------------------------
(* Messages and queues.                                                    *)

LEMMA FunctionIsSeq ==
    ASSUME NEW S, NEW n \in Nat, NEW q \in [1 .. n -> S]
    PROVE  q \in Seq(S)
BY SeqDef

LEMMA QueueTyped ==
    ASSUME NEW S, NEW q \in Seq(S), q # <<>>
    PROVE  Head(q) \in S /\ Tail(q) \in Seq(S)
OBVIOUS

\* What a message from a switch carries.
LEMMA ReportContents ==
    ASSUME NEW m \in Reports
    PROVE  /\ m.type = "lldp" => m.link \in Links
           /\ m.type = "packet_in" => m.frame \in Frames
           /\ m.type = "flow_removed" => m.flow \in Flows
BY DEF Reports

\* What a message to a switch carries.
LEMMA MessageContents ==
    ASSUME NEW m \in Messages
    PROVE  /\ m.type = "add" => m.flow \in Flows /\ m.port \in Ports
           /\ m.type = "del_flow" => m.flow \in Flows
           /\ m.type = "packet_out" => m.frame \in Frames
BY DEF Messages

\* The message being read, and the queue without it.
LEMMA ReadingTyped ==
    ASSUME PltTypeOK, NEW c \in Conns, NEW t, Reading(c, t)
    PROVE  /\ Head(fromSwitch[c]) \in Reports
           /\ Head(fromSwitch[c]).type = t
           /\ Tail(fromSwitch[c]) \in Seq(Reports)
BY QueueTyped DEF PltTypeOK, Reading

LEMMA ConsumeTyped ==
    ASSUME PltTypeOK, NEW c \in Conns, NEW t, Reading(c, t), Consume(c)
    PROVE  fromSwitch' \in [Conns -> Seq(Reports)]
BY ReadingTyped DEF PltTypeOK, Consume

LEMMA ReportTyped ==
    ASSUME PltTypeOK, NEW s, NEW q \in Seq(Reports), Report(s, q)
    PROVE  fromSwitch' \in [Conns -> Seq(Reports)]
<1> DEFINE d == session[s]
<1>1. CASE d \in Conns
  <2>1. fromSwitch[d] \o q \in Seq(Reports)
    BY <1>1 DEF PltTypeOK
  <2>2. fromSwitch' = [fromSwitch EXCEPT ![d] = fromSwitch[d] \o q]
    BY <1>1 DEF PltTypeOK, Report
  <2>3. QED BY <1>1, <2>1, <2>2 DEF PltTypeOK
<1>2. CASE d \notin Conns
  BY <1>2 DEF PltTypeOK, Report
<1>3. QED BY <1>1, <1>2

LEMMA SenderTyped ==
    ASSUME NEW pkt \in Payloads
    PROVE  Sender(pkt) \in Hosts
BY FlowAssumption DEF Payloads, Sender

-----------------------------------------------------------------------------
(* The read loop keeps the state well typed.                               *)

LEMMA ReadFeaturesTyped ==
    ASSUME TypeOK, NEW c \in Conns, ReadFeatures(c), UNCHANGED depVars
    PROVE  TypeOK'
<1> USE DEF TypeOK
<1>1. fromSwitch' \in [Conns -> Seq(Reports)]
  BY ConsumeTyped DEF ReadFeatures
<1>2. toSwitch' \in [Conns -> Seq(Messages)]
  <2>1. Send([Silence EXCEPT ![c] = <<ClearRules, BarrierRequest>>])
    BY DEF ReadFeatures, FeaturesReply
  <2>2. QED BY <2>1, HandshakeTyped, SendTyped DEF ReadFeatures, FeaturesReply, ConnTypeOK
<1>3. ConnTypeOK'
  BY <1>2, SwitchAssumption DEF ReadFeatures, FeaturesReply, ConnTypeOK
<1>4. QED BY <1>1, <1>3 DEF ReadFeatures, CtlTypeOK, PltTypeOK, DepTypeOK, ctlVars, depVars

LEMMA ReadBarrierTyped ==
    ASSUME TypeOK, NEW c \in Conns, ReadBarrier(c), UNCHANGED depVars
    PROVE  TypeOK'
<1> USE DEF TypeOK
<1>1. fromSwitch' \in [Conns -> Seq(Reports)]
  BY ConsumeTyped DEF ReadBarrier
<1>2. CtlTypeOK'
  BY ConnectionUpTyped DEF ReadBarrier
<1>3. ConnTypeOK'
  BY DEF ReadBarrier, FinishConnecting, ConnTypeOK
<1>4. QED BY <1>1, <1>2, <1>3 DEF ReadBarrier, PltTypeOK, DepTypeOK, depVars

LEMMA ReadFlowRemovedTyped ==
    ASSUME TypeOK, NEW c \in Conns, ReadFlowRemoved(c), UNCHANGED depVars
    PROVE  TypeOK'
<1> USE DEF TypeOK
<1>1. fromSwitch' \in [Conns -> Seq(Reports)]
  BY ConsumeTyped DEF ReadFlowRemoved
<1>2. Head(fromSwitch[c]).flow \in Flows
  BY ReadingTyped, ReportContents DEF ReadFlowRemoved
<1>3. CtlTypeOK' /\ toSwitch' \in [Conns -> Seq(Messages)]
  BY <1>2, FlowRemovedTyped DEF ReadFlowRemoved, ConnTypeOK
<1>4. QED BY <1>1, <1>3 DEF ReadFlowRemoved, ConnTypeOK, PltTypeOK, DepTypeOK, depVars

LEMMA ReadEofTyped ==
    ASSUME TypeOK, NEW c \in Conns, ReadEof(c), UNCHANGED depVars
    PROVE  TypeOK'
<1> USE DEF TypeOK
<1>1. <<>> \in Seq(Messages) /\ <<>> \in Seq(Reports) /\ Dpid[c] \in Switches
  BY SwitchAssumption
<1>2. ConnTypeOK'
  <2>1. nexus' \in [Switches -> Conns \cup {NoCon}]
    BY <1>1 DEF ReadEof, Disconnect, ConnTypeOK
  <2>2. QED BY <1>1, <2>1 DEF ReadEof, Disconnect, ConnTypeOK
<1>3. PltTypeOK'
  <2>1. LinksAt(Dpid[c]) \in SUBSET Links
    BY DEF LinksAt, PltTypeOK
  <2>2. fromSwitch' \in [Conns -> Seq(Reports)]
    BY <1>1 DEF ReadEof, PltTypeOK
  <2>3. todo' \in Calls
    BY <2>1 DEF ReadEof, Nothing, Calls
  <2>4. QED BY <2>2, <2>3 DEF ReadEof, PltTypeOK
<1>4. QED BY <1>2, <1>3 DEF ReadEof, CtlTypeOK, DepTypeOK, ctlVars, depVars

LEMMA LldpTyped ==
    ASSUME TypeOK, NEW c \in Conns, LldpIgnored(c) \/ LinkDetected(c), UNCHANGED depVars
    PROVE  TypeOK'
<1> USE DEF TypeOK
<1>1. fromSwitch' \in [Conns -> Seq(Reports)]
  BY ConsumeTyped DEF LldpIgnored, LinkDetected
<1>2. CASE LldpIgnored(c)
  BY <1>1, <1>2
     DEF LldpIgnored, ConnTypeOK, CtlTypeOK, PltTypeOK, DepTypeOK, conVars, ctlVars, depVars
<1>3. CASE LinkDetected(c)
  <2>1. Head(fromSwitch[c]).link \in Links
    BY <1>3, ReadingTyped, ReportContents DEF LinkDetected
  <2>2. CtlTypeOK'
    BY <1>3, <2>1, LinkAddedTyped DEF LinkDetected
  <2>3. QED
    BY <1>1, <1>3, <2>1, <2>2
       DEF LinkDetected, ConnTypeOK, PltTypeOK, DepTypeOK, conVars, depVars
<1>4. QED BY <1>2, <1>3

LEMMA CallTyped ==
    ASSUME TypeOK, NEW c \in Conns, Reading(c, "packet_in"), CallSwitchController(c)
    PROVE  todo' \in Calls
<1>1. Head(fromSwitch[c]).frame \in Frames
  BY ReadingTyped, ReportContents DEF TypeOK
<1>2. QED BY <1>1 DEF CallSwitchController, Nothing, Calls

LEMMA ReadPacketInTyped ==
    ASSUME TypeOK, NEW c \in Conns, ReadPacketIn(c), UNCHANGED depVars
    PROVE  TypeOK'
<1> USE DEF TypeOK
<1>1. fromSwitch' \in [Conns -> Seq(Reports)]
  BY ConsumeTyped DEF ReadPacketIn
<1>2. todo' \in Calls
  BY CallTyped DEF ReadPacketIn
<1>3. QED
  BY <1>1, <1>2
     DEF ReadPacketIn, ConnTypeOK, CtlTypeOK, PltTypeOK, DepTypeOK, conVars, ctlVars, depVars

LEMMA HostSeenStepTyped ==
    ASSUME TypeOK, NEW c \in Conns, HostJoins(c) \/ HostMoves(c), UNCHANGED depVars
    PROVE  TypeOK'
<1> USE DEF TypeOK
<1> DEFINE fr == Head(fromSwitch[c]).frame
           h  == Sender(fr.pkt)
<1>1. fromSwitch' \in [Conns -> Seq(Reports)]
  BY ConsumeTyped DEF HostJoins, HostMoves
<1>2. todo' \in Calls
  BY CallTyped DEF HostJoins, HostMoves
<1>3. fr \in Frames /\ h \in Hosts
  <2>1. fr \in Frames
    BY ReadingTyped, ReportContents DEF HostJoins, HostMoves
  <2>2. QED BY <2>1, SenderTyped DEF Frames
<1>4. Dpid[c] \in Switches /\ fr.port \in Ports
  BY <1>3, SwitchAssumption DEF Frames
<1>5. CASE HostJoins(c)
  <2>1. CtlTypeOK'
    BY <1>3, <1>4, <1>5, HostSeenTyped DEF HostJoins
  <2>2. tracked' \in [Hosts -> Location \cup {Nowhere}]
    BY <1>3, <1>4, <1>5 DEF HostJoins, PltTypeOK, Location
  <2>3. QED
    BY <1>1, <1>2, <1>5, <2>1, <2>2
       DEF HostJoins, ConnTypeOK, PltTypeOK, DepTypeOK, conVars, depVars
<1>6. CASE HostMoves(c)
  <2>1. tracked[h] \in Location
    BY <1>3, <1>6 DEF HostMoves, PltTypeOK
  <2>2. CtlTypeOK'
    BY <1>3, <1>6, <2>1, HostSeenTyped DEF HostMoves, Location
  <2>3. tracked' \in [Hosts -> Location \cup {Nowhere}]
    <3>1. tracked' = [tracked EXCEPT ![h] = [tracked[h] EXCEPT !.sw = Dpid[c]]]
      BY <1>3, <1>6 DEF HostMoves, PltTypeOK
    <3>2. [tracked[h] EXCEPT !.sw = Dpid[c]] \in Location
      BY <1>4, <2>1 DEF Location
    <3>3. QED BY <1>3, <3>1, <3>2 DEF PltTypeOK
  <2>4. QED
    BY <1>1, <1>2, <1>6, <2>2, <2>3
       DEF HostMoves, ConnTypeOK, PltTypeOK, DepTypeOK, conVars, depVars
<1>7. QED BY <1>5, <1>6
-----------------------------------------------------------------------------
(* Handler calls and timers.                                               *)

LEMMA DispatchTyped ==
    ASSUME TypeOK, Dispatch, UNCHANGED depVars
    PROVE  TypeOK'
<1> USE DEF TypeOK
<1>1. CASE RaiseLinkRemoved
  <2>1. PICK l \in todo.removed :
          /\ HandleLinkRemoved(l)
          /\ todo' = [todo EXCEPT !.removed = @ \ {l}]
          /\ UNCHANGED <<conState, nexus, fromSwitch, adjacency, tracked>>
    BY <1>1 DEF RaiseLinkRemoved
  <2>2. l \in Links
    BY DEF PltTypeOK, Calls
  <2>3. CtlTypeOK' /\ toSwitch' \in [Conns -> Seq(Messages)]
    BY <2>1, <2>2, LinkRemovedTyped DEF ConnTypeOK
  <2>4. todo' \in Calls
    BY <2>1 DEF PltTypeOK, Calls
  <2>5. QED BY <2>1, <2>3, <2>4 DEF ConnTypeOK, PltTypeOK, DepTypeOK, depVars
<1>2. CASE PopLinks
  <2>1. todo' \in Calls
    BY <1>2 DEF PopLinks, PltTypeOK, Calls
  <2>2. QED
    BY <1>2, <2>1
       DEF PopLinks, ConnTypeOK, CtlTypeOK, PltTypeOK, DepTypeOK, conVars, ctlVars, depVars
<1>3. CASE DispatchConnectionDown
  <2>1. todo' \in Calls /\ todo.down \in Conns
    BY <1>3 DEF DispatchConnectionDown, PltTypeOK, Calls
  <2>2. CtlTypeOK'
    BY <1>3, <2>1, ConnectionDownTyped DEF DispatchConnectionDown
  <2>3. QED
    BY <1>3, <2>1, <2>2
       DEF DispatchConnectionDown, ConnTypeOK, PltTypeOK, DepTypeOK, conVars, depVars
<1>4. CASE DispatchPacketIn
  <2>1. PICK call \in todo.packet :
          /\ HandlePacketIn(call[1], call[2])
          /\ todo' = Nothing
          /\ UNCHANGED <<conState, nexus, fromSwitch, adjacency, tracked>>
    BY <1>4 DEF DispatchPacketIn
  <2>2. call[1] \in Conns /\ call[2] \in Frames
    BY DEF PltTypeOK, Calls
  <2>3. CtlTypeOK' /\ toSwitch' \in [Conns -> Seq(Messages)]
    BY <2>1, <2>2, PacketInTyped DEF ConnTypeOK
  <2>4. todo' \in Calls
    BY <2>1 DEF Nothing, Calls
  <2>5. QED BY <2>1, <2>3, <2>4 DEF ConnTypeOK, PltTypeOK, DepTypeOK, depVars
<1>5. QED BY <1>1, <1>2, <1>3, <1>4 DEF Dispatch

LEMMA TimerTyped ==
    ASSUME TypeOK, Timer
    PROVE  TypeOK'
<1> USE DEF TypeOK
<1>1. CASE ExpireLinks
  <2>1. todo' \in Calls
    BY <1>1 DEF ExpireLinks, PltTypeOK, Nothing, Calls
  <2>2. QED
    BY <1>1, <2>1
       DEF Timer, ExpireLinks, ConnTypeOK, CtlTypeOK, PltTypeOK, DepTypeOK,
           conVars, ctlVars, depVars
<1>2. ASSUME NEW h \in Hosts, HostExpires(h)
      PROVE  TypeOK'
  <2>1. CtlTypeOK'
    BY <1>2, HostLeftTyped DEF HostExpires
  <2>2. QED
    BY <1>2, <2>1
       DEF Timer, HostExpires, ConnTypeOK, PltTypeOK, DepTypeOK, conVars, depVars
<1>3. QED BY <1>1, <1>2 DEF Timer, Timeout

-----------------------------------------------------------------------------
(* The switches and the environment.                                       *)

\* A switch that reads a message leaves the rest of its session.
LEMMA ReceivesTyped ==
    ASSUME TypeOK, NEW c \in Conns, NEW t, Receives(c, t)
    PROVE  /\ Head(toSwitch[c]) \in Messages
           /\ Head(toSwitch[c]).type = t
           /\ toSwitch' \in [Conns -> Seq(Messages)]
<1>1. toSwitch[c] \in Seq(Messages) /\ toSwitch[c] # <<>>
  BY DEF TypeOK, ConnTypeOK, Receives
<1>2. QED BY <1>1, QueueTyped DEF TypeOK, ConnTypeOK, Receives

\* The reports of deleted rules are messages, and the table stays one.
LEMMA DeleteRulesTyped ==
    ASSUME TypeOK, NEW s \in Switches, NEW fs \in SUBSET Flows, DeleteRules(s, fs)
    PROVE  /\ table' \in [Switches -> [Flows -> Ports \cup {NoPort}]]
           /\ fromSwitch' \in [Conns -> Seq(Reports)]
<1> DEFINE gone == { f \in fs : table[s][f] # NoPort }
<1>1. table' \in [Switches -> [Flows -> Ports \cup {NoPort}]]
  BY DEF TypeOK, DepTypeOK, DeleteRules
<1>2. IsFiniteSet(gone)
  BY FS_Subset, FlowAssumption
<1>3. PICK order \in SetToSeqs(gone) :
        Report(s, [i \in DOMAIN order |->
                     [type |-> "flow_removed", flow |-> order[i]]])
  BY DEF DeleteRules
<1> DEFINE q == [i \in DOMAIN order |-> [type |-> "flow_removed", flow |-> order[i]]]
<1>4. Cardinality(gone) \in Nat /\ order \in [1 .. Cardinality(gone) -> gone]
  BY <1>2, FS_CardinalityType DEF SetToSeqs
<1>5. q \in Seq(Reports)
  <2>1. \A i \in DOMAIN order : q[i] \in Reports
    BY <1>4 DEF Reports
  <2>2. q \in [1 .. Cardinality(gone) -> Reports]
    BY <1>4, <2>1
  <2> HIDE DEF q
  <2>3. QED BY <1>4, <2>2, FunctionIsSeq
<1>6. QED BY <1>1, <1>3, <1>5, ReportTyped DEF TypeOK
LEMMA SwitchReceivesTyped ==
    ASSUME TypeOK, NEW c \in Conns, SwitchReceives(c)
    PROVE  TypeOK'
<1> USE DEF TypeOK
<1> DEFINE m == Head(toSwitch[c])
<1>1. Dpid[c] \in Switches
  BY SwitchAssumption
<1>2. ASSUME NEW t, Receives(c, t),
             table' \in [Switches -> [Flows -> Ports \cup {NoPort}]],
             fromSwitch' \in [Conns -> Seq(Reports)],
             frames' \subseteq Frames
      PROVE  TypeOK'
  BY <1>2, ReceivesTyped
     DEF Receives, ConnTypeOK, CtlTypeOK, PltTypeOK, DepTypeOK, ctlVars
<1>3. CASE SwitchClears(c)
  BY <1>1, <1>2, <1>3, DeleteRulesTyped DEF SwitchClears, DepTypeOK
<1>4. CASE SwitchAddsRule(c)
  <2>1. m.flow \in Flows /\ m.port \in Ports
    BY <1>4, ReceivesTyped, MessageContents DEF SwitchAddsRule
  <2>2. table' \in [Switches -> [Flows -> Ports \cup {NoPort}]]
    BY <1>1, <1>4, <2>1 DEF SwitchAddsRule, DepTypeOK
  <2>3. QED BY <1>2, <1>4, <2>2 DEF SwitchAddsRule, PltTypeOK, DepTypeOK
<1>5. CASE SwitchDeletesByPort(c)
  <2>1. DeleteRules(Dpid[c], { f \in Flows : table[Dpid[c]][f] = m.port })
    BY <1>5 DEF SwitchDeletesByPort
  <2>2. { f \in Flows : table[Dpid[c]][f] = m.port } \in SUBSET Flows
    OBVIOUS
  <2>3. QED BY <1>1, <1>2, <1>5, <2>1, <2>2, DeleteRulesTyped
            DEF SwitchDeletesByPort, DepTypeOK
<1>6. CASE SwitchDeletesByFlow(c)
  <2>1. {m.flow} \in SUBSET Flows
    BY <1>6, ReceivesTyped, MessageContents DEF SwitchDeletesByFlow
  <2>2. QED BY <1>1, <1>2, <1>6, <2>1, DeleteRulesTyped
            DEF SwitchDeletesByFlow, DepTypeOK
<1>7. CASE SwitchResubmits(c)
  <2>1. m.frame \in Frames
    BY <1>7, ReceivesTyped, MessageContents DEF SwitchResubmits
  <2>2. QED BY <1>2, <1>7, <2>1 DEF SwitchResubmits, PltTypeOK, DepTypeOK
<1>8. CASE SwitchAnswersBarrier(c)
  <2>1. <<[type |-> "barrier"]>> \in Seq(Reports)
    BY DEF Reports
  <2>2. fromSwitch' \in [Conns -> Seq(Reports)]
    BY <1>8, <2>1, ReportTyped DEF SwitchAnswersBarrier
  <2>3. QED BY <1>2, <1>8, <2>2 DEF SwitchAnswersBarrier, DepTypeOK
<1>9. QED BY <1>3, <1>4, <1>5, <1>6, <1>7, <1>8 DEF SwitchReceives

LEMMA DataPlaneTyped ==
    ASSUME TypeOK, NEW fr \in frames, SwitchForwards(fr) \/ SwitchMisses(fr)
    PROVE  TypeOK'
<1> USE DEF TypeOK
<1>1. fr \in Frames
  BY DEF DepTypeOK
<1>2. CASE SwitchForwards(fr)
  <2> DEFINE p    == RuleFor(fr)
             next == { [pkt |-> fr.pkt, sw |-> l.dpid2, port |-> l.port2] :
                         l \in { k \in Links : k.dpid1 = fr.sw /\ k.port1 = p } }
  <2>1. next \subseteq Frames
    BY <1>1, LinkAssumption DEF Frames
  <2>2. frames' \subseteq frames \cup next
    BY <1>2 DEF SwitchForwards
  <2>3. frames' \subseteq Frames
    BY <2>1, <2>2 DEF DepTypeOK
  <2>4. QED
    BY <1>2, <2>3
       DEF SwitchForwards, ConnTypeOK, CtlTypeOK, PltTypeOK, DepTypeOK,
           conVars, ctlVars, pltVars
<1>3. CASE SwitchMisses(fr)
  <2>1. <<[type |-> "packet_in", frame |-> fr]>> \in Seq(Reports)
    BY <1>1 DEF Reports
  <2>2. fromSwitch' \in [Conns -> Seq(Reports)]
    BY <1>3, <2>1, ReportTyped DEF SwitchMisses, PltTypeOK
  <2>3. QED
    BY <1>3, <2>2
       DEF SwitchMisses, ConnTypeOK, CtlTypeOK, PltTypeOK, DepTypeOK, conVars, ctlVars
<1>4. QED BY <1>2, <1>3

LEMMA WrittenInVainTyped ==
    ASSUME TypeOK, NEW c \in Conns, WrittenInVain(c)
    PROVE  TypeOK'
<1>1. <<>> \in Seq(Messages)
  OBVIOUS
<1>2. QED
  BY <1>1
     DEF TypeOK, WrittenInVain, ConnTypeOK, CtlTypeOK, PltTypeOK, DepTypeOK,
         ctlVars, pltVars, depVars

LEMMA SwitchConnectsTyped ==
    ASSUME TypeOK, NEW c \in Conns, SwitchConnects(c)
    PROVE  TypeOK'
<1>1. <<[type |-> "features"]>> \in Seq(Reports) /\ Dpid[c] \in Switches
  BY SwitchAssumption DEF Reports
<1>2. fromSwitch' \in [Conns -> Seq(Reports)]
  BY <1>1 DEF TypeOK, PltTypeOK, SwitchConnects
<1>3. QED
  BY <1>1, <1>2
     DEF TypeOK, SwitchConnects, ConnTypeOK, CtlTypeOK, PltTypeOK, DepTypeOK,
         conVars, ctlVars

LEMMA SwitchDisconnectsTyped ==
    ASSUME TypeOK, NEW s \in Switches, SwitchDisconnects(s)
    PROVE  TypeOK'
<1> USE DEF TypeOK
<1> DEFINE c == session[s]
<1>1. c \in Conns
  BY DEF DepTypeOK, SwitchDisconnects
<1>2. toSwitch' \in [Conns -> Seq(Messages)]
  <2>1. <<>> \in Seq(Messages)
    OBVIOUS
  <2>2. QED BY <1>1, <2>1 DEF ConnTypeOK, SwitchDisconnects
<1>3. fromSwitch' \in [Conns -> Seq(Reports)]
  <2>1. PICK q \in {fromSwitch[c], <<>>} :
          fromSwitch' = [fromSwitch EXCEPT ![c] = Append(q, [type |-> "eof"])]
    BY DEF SwitchDisconnects
  <2>2. q \in Seq(Reports) /\ [type |-> "eof"] \in Reports
    <3>1. fromSwitch[c] \in Seq(Reports) /\ <<>> \in Seq(Reports)
      BY <1>1 DEF PltTypeOK
    <3>2. [type |-> "eof"] \in Reports
      BY DEF Reports
    <3>3. QED BY <3>1, <3>2
  <2>3. Append(q, [type |-> "eof"]) \in Seq(Reports)
    BY <2>2
  <2>4. QED BY <1>1, <2>1, <2>3 DEF PltTypeOK
<1>4. table' \in [Switches -> [Flows -> Ports \cup {NoPort}]]
  BY DEF DepTypeOK, SwitchDisconnects, NoRules
<1>5. QED
  BY <1>2, <1>3, <1>4
     DEF SwitchDisconnects, ConnTypeOK, CtlTypeOK, PltTypeOK, DepTypeOK, ctlVars

LEMMA LldpArrivesTyped ==
    ASSUME TypeOK, NEW l \in Links, LldpArrives(l)
    PROVE  TypeOK'
<1>1. <<[type |-> "lldp", link |-> l]>> \in Seq(Reports)
  BY DEF Reports
<1>2. fromSwitch' \in [Conns -> Seq(Reports)]
  BY <1>1, ReportTyped DEF TypeOK, LldpArrives
<1>3. QED
  BY <1>2
     DEF TypeOK, LldpArrives, ConnTypeOK, CtlTypeOK, PltTypeOK, DepTypeOK,
         conVars, ctlVars, depVars

LEMMA HostSendsTyped ==
    ASSUME TypeOK, NEW h \in Hosts, NEW pkt \in Payloads, HostSends(h, pkt)
    PROVE  TypeOK'
<1>1. [pkt |-> pkt, sw |-> Attach[h].sw, port |-> Attach[h].port] \in Frames
  BY HostAssumption DEF Frames
<1>2. QED
  BY <1>1
     DEF TypeOK, HostSends, ConnTypeOK, CtlTypeOK, PltTypeOK, DepTypeOK,
         conVars, ctlVars, pltVars

-----------------------------------------------------------------------------
(* Type correctness.                                                       *)

\* The initial state is well typed.
LEMMA InitTyped == Init => TypeOK
<1> SUFFICES ASSUME Init PROVE TypeOK
  OBVIOUS
<1>1. <<>> \in Seq(Messages) /\ <<>> \in Seq(Reports)
  OBVIOUS
<1>2. ConnTypeOK
  BY <1>1 DEF Init, ConnInit, ConnTypeOK
<1>3. CtlTypeOK
  BY DEF Init, CtlInit, CtlTypeOK, NoNeighbours
<1>4. PltTypeOK
  BY <1>1 DEF Init, PltInit, PltTypeOK, Nothing, Calls
<1>5. DepTypeOK
  BY DEF Init, DepTypeOK, NoRules
<1>6. QED BY <1>2, <1>3, <1>4, <1>5 DEF TypeOK

\* Every step keeps the state well typed.
LEMMA StepTyped == TypeOK /\ [Next]_vars => TypeOK'
<1> SUFFICES ASSUME TypeOK, [Next]_vars PROVE TypeOK'
  OBVIOUS
<1>1. CASE Thread
  <2>1. CASE Dispatch
    BY <1>1, <2>1, DispatchTyped DEF Thread
  <2>2. ASSUME NEW c \in Conns, Read(c)
        PROVE  TypeOK'
    BY <1>1, <2>2, ReadFeaturesTyped, ReadBarrierTyped, ReadFlowRemovedTyped,
       ReadEofTyped, LldpTyped, ReadPacketInTyped, HostSeenStepTyped
       DEF Thread, Read
  <2>3. QED BY <1>1, <2>1, <2>2 DEF Thread
<1>2. CASE Timer
  BY <1>2, TimerTyped
<1>3. CASE Switch
  BY <1>3, SwitchReceivesTyped, WrittenInVainTyped, DataPlaneTyped DEF Switch
<1>4. CASE Environment
  BY <1>4, SwitchConnectsTyped, SwitchDisconnectsTyped, LldpArrivesTyped, HostSendsTyped
     DEF Environment
<1>5. CASE UNCHANGED vars
  BY <1>5
     DEF TypeOK, ConnTypeOK, CtlTypeOK, PltTypeOK, DepTypeOK,
         vars, conVars, ctlVars, pltVars, depVars
<1>6. QED BY <1>1, <1>2, <1>3, <1>4, <1>5 DEF Next

\* In every reachable state the controller, the platform, the sessions and the
\* tables hold what their types say: a host is filed at a port, never at a
\* switch, and every rule and message names a port that exists.
THEOREM TypeCorrect == Spec => []TypeOK
<1>1. QED BY InitTyped, StepTyped, PTL DEF Spec

-----------------------------------------------------------------------------
(* The nexus.                                                              *)

\* A session in the nexus is filed under its own switch and is not closed:
\* what Disconnect needs to erase the right entry.
NexusLive ==
    \A s \in Switches :
      nexus[s] # NoCon => /\ Dpid[nexus[s]] = s
                          /\ conState[nexus[s]] \in {"connecting", "connected"}

\* Only three messages move a session along.
LEMMA SessionsUntouched ==
    ASSUME [Next]_vars,
           \A c \in Conns : ~ ReadFeatures(c) /\ ~ ReadBarrier(c) /\ ~ ReadEof(c)
    PROVE  UNCHANGED <<conState, nexus>>
<1>1. CASE Thread
  <2>1. CASE Dispatch
    BY <2>1 DEF Dispatch, RaiseLinkRemoved, PopLinks, DispatchConnectionDown,
                DispatchPacketIn, conVars
  <2>2. ASSUME NEW c \in Conns, Read(c)
        PROVE  UNCHANGED <<conState, nexus>>
    BY <2>2 DEF Read, ReadFlowRemoved, LldpIgnored, LinkDetected, ReadPacketIn,
                HostJoins, HostMoves, conVars
  <2>3. QED BY <1>1, <2>1, <2>2 DEF Thread
<1>2. CASE Timer
  BY <1>2 DEF Timer, Timeout, ExpireLinks, HostExpires, conVars
<1>3. CASE Switch
  BY <1>3 DEF Switch, SwitchReceives, SwitchClears, SwitchAnswersBarrier, SwitchAddsRule, SwitchDeletesByPort,
              SwitchDeletesByFlow, SwitchResubmits, Receives, WrittenInVain,
              SwitchForwards, SwitchMisses, conVars
<1>4. CASE Environment
  BY <1>4 DEF Environment, SwitchConnects, SwitchDisconnects, LldpArrives, HostSends, conVars
<1>5. CASE UNCHANGED vars
  BY <1>5 DEF vars, conVars
<1>6. QED BY <1>1, <1>2, <1>3, <1>4, <1>5 DEF Next

LEMMA StepKeepsNexus == TypeOK /\ NexusLive /\ [Next]_vars => NexusLive'
<1> SUFFICES ASSUME TypeOK, NexusLive, [Next]_vars PROVE NexusLive'
  OBVIOUS
<1> USE DEF TypeOK, ConnTypeOK
<1>1. ASSUME NEW c \in Conns, ReadFeatures(c)
      PROVE  NexusLive'
  <2>1. Dpid[c] \in Switches /\ conState[c] = "new"
    BY <1>1, SwitchAssumption DEF ReadFeatures, FeaturesReply
  <2>2. /\ nexus' = [nexus EXCEPT ![Dpid[c]] = c]
        /\ conState' = [conState EXCEPT ![c] = "connecting"]
    BY <1>1 DEF ReadFeatures, FeaturesReply
  <2>3. QED BY <2>1, <2>2 DEF NexusLive
<1>2. ASSUME NEW c \in Conns, ReadBarrier(c)
      PROVE  NexusLive'
  <2>1. nexus' = nexus /\ conState' = [conState EXCEPT ![c] = "connected"]
    BY <1>2 DEF ReadBarrier, FinishConnecting
  <2>2. QED BY <2>1 DEF NexusLive
<1>3. ASSUME NEW c \in Conns, ReadEof(c)
      PROVE  NexusLive'
  <2>1. Dpid[c] \in Switches
    BY SwitchAssumption
  <2>2. /\ conState' = [conState EXCEPT ![c] = "closed"]
        /\ nexus' = IF conState[c] = "new" THEN nexus
                    ELSE [nexus EXCEPT ![Dpid[c]] = NoCon]
    BY <1>3 DEF ReadEof, Disconnect
  <2>3. ASSUME NEW s \in Switches, nexus'[s] # NoCon
        PROVE  nexus'[s] = nexus[s] /\ nexus[s] # c
    BY <2>1, <2>2, <2>3 DEF NexusLive
  <2>4. QED BY <2>2, <2>3 DEF NexusLive
<1>4. CASE \A c \in Conns : ~ ReadFeatures(c) /\ ~ ReadBarrier(c) /\ ~ ReadEof(c)
  BY <1>4, SessionsUntouched DEF NexusLive
<1>5. QED BY <1>1, <1>2, <1>3, <1>4

\* The nexus never hands out a closed session: whatever the order in which
\* sessions of a switch begin and end, what sendToDPID and the LLDP sender
\* find under a datapath id can still be written to.
THEOREM NexusHoldsLive == Spec => []NexusHoldsLiveSession
<1>1. Init => NexusLive
  BY DEF Init, ConnInit, NexusLive
<1>2. NexusLive => NexusHoldsLiveSession
  BY DEF NexusLive, NexusHoldsLiveSession
<1>3. QED BY <1>1, <1>2, StepKeepsNexus, TypeCorrect, PTL DEF Spec

-----------------------------------------------------------------------------
(* The handshake.                                                          *)

\* The steps of a Connection's life after its handshake.
Settled == {"connected", "closed"}

\* A session that was never opened is untouched; an open one is its switch's.
SessionsOwned ==
    /\ \A c \in unused : conState[c] = "new" /\ fromSwitch[c] = <<>>
    /\ \A s \in Switches :
         session[s] # NoCon => session[s] \notin unused /\ Dpid[session[s]] = s

\* The controller holds only sessions whose handshake is over.
HandlesSettled ==
    /\ \A s \in Switches : switches[s] # NoCon => conState[switches[s]] \in Settled
    /\ \A call \in todo.packet : conState[call[1]] \in Settled

\* Until then nothing but the handshake is written to a session.
HandshakeAlone ==
    \A c \in Conns :
      /\ conState[c] = "new" => toSwitch[c] = <<>>
      /\ conState[c] = "connecting" =>
           toSwitch[c] \in {<<>>, <<BarrierRequest>>, <<ClearRules, BarrierRequest>>}

\* A switch that has read the DELETE of the handshake has no rules.
RulesGone ==
    \A c \in Conns :
      Online(c) /\ conState[c] = "connecting" /\ toSwitch[c] \in {<<>>, <<BarrierRequest>>}
        => table[Dpid[c]] = NoRules

HandshakeInv ==
    SessionsOwned /\ HandlesSettled /\ HandshakeAlone /\ RulesGone

\* A write that spares the sessions in handshake keeps what is said of them.
LEMMA HandshakesSpared ==
    ASSUME HandshakeAlone, RulesGone,
           UNCHANGED <<conState, session, table>>,
           \A d \in Conns : conState[d] \notin Settled => toSwitch'[d] = toSwitch[d]
    PROVE  HandshakeAlone' /\ RulesGone'
BY DEF HandshakeAlone, RulesGone, Settled, Online

LEMMA SendSpares ==
    ASSUME TypeOK, NEW out \in [Conns -> Seq(Messages)], Send(out),
           NEW d \in Conns, out[d] = <<>>
    PROVE  toSwitch'[d] = toSwitch[d]
<1>1. toSwitch[d] \in Seq(Messages)
  BY DEF TypeOK, ConnTypeOK
<1>2. toSwitch[d] \o <<>> = toSwitch[d]
  BY <1>1, ConcatEmptySeq
<1>3. QED BY <1>2 DEF Send

\* What is written to one session spares the others.
LEMMA OnlyToSpares ==
    ASSUME TypeOK, NEW c \in Conns, NEW m \in Messages, Send(OnlyTo(c, m)),
           NEW d \in Conns, d # c
    PROVE  toSwitch'[d] = toSwitch[d]
<1>1. OnlyTo(c, m)[d] = <<>>
  BY DEF OnlyTo, Silence
<1>2. QED BY <1>1, OnlyToTyped, SendSpares
\* No handler of the controller writes to a session in handshake.
LEMMA FlowRemovedSpares ==
    ASSUME TypeOK, HandlesSettled, NEW f \in Flows, HandleFlowRemoved(f),
           NEW d \in Conns, conState[d] \notin Settled
    PROVE  toSwitch'[d] = toSwitch[d]
<1> DEFINE out == [c \in Conns |-> IF \E s \in Switches : switches[s] = c
                                   THEN <<DeleteByFlow(f)>> ELSE <<>>]
<1>1. out \in [Conns -> Seq(Messages)]
  BY MessagesTyped
<1>2. Send(out)
  BY DEF HandleFlowRemoved
<1>3. out[d] = <<>>
  BY SwitchAssumption DEF HandlesSettled
<1>4. QED
  <2> HIDE DEF out
  <2>1. QED BY <1>1, <1>2, <1>3, SendSpares

LEMMA LinkRemovedSpares ==
    ASSUME TypeOK, HandlesSettled, NEW l \in Links, HandleLinkRemoved(l),
           NEW d \in Conns, conState[d] \notin Settled
    PROVE  toSwitch'[d] = toSwitch[d]
<1> DEFINE e == <<l.dpid1, l.dpid2>>
           c == IF e \in edges THEN switches[l.dpid1] ELSE NoCon
           p == IF c = NoCon THEN NoPort ELSE neighbour[c][l.dpid2]
<1>1. CASE p = NoPort
  BY <1>1 DEF HandleLinkRemoved
<1>2. CASE p # NoPort
  <2>1. l.dpid1 \in Switches /\ l.dpid2 \in Switches
    BY LinkAssumption
  <2>2. c = switches[l.dpid1] /\ c \in Conns /\ p \in Ports
    BY <1>2, <2>1 DEF TypeOK, CtlTypeOK
  <2>3. c # d
    BY <2>1, <2>2, SwitchAssumption DEF HandlesSettled
  <2>4. Send(OnlyTo(c, DeleteByPort(p)))
    BY <1>2 DEF HandleLinkRemoved
  <2>5. DeleteByPort(p) \in Messages
    BY <2>2, MessagesTyped
  <2> HIDE DEF c, p
  <2>6. QED BY <2>2, <2>3, <2>4, <2>5, OnlyToSpares
<1>3. QED BY <1>1, <1>2

LEMMA PacketInSpares ==
    ASSUME TypeOK, HandlesSettled, NEW c \in Conns, NEW fr \in Frames,
           HandlePacketIn(c, fr), conState[c] \in Settled,
           NEW d \in Conns, conState[d] \notin Settled
    PROVE  toSwitch'[d] = toSwitch[d]
<1>1. CASE IgnorePacket(fr) \/ NoPathFound(fr)
  BY <1>1 DEF IgnorePacket, NoPathFound
<1>2. CASE ForwardInstalled(c, fr)
  BY <1>2, MessagesTyped, OnlyToSpares DEF ForwardInstalled
<1>3. CASE InstallPath(c, fr)
  <2> DEFINE f     == fr.pkt
             paths == PathsOf(f)
             index == ChosenIndex(f, paths)
             path  == paths[index + 1]
             rules == RulesOf(f, path)
             ok    == Updated(f, path) = Hops(path)
             out   == IF ok THEN [rules EXCEPT ![c] = Append(@, PacketOut(fr))]
                      ELSE rules
  <2>1. rules \in [Conns -> Seq(Messages)]
    BY <1>3, RulesTyped DEF InstallPath, TypeOK
  <2>2. rules[d] = <<>>
    <3>1. ~ \E i \in Updated(f, path) : switches[path[i]] = d
      BY SwitchAssumption DEF Updated, Hops, HandlesSettled
    <3> HIDE DEF path, f
    <3>2. QED BY <3>1 DEF RulesOf
  <2>3. Send(out)
    BY <1>3 DEF InstallPath
  <2>4. out \in [Conns -> Seq(Messages)] /\ out[d] = <<>>
    <3> HIDE DEF rules, ok
    <3>1. QED BY <2>1, <2>2, MessagesTyped
  <2> HIDE DEF out
  <2>5. QED BY <2>3, <2>4, SendSpares
<1>4. QED BY <1>1, <1>2, <1>3 DEF HandlePacketIn

-----------------------------------------------------------------------------
(* The steps.                                                              *)

\* The session being read has been opened.
LEMMA ReadingOwned ==
    ASSUME SessionsOwned, NEW c \in Conns, NEW t, Reading(c, t)
    PROVE  c \notin unused
BY DEF SessionsOwned, Reading

\* Steps that concern one open session only.
LEMMA OwnershipKept ==
    ASSUME SessionsOwned, TypeOK, UNCHANGED <<session, unused>>,
           NEW c, c \notin unused,
           \A d \in Conns : d # c => fromSwitch'[d] = fromSwitch[d] /\ conState'[d] = conState[d]
    PROVE  SessionsOwned'
BY DEF SessionsOwned, TypeOK, DepTypeOK

LEMMA ReportKeepsOwnership ==
    ASSUME SessionsOwned, TypeOK, UNCHANGED <<session, unused, conState>>,
           NEW s \in Switches, NEW q, Report(s, q)
    PROVE  SessionsOwned'
<1>1. session[s] \notin unused
  BY SwitchAssumption DEF SessionsOwned, TypeOK, DepTypeOK
<1>2. \A d \in Conns : d # session[s] => fromSwitch'[d] = fromSwitch[d]
  BY DEF Report, TypeOK, PltTypeOK
<1>3. QED BY <1>1, <1>2, OwnershipKept

\* The handshake begins: the DELETE of every rule and the barrier request are
\* all the session carries.
LEMMA ReadFeaturesKeepsHandshake ==
    ASSUME TypeOK, HandshakeInv, NEW c \in Conns, ReadFeatures(c), UNCHANGED depVars
    PROVE  HandshakeInv'
<1> USE DEF HandshakeInv
<1> DEFINE Handshake == [Silence EXCEPT ![c] = <<ClearRules, BarrierRequest>>]
<1>1. /\ conState[c] = "new" /\ conState' = [conState EXCEPT ![c] = "connecting"]
      /\ Send(Handshake)
      /\ UNCHANGED <<switches, todo, session, unused, table>>
  BY DEF ReadFeatures, FeaturesReply, ctlVars, depVars
<1>2. toSwitch'[c] = <<ClearRules, BarrierRequest>>
  <2>1. toSwitch[c] = <<>>
    BY <1>1 DEF HandshakeAlone
  <2>2. Handshake[c] = <<ClearRules, BarrierRequest>>
    BY DEF Silence
  <2>3. toSwitch'[c] = <<>> \o <<ClearRules, BarrierRequest>>
    BY <1>1, <2>1, <2>2 DEF Send
  <2>4. <<>> \o <<ClearRules, BarrierRequest>> = <<ClearRules, BarrierRequest>>
    BY MessagesTyped, ConcatEmptySeq
  <2>5. QED BY <2>3, <2>4
<1>3. ASSUME NEW d \in Conns, d # c
      PROVE  toSwitch'[d] = toSwitch[d] /\ conState'[d] = conState[d]
  <2>1. Handshake[d] = <<>> /\ Handshake \in [Conns -> Seq(Messages)]
    BY <1>3, HandshakeTyped DEF Silence
  <2> HIDE DEF Handshake
  <2>2. toSwitch'[d] = toSwitch[d]
    BY <1>1, <2>1, SendSpares
  <2>3. QED BY <1>1, <1>3, <2>2 DEF TypeOK, ConnTypeOK
<1>4. conState'[c] = "connecting"
  BY <1>1 DEF TypeOK, ConnTypeOK
<1>5. SessionsOwned'
  <2>1. c \notin unused
    BY ReadingOwned DEF ReadFeatures
  <2>2. \A d \in Conns : d # c => fromSwitch'[d] = fromSwitch[d]
    BY DEF ReadFeatures, Consume, TypeOK, PltTypeOK
  <2>3. QED BY <1>1, <1>3, <2>1, <2>2, OwnershipKept
<1>6. HandlesSettled'
  BY <1>1, <1>3, SwitchAssumption
     DEF HandlesSettled, Settled, TypeOK, CtlTypeOK, PltTypeOK, Calls
<1>7. HandshakeAlone'
  BY <1>2, <1>3, <1>4 DEF HandshakeAlone
<1>8. RulesGone'
  BY <1>1, <1>2, <1>3 DEF RulesGone, Online
<1>9. QED BY <1>5, <1>6, <1>7, <1>8

\* The handshake ends, and only now does the controller get the session.
LEMMA ReadBarrierKeepsHandshake ==
    ASSUME TypeOK, HandshakeInv, NEW c \in Conns, ReadBarrier(c), UNCHANGED depVars
    PROVE  HandshakeInv'
<1> USE DEF HandshakeInv
<1>1. /\ conState' = [conState EXCEPT ![c] = "connected"]
      /\ UNCHANGED <<toSwitch, todo, session, unused, table>>
      /\ switches' = switches \/ switches' = [switches EXCEPT ![Dpid[c]] = c]
  BY DEF ReadBarrier, FinishConnecting, HandleConnectionUp, depVars
<1>2. conState'[c] = "connected" /\ \A d \in Conns : d # c => conState'[d] = conState[d]
  BY <1>1 DEF TypeOK, ConnTypeOK
<1>3. SessionsOwned'
  <2>1. c \notin unused
    BY ReadingOwned DEF ReadBarrier
  <2>2. \A d \in Conns : d # c => fromSwitch'[d] = fromSwitch[d]
    BY DEF ReadBarrier, Consume, TypeOK, PltTypeOK
  <2>3. QED BY <1>1, <1>2, <2>1, <2>2, OwnershipKept
<1>4. HandlesSettled'
  <2>1. \A s \in Switches : switches'[s] = switches[s] \/ switches'[s] = c
    BY <1>1 DEF TypeOK, CtlTypeOK
  <2>2. QED
    BY <1>1, <1>2, <2>1 DEF HandlesSettled, Settled, TypeOK, CtlTypeOK, PltTypeOK, Calls
<1>5. HandshakeAlone'
  BY <1>1, <1>2 DEF HandshakeAlone
<1>6. RulesGone'
  BY <1>1, <1>2 DEF RulesGone, Online
<1>7. QED BY <1>3, <1>4, <1>5, <1>6

LEMMA ReadEofKeepsHandshake ==
    ASSUME TypeOK, HandshakeInv, NEW c \in Conns, ReadEof(c), UNCHANGED depVars
    PROVE  HandshakeInv'
<1> USE DEF HandshakeInv
<1>1. /\ conState' = [conState EXCEPT ![c] = "closed"]
      /\ toSwitch' = [toSwitch EXCEPT ![c] = <<>>]
      /\ todo'.packet = {}
      /\ UNCHANGED <<switches, session, unused, table>>
  BY DEF ReadEof, Disconnect, Nothing, ctlVars, depVars
<1>2. /\ conState'[c] = "closed"
      /\ \A d \in Conns : d # c => conState'[d] = conState[d] /\ toSwitch'[d] = toSwitch[d]
  BY <1>1 DEF TypeOK, ConnTypeOK
<1>3. SessionsOwned'
  <2>1. c \notin unused
    BY ReadingOwned DEF ReadEof
  <2>2. \A d \in Conns : d # c => fromSwitch'[d] = fromSwitch[d]
    BY DEF ReadEof, TypeOK, PltTypeOK
  <2>3. QED BY <1>1, <1>2, <2>1, <2>2, OwnershipKept
<1>4. HandlesSettled'
  BY <1>1, <1>2 DEF HandlesSettled, Settled, TypeOK, CtlTypeOK
<1>5. HandshakeAlone'
  BY <1>2 DEF HandshakeAlone
<1>6. RulesGone'
  BY <1>1, <1>2 DEF RulesGone, Online
<1>7. QED BY <1>3, <1>4, <1>5, <1>6

\* The other messages leave the sessions as they are.
LEMMA ReadKeepsHandshake ==
    ASSUME TypeOK, HandshakeInv, NEW c \in Conns, Read(c), UNCHANGED depVars
    PROVE  HandshakeInv'
<1> USE DEF HandshakeInv
<1>1. CASE ReadFeatures(c) \/ ReadBarrier(c) \/ ReadEof(c)
  BY <1>1, ReadFeaturesKeepsHandshake, ReadBarrierKeepsHandshake, ReadEofKeepsHandshake
<1>2. CASE \/ ReadFlowRemoved(c) \/ LldpIgnored(c) \/ LinkDetected(c)
           \/ ReadPacketIn(c) \/ HostJoins(c) \/ HostMoves(c)
  <2>1. UNCHANGED <<conState, switches, session, unused, table>>
    BY <1>2 DEF ReadFlowRemoved, LldpIgnored, LinkDetected, ReadPacketIn, HostJoins,
                HostMoves, HandleFlowRemoved, HandleLinkAdded, HandleHostSeen,
                conVars, ctlVars, depVars
  <2>2. SessionsOwned'
    <3>1. c \notin unused
      BY <1>2, ReadingOwned DEF ReadFlowRemoved, LldpIgnored, LinkDetected, ReadPacketIn,
                                HostJoins, HostMoves
    <3>2. Consume(c)
      BY <1>2 DEF ReadFlowRemoved, LldpIgnored, LinkDetected, ReadPacketIn, HostJoins,
                  HostMoves
    <3>3. \A d \in Conns : d # c => fromSwitch'[d] = fromSwitch[d]
      BY <3>2 DEF Consume, TypeOK, PltTypeOK
    <3>4. QED BY <2>1, <3>1, <3>3, OwnershipKept
  <2>3. \A call \in todo'.packet : conState[call[1]] \in Settled
    <3>1. CASE ReadFlowRemoved(c) \/ LldpIgnored(c) \/ LinkDetected(c)
      BY <3>1 DEF ReadFlowRemoved, LldpIgnored, LinkDetected, HandlesSettled
    <3>2. CASE ReadPacketIn(c) \/ HostJoins(c) \/ HostMoves(c)
      BY <3>2 DEF ReadPacketIn, HostJoins, HostMoves, CallSwitchController, Nothing, Settled
    <3>3. QED BY <1>2, <3>1, <3>2
  <2>4. HandlesSettled'
    BY <2>1, <2>3 DEF HandlesSettled
  <2>5. \A d \in Conns : conState[d] \notin Settled => toSwitch'[d] = toSwitch[d]
    <3>1. CASE ReadFlowRemoved(c)
      <4>1. Head(fromSwitch[c]).flow \in Flows
        BY <3>1, ReadingTyped, ReportContents DEF ReadFlowRemoved, TypeOK
      <4>2. QED BY <3>1, <4>1, FlowRemovedSpares DEF ReadFlowRemoved
    <3>2. CASE ~ ReadFlowRemoved(c)
      BY <1>2, <3>2 DEF LldpIgnored, LinkDetected, ReadPacketIn, HostJoins, HostMoves, conVars
    <3>3. QED BY <3>1, <3>2
  <2>6. QED BY <2>1, <2>2, <2>4, <2>5, HandshakesSpared
<1>3. QED BY <1>1, <1>2 DEF Read

LEMMA DispatchKeepsHandshake ==
    ASSUME TypeOK, HandshakeInv, Dispatch, UNCHANGED depVars
    PROVE  HandshakeInv'
<1> USE DEF HandshakeInv
<1>1. UNCHANGED <<conState, switches, fromSwitch, session, unused, table>>
  BY DEF Dispatch, RaiseLinkRemoved, PopLinks, DispatchConnectionDown, DispatchPacketIn,
         HandleLinkRemoved, HandleConnectionDown, HandlePacketIn, IgnorePacket,
         ForwardInstalled, NoPathFound, InstallPath, UntouchedByPacketIn,
         conVars, ctlVars, depVars
<1>2. SessionsOwned'
  BY <1>1 DEF SessionsOwned
<1>3. HandlesSettled'
  <2>1. todo'.packet \subseteq todo.packet
    <3>1. CASE RaiseLinkRemoved
      BY <3>1 DEF RaiseLinkRemoved, TypeOK, PltTypeOK, Calls
    <3>2. CASE PopLinks
      BY <3>2 DEF PopLinks, TypeOK, PltTypeOK, Calls
    <3>3. CASE DispatchConnectionDown
      BY <3>3 DEF DispatchConnectionDown, TypeOK, PltTypeOK, Calls
    <3>4. CASE DispatchPacketIn
      BY <3>4 DEF DispatchPacketIn, Nothing
    <3>5. QED BY <3>1, <3>2, <3>3, <3>4 DEF Dispatch
  <2>2. QED BY <1>1, <2>1 DEF HandlesSettled
<1>4. ASSUME NEW d \in Conns, conState[d] \notin Settled
      PROVE  toSwitch'[d] = toSwitch[d]
  <2>1. CASE RaiseLinkRemoved
    BY <1>4, <2>1, LinkRemovedSpares DEF RaiseLinkRemoved, TypeOK, PltTypeOK, Calls
  <2>2. CASE PopLinks \/ DispatchConnectionDown
    BY <2>2 DEF PopLinks, DispatchConnectionDown, conVars
  <2>3. CASE DispatchPacketIn
    <3>1. PICK call \in todo.packet : HandlePacketIn(call[1], call[2])
      BY <2>3 DEF DispatchPacketIn
    <3>2. call[1] \in Conns /\ call[2] \in Frames /\ conState[call[1]] \in Settled
      BY DEF HandlesSettled, TypeOK, PltTypeOK, Calls
    <3>3. QED BY <1>4, <3>1, <3>2, PacketInSpares
  <2>4. QED BY <2>1, <2>2, <2>3 DEF Dispatch
<1>5. QED BY <1>1, <1>2, <1>3, <1>4, HandshakesSpared
LEMMA TimerKeepsHandshake ==
    ASSUME TypeOK, HandshakeInv, Timer
    PROVE  HandshakeInv'
<1> USE DEF HandshakeInv
<1>1. UNCHANGED <<conState, toSwitch, switches, fromSwitch, session, unused, table>>
  BY DEF Timer, Timeout, ExpireLinks, HostExpires, HandleHostLeft, conVars, ctlVars, depVars
<1>2. todo'.packet \subseteq todo.packet
  BY DEF Timer, Timeout, ExpireLinks, HostExpires, Nothing
<1>3. QED
  BY <1>1, <1>2
     DEF SessionsOwned, HandlesSettled, HandshakeAlone, RulesGone, Online

\* An open session is the only one of its switch.
LEMMA OnlineOne ==
    ASSUME NEW c \in Conns, NEW d \in Conns, Online(c), Online(d), Dpid[c] = Dpid[d]
    PROVE  c = d
BY DEF Online

\* The switch of a session reads: a rule is added only after the handshake,
\* and what the handshake writes removes them all.
LEMMA SwitchReceivesKeepsHandshake ==
    ASSUME TypeOK, HandshakeInv, NEW c \in Conns, SwitchReceives(c)
    PROVE  HandshakeInv'
<1> USE DEF HandshakeInv
<1>1. PICK t \in {"clear", "barrier", "add", "packet_out", "del_port", "del_flow"} : Receives(c, t)
  BY DEF SwitchReceives, SwitchClears, SwitchAnswersBarrier, SwitchAddsRule, SwitchResubmits,
         SwitchDeletesByPort, SwitchDeletesByFlow
<1>2. /\ UNCHANGED <<conState, switches, todo, session, unused>>
      /\ toSwitch' = [toSwitch EXCEPT ![c] = Tail(toSwitch[c])]
      /\ Online(c) /\ toSwitch[c] # <<>> /\ Head(toSwitch[c]).type = t
  BY <1>1 DEF Receives, ctlVars
<1>3. Dpid[c] \in Switches /\ session[Dpid[c]] = c
  BY <1>2, SwitchAssumption DEF Online
<1>4. \A d \in Conns : d # c => toSwitch'[d] = toSwitch[d]
  BY <1>2 DEF TypeOK, ConnTypeOK
<1>5. SessionsOwned'
  <2>1. fromSwitch' = fromSwitch \/ \E q : Report(Dpid[c], q)
    BY DEF SwitchReceives, SwitchClears, SwitchAnswersBarrier, SwitchAddsRule, SwitchResubmits,
           SwitchDeletesByPort, SwitchDeletesByFlow, DeleteRules
  <2>2. CASE fromSwitch' = fromSwitch
    BY <1>2, <2>2 DEF SessionsOwned
  <2>3. CASE \E q : Report(Dpid[c], q)
    BY <1>2, <1>3, <2>3, ReportKeepsOwnership
  <2>4. QED BY <2>1, <2>2, <2>3
<1>6. HandlesSettled'
  BY <1>2 DEF HandlesSettled
<1>7. conState[c] # "new"
  BY <1>2 DEF HandshakeAlone
<1>8. ASSUME conState[c] = "connecting"
      PROVE  \/ SwitchClears(c) /\ toSwitch'[c] = <<BarrierRequest>>
             \/ /\ SwitchAnswersBarrier(c) /\ toSwitch'[c] = <<>>
                /\ toSwitch[c] = <<BarrierRequest>>
  <2>1. toSwitch'[c] = Tail(toSwitch[c])
    BY <1>2 DEF TypeOK, ConnTypeOK
  <2>2. CASE toSwitch[c] = <<ClearRules, BarrierRequest>>
    <3>1. Head(toSwitch[c]).type = "clear" /\ Tail(toSwitch[c]) = <<BarrierRequest>>
      BY <2>2 DEF ClearRules
    <3>2. SwitchClears(c)
      BY <3>1 DEF SwitchReceives, SwitchAnswersBarrier, SwitchAddsRule, SwitchResubmits,
                  SwitchDeletesByPort, SwitchDeletesByFlow, Receives
    <3>3. QED BY <2>1, <3>1, <3>2
  <2>3. CASE toSwitch[c] = <<BarrierRequest>>
    <3>1. Head(toSwitch[c]).type = "barrier" /\ Tail(toSwitch[c]) = <<>>
      BY <2>3 DEF BarrierRequest
    <3>2. SwitchAnswersBarrier(c)
      BY <3>1 DEF SwitchReceives, SwitchClears, SwitchAddsRule, SwitchResubmits,
                  SwitchDeletesByPort, SwitchDeletesByFlow, Receives
    <3>3. QED BY <2>1, <2>3, <3>1, <3>2
  <2>4. QED BY <1>2, <1>8, <2>2, <2>3 DEF HandshakeAlone
<1>9. HandshakeAlone'
  BY <1>2, <1>4, <1>7, <1>8 DEF HandshakeAlone
<1>10. \A s \in Switches : s # Dpid[c] => table'[s] = table[s]
  BY DEF SwitchReceives, SwitchClears, SwitchAnswersBarrier, SwitchAddsRule, SwitchResubmits,
         SwitchDeletesByPort, SwitchDeletesByFlow, DeleteRules, TypeOK, DepTypeOK
<1>11. SwitchClears(c) => table'[Dpid[c]] = NoRules
  BY <1>3 DEF SwitchClears, DeleteRules, NoRules, TypeOK, DepTypeOK
<1>12. RulesGone'
  <2> SUFFICES ASSUME NEW d \in Conns, Online(d)', conState'[d] = "connecting",
                      toSwitch'[d] \in {<<>>, <<BarrierRequest>>}
               PROVE  (table[Dpid[d]])' = NoRules
    BY DEF RulesGone, NoRules, BarrierRequest
  <2>1. Online(d) /\ conState[d] = "connecting" /\ Dpid[d] \in Switches
    BY <1>2, SwitchAssumption DEF Online
  <2>2. CASE d = c
    <3>1. CASE SwitchClears(c)
      BY <1>11, <2>2, <3>1
    <3>2. CASE SwitchAnswersBarrier(c) /\ toSwitch[c] = <<BarrierRequest>>
      BY <2>1, <2>2, <3>2 DEF SwitchAnswersBarrier, RulesGone
    <3>3. QED BY <1>8, <2>1, <2>2, <3>1, <3>2
  <2>3. CASE d # c
    <3>1. Dpid[d] # Dpid[c]
      BY <1>2, <2>1, <2>3, OnlineOne
    <3>2. toSwitch[d] \in {<<>>, <<BarrierRequest>>}
      BY <1>4, <2>3
    <3>3. QED BY <1>10, <2>1, <3>1, <3>2 DEF RulesGone
  <2>4. QED BY <2>2, <2>3
<1>13. QED BY <1>5, <1>6, <1>9, <1>12

LEMMA DataPlaneKeepsHandshake ==
    ASSUME TypeOK, HandshakeInv, NEW fr \in frames, SwitchForwards(fr) \/ SwitchMisses(fr)
    PROVE  HandshakeInv'
<1> USE DEF HandshakeInv
<1>1. UNCHANGED <<conState, toSwitch, switches, todo, session, unused, table>>
  BY DEF SwitchForwards, SwitchMisses, conVars, ctlVars, pltVars
<1>2. SessionsOwned'
  <2>1. fr.sw \in Switches
    BY DEF TypeOK, DepTypeOK, Frames
  <2>2. fromSwitch' = fromSwitch \/ \E q : Report(fr.sw, q)
    BY DEF SwitchForwards, SwitchMisses, pltVars
  <2>3. CASE fromSwitch' = fromSwitch
    BY <1>1, <2>3 DEF SessionsOwned
  <2>4. QED BY <1>1, <2>1, <2>2, <2>3, ReportKeepsOwnership
<1>3. HandlesSettled'
  BY <1>1 DEF HandlesSettled
<1>4. QED BY <1>1, <1>2, <1>3, HandshakesSpared

LEMMA EnvironmentKeepsHandshake ==
    ASSUME TypeOK, HandshakeInv, Environment
    PROVE  HandshakeInv'
<1> USE DEF HandshakeInv
<1>1. UNCHANGED <<conState, switches, todo>>
  BY DEF Environment, SwitchConnects, SwitchDisconnects, LldpArrives, HostSends,
         conVars, ctlVars, pltVars
<1>2. HandlesSettled'
  BY <1>1 DEF HandlesSettled
<1>3. ASSUME NEW c \in Conns, SwitchConnects(c)
      PROVE  HandshakeInv'
  <2>1. /\ c \in unused /\ session[Dpid[c]] = NoCon /\ Dpid[c] \in Switches
        /\ session' = [session EXCEPT ![Dpid[c]] = c]
        /\ unused' = unused \ {c}
        /\ fromSwitch' = [fromSwitch EXCEPT ![c] = <<[type |-> "features"]>>]
        /\ UNCHANGED <<toSwitch, table>>
    BY <1>3, SwitchAssumption DEF SwitchConnects, conVars
  <2>2. conState[c] = "new"
    BY <2>1 DEF SessionsOwned
  <2>3. SessionsOwned'
    BY <1>1, <2>1 DEF SessionsOwned, TypeOK, PltTypeOK, DepTypeOK
  <2>4. HandshakeAlone'
    BY <1>1, <2>1 DEF HandshakeAlone
  <2>5. \A d \in Conns : Online(d)' => d = c \/ Online(d)
    BY <2>1, SwitchAssumption DEF Online, TypeOK, DepTypeOK
  <2>6. RulesGone'
    BY <1>1, <2>1, <2>2, <2>5 DEF RulesGone, NoRules
  <2>7. QED BY <1>2, <2>3, <2>4, <2>6
<1>4. ASSUME NEW s \in Switches, SwitchDisconnects(s)
      PROVE  HandshakeInv'
  <2> DEFINE c == session[s]
  <2>1. /\ c \in Conns /\ c \notin unused /\ Dpid[c] = s
        /\ toSwitch' = [toSwitch EXCEPT ![c] = <<>>]
        /\ session' = [session EXCEPT ![s] = NoCon]
        /\ UNCHANGED unused
    BY <1>4 DEF SwitchDisconnects, SessionsOwned, TypeOK, DepTypeOK
  <2>2. \A d \in Conns : d # c => fromSwitch'[d] = fromSwitch[d]
    BY <1>4 DEF SwitchDisconnects, TypeOK, PltTypeOK
  <2>3. SessionsOwned'
    BY <1>1, <2>1, <2>2 DEF SessionsOwned, TypeOK, DepTypeOK
  <2>4. HandshakeAlone'
    BY <1>1, <2>1 DEF HandshakeAlone, TypeOK, ConnTypeOK
  <2>5. \A t \in Switches : t # s => table'[t] = table[t]
    BY <1>4 DEF SwitchDisconnects, TypeOK, DepTypeOK
  <2>6. \A d \in Conns : Online(d)' => Online(d) /\ Dpid[d] # s
    BY <2>1, SwitchAssumption DEF Online, TypeOK, DepTypeOK
  <2>7. \A d \in Conns : Online(d)' => toSwitch'[d] = toSwitch[d]
    BY <2>1, <2>6 DEF TypeOK, ConnTypeOK
  <2>8. RulesGone'
    BY <1>1, <2>5, <2>6, <2>7, SwitchAssumption DEF RulesGone, NoRules
  <2>9. QED BY <1>2, <2>3, <2>4, <2>8
<1>5. ASSUME NEW l \in Links, LldpArrives(l)
      PROVE  HandshakeInv'
  <2>1. /\ UNCHANGED <<toSwitch, session, unused, table>>
        /\ Report(l.dpid2, <<[type |-> "lldp", link |-> l]>>) /\ l.dpid2 \in Switches
    BY <1>5, LinkAssumption DEF LldpArrives, conVars, depVars
  <2>2. SessionsOwned'
    BY <1>1, <2>1, ReportKeepsOwnership
  <2>3. QED BY <1>1, <1>2, <2>1, <2>2, HandshakesSpared
<1>6. ASSUME NEW h \in Hosts, NEW pkt \in Payloads, HostSends(h, pkt)
      PROVE  HandshakeInv'
  <2>1. UNCHANGED <<toSwitch, fromSwitch, session, unused, table>>
    BY <1>6 DEF HostSends, conVars, pltVars
  <2>2. QED BY <1>1, <1>2, <2>1, HandshakesSpared DEF SessionsOwned
<1>7. QED BY <1>3, <1>4, <1>5, <1>6 DEF Environment
LEMMA WrittenInVainKeepsHandshake ==
    ASSUME TypeOK, HandshakeInv, NEW c \in Conns, WrittenInVain(c)
    PROVE  HandshakeInv'
<1>1. /\ UNCHANGED <<conState, switches, todo, fromSwitch, session, unused, table>>
      /\ toSwitch' = [toSwitch EXCEPT ![c] = <<>>] /\ ~ Online(c)
  BY DEF WrittenInVain, ctlVars, pltVars, depVars
<1>2. SessionsOwned' /\ HandlesSettled'
  BY <1>1 DEF HandshakeInv, SessionsOwned, HandlesSettled
<1>3. HandshakeAlone'
  BY <1>1 DEF HandshakeInv, HandshakeAlone, TypeOK, ConnTypeOK
<1>4. RulesGone'
  BY <1>1 DEF HandshakeInv, RulesGone, Online, TypeOK, ConnTypeOK
<1>5. QED BY <1>2, <1>3, <1>4 DEF HandshakeInv

LEMMA StepKeepsHandshake == TypeOK /\ HandshakeInv /\ [Next]_vars => HandshakeInv'
<1> SUFFICES ASSUME TypeOK, HandshakeInv, [Next]_vars PROVE HandshakeInv'
  OBVIOUS
<1>1. CASE Thread
  BY <1>1, ReadKeepsHandshake, DispatchKeepsHandshake DEF Thread
<1>2. CASE Timer
  BY <1>2, TimerKeepsHandshake
<1>3. CASE Switch
  BY <1>3, SwitchReceivesKeepsHandshake, WrittenInVainKeepsHandshake,
     DataPlaneKeepsHandshake DEF Switch
<1>4. CASE Environment
  BY <1>4, EnvironmentKeepsHandshake
<1>5. CASE UNCHANGED vars
  BY <1>5 DEF HandshakeInv, SessionsOwned, HandlesSettled, HandshakeAlone,
              RulesGone, Online, vars, conVars, ctlVars, pltVars, depVars
<1>6. QED BY <1>1, <1>2, <1>3, <1>4, <1>5 DEF Next

LEMMA HandshakeHolds == Spec => []HandshakeInv
<1>1. Init => HandshakeInv
  BY SwitchAssumption
     DEF Init, ConnInit, CtlInit, PltInit, Nothing, HandshakeInv, SessionsOwned,
         HandlesSettled, HandshakeAlone, RulesGone
<1>2. QED BY <1>1, StepKeepsHandshake, TypeCorrect, PTL DEF Spec

\* However sessions come and go and whatever the controller is doing, no rule
\* of an earlier session, and none of the controller's for the new one, is in
\* a switch when its handshake has been carried out.
THEOREM HandshakeClears == Spec => []HandshakeLeavesNoRules
<1>1. HandshakeInv => HandshakeLeavesNoRules
  <2> SUFFICES ASSUME HandshakeInv, NEW c \in Conns, Online(c), conState[c] = "connecting",
                      \A i \in DOMAIN toSwitch[c] : toSwitch[c][i].type # "barrier"
               PROVE  table[Dpid[c]] = NoRules
    BY DEF HandshakeLeavesNoRules
  <2>1. toSwitch[c] = <<>>
    BY DEF HandshakeInv, HandshakeAlone, BarrierRequest
  <2>2. QED BY <2>1 DEF HandshakeInv, RulesGone
<1>2. QED BY <1>1, HandshakeHolds, PTL

-----------------------------------------------------------------------------
(* Sessions and SwitchControllers.                                         *)

\* A switch that was ever up has a SwitchController, which is its own.
UpRegistered ==
    /\ \A c \in Conns : c \in connections \/ conState[c] = "connected"
                          => switches[Dpid[c]] # NoCon
    /\ \A s \in Switches : switches[s] # NoCon => Dpid[switches[s]] = s

\* A step outside the controller's thread touches neither controller nor tracker.
LEMMA OutsideThread ==
    ASSUME Switch \/ Environment \/ UNCHANGED vars
    PROVE  UNCHANGED <<ctlVars, adjacency, tracked>>
BY DEF Switch, SwitchReceives, SwitchClears, SwitchAddsRule, SwitchDeletesByPort,
       SwitchDeletesByFlow, SwitchResubmits, SwitchAnswersBarrier, Receives, WrittenInVain, SwitchForwards,
       SwitchMisses, Environment, SwitchConnects, SwitchDisconnects, LldpArrives,
       HostSends, vars, pltVars

LEMMA OutsideCalls ==
    ASSUME Switch \/ Environment \/ UNCHANGED vars
    PROVE  todo' = todo
BY DEF Switch, SwitchReceives, SwitchClears, SwitchAddsRule, SwitchDeletesByPort,
       SwitchDeletesByFlow, SwitchResubmits, SwitchAnswersBarrier, Receives, WrittenInVain,
       SwitchForwards, SwitchMisses, Environment, SwitchConnects, SwitchDisconnects, LldpArrives,
       HostSends, vars, pltVars

\* A session that is lost stays lost.
LEMMA LossIsFinal ==
    ASSUME TypeOK, SessionsOwned, [Next]_vars, SessionsLast'
    PROVE  SessionsLast
<1>1. ASSUME NEW c \in Conns, SwitchConnects(c)
      PROVE  SessionsLast
  <2>1. ASSUME NEW d \in Conns \ unused PROVE Online(d)
    <3>1. d \notin unused' /\ d # c
      BY <1>1 DEF SwitchConnects
    <3>2. session'[Dpid[d]] = d
      BY <3>1 DEF SessionsLast, Online
    <3>3. Dpid[d] \in Switches /\ Dpid[c] \in Switches
      BY SwitchAssumption
    <3>4. QED BY <1>1, <3>1, <3>2, <3>3 DEF SwitchConnects, Online, TypeOK, DepTypeOK
  <2>2. QED BY <2>1 DEF SessionsLast
<1>2. ASSUME NEW s \in Switches, SwitchDisconnects(s)
      PROVE  FALSE
  <2>1. session[s] \in Conns /\ session[s] \notin unused /\ Dpid[session[s]] = s
    BY <1>2 DEF SwitchDisconnects, SessionsOwned, TypeOK, DepTypeOK
  <2>2. session'[s] = NoCon /\ unused' = unused
    BY <1>2 DEF SwitchDisconnects, TypeOK, DepTypeOK
  <2>3. QED BY <2>1, <2>2, SwitchAssumption DEF SessionsLast, Online
<1>3. CASE /\ \A c \in Conns : ~ SwitchConnects(c)
           /\ \A s \in Switches : ~ SwitchDisconnects(s)
  <2>1. UNCHANGED <<session, unused>>
    BY <1>3 DEF Next, Thread, Timer, Switch, Environment, SwitchReceives, SwitchClears,
                SwitchAnswersBarrier, SwitchAddsRule, SwitchDeletesByPort, SwitchDeletesByFlow,
                SwitchResubmits, Receives, WrittenInVain, SwitchForwards, SwitchMisses,
                LldpArrives, HostSends, vars, depVars
  <2>2. QED BY <2>1 DEF SessionsLast, Online
<1>4. QED BY <1>1, <1>2, <1>3

\* SwitchControllers are made when a handshake ends.
LEMMA ControllersUntouched ==
    ASSUME [Next]_vars, \A c \in Conns : ~ ReadBarrier(c)
    PROVE  switches' = switches /\ connections' \subseteq connections
<1>1. CASE Dispatch
  BY <1>1 DEF Dispatch, RaiseLinkRemoved, HandleLinkRemoved, PopLinks, DispatchConnectionDown,
              HandleConnectionDown, DispatchPacketIn, HandlePacketIn, IgnorePacket,
              ForwardInstalled, NoPathFound, InstallPath, UntouchedByPacketIn, ctlVars
<1>2. ASSUME NEW c \in Conns, Read(c)
      PROVE  UNCHANGED <<switches, connections>>
  BY <1>2 DEF Read, ReadFeatures, ReadFlowRemoved, HandleFlowRemoved, ReadEof, LldpIgnored,
              LinkDetected, HandleLinkAdded, ReadPacketIn, HostJoins, HostMoves,
              HandleHostSeen, ctlVars
<1>3. CASE Timer
  BY <1>3 DEF Timer, Timeout, ExpireLinks, HostExpires, HandleHostLeft, ctlVars
<1>4. CASE Switch \/ Environment \/ UNCHANGED vars
  BY <1>4, OutsideThread DEF ctlVars
<1>5. QED BY <1>1, <1>2, <1>3, <1>4 DEF Next, Thread

LEMMA StepKeepsRegistered == TypeOK /\ UpRegistered /\ [Next]_vars => UpRegistered'
<1> SUFFICES ASSUME TypeOK, UpRegistered, [Next]_vars PROVE UpRegistered'
  OBVIOUS
<1>1. ASSUME NEW c \in Conns, ReadBarrier(c)
      PROVE  UpRegistered'
  <2>1. /\ connections' = connections \cup {c}
        /\ switches' = IF c \in connections THEN switches ELSE [switches EXCEPT ![Dpid[c]] = c]
        /\ conState' = [conState EXCEPT ![c] = "connected"]
    BY <1>1 DEF ReadBarrier, FinishConnecting, HandleConnectionUp
  <2>2. switches \in [Switches -> Conns \cup {NoCon}] /\ conState \in [Conns -> {"new", "connecting", "connected", "closed"}]
    BY DEF TypeOK, CtlTypeOK, ConnTypeOK
  <2>3. Dpid \in [Conns -> Switches] /\ c # NoCon
    BY SwitchAssumption
  <2>4. QED BY <2>1, <2>2, <2>3 DEF UpRegistered
<1>2. CASE \A c \in Conns : ~ ReadBarrier(c)
  <2>1. switches' = switches /\ connections' \subseteq connections
    BY <1>2, ControllersUntouched
  <2>2. \A c \in Conns : conState'[c] = "connected" => conState[c] = "connected"
    <3>1. ASSUME NEW d \in Conns, ReadFeatures(d) \/ ReadEof(d)
          PROVE  \A c \in Conns : conState'[c] = "connected" => conState[c] = "connected"
      BY <3>1 DEF ReadFeatures, FeaturesReply, ReadEof, Disconnect, TypeOK, ConnTypeOK
    <3>2. QED BY <1>2, <3>1, SessionsUntouched
  <2>3. QED BY <2>1, <2>2 DEF UpRegistered
<1>3. QED BY <1>1, <1>2

LEMMA RegisteredHolds == Spec => []UpRegistered
<1>1. Init => UpRegistered
  BY SwitchAssumption DEF Init, ConnInit, CtlInit, UpRegistered
<1>2. QED BY <1>1, StepKeepsRegistered, TypeCorrect, PTL DEF Spec

-----------------------------------------------------------------------------
(* The reports on their way.                                               *)

\* Reports that neither end a session nor name a switch that was never up.
Harmless == { m \in Reports : /\ m.type # "eof"
                              /\ m.type = "lldp" => switches[m.link.dpid1] # NoCon }

NothingEnds ==
    /\ fromSwitch \in [Conns -> Seq(Harmless)]
    /\ todo.down = NoCon

LEMMA HarmlessUntouched ==
    ASSUME switches' = switches
    PROVE  Harmless' = Harmless
BY DEF Harmless

LEMMA ReadingHarmless ==
    ASSUME NothingEnds, NEW c \in Conns, NEW t, Reading(c, t)
    PROVE  /\ Head(fromSwitch[c]) \in Harmless
           /\ Consume(c) => fromSwitch' \in [Conns -> Seq(Harmless)]
<1>1. fromSwitch[c] \in Seq(Harmless) /\ fromSwitch[c] # <<>>
  BY DEF NothingEnds, Reading
<1>2. Head(fromSwitch[c]) \in Harmless /\ Tail(fromSwitch[c]) \in Seq(Harmless)
  BY <1>1, QueueTyped
<1>3. QED BY <1>2 DEF NothingEnds, Consume

LEMMA ReportHarmless ==
    ASSUME NothingEnds, NEW s, NEW q \in Seq(Harmless), Report(s, q)
    PROVE  fromSwitch' \in [Conns -> Seq(Harmless)]
<1> DEFINE d == session[s]
<1>1. fromSwitch \in [Conns -> Seq(Harmless)]
  BY DEF NothingEnds
<1>2. CASE d \in Conns
  <2>1. fromSwitch[d] \o q \in Seq(Harmless)
    BY <1>1, <1>2, ConcatProperties
  <2>2. fromSwitch' = [fromSwitch EXCEPT ![d] = fromSwitch[d] \o q]
    BY <1>1, <1>2 DEF Report
  <2>3. QED BY <1>1, <1>2, <2>1, <2>2
<1>3. CASE d \notin Conns
  BY <1>1, <1>3 DEF Report
<1>4. QED BY <1>2, <1>3

LEMMA DeleteRulesHarmless ==
    ASSUME NothingEnds, NEW s \in Switches, NEW fs \in SUBSET Flows, DeleteRules(s, fs)
    PROVE  fromSwitch' \in [Conns -> Seq(Harmless)]
<1> DEFINE gone == { f \in fs : table[s][f] # NoPort }
<1>1. IsFiniteSet(gone)
  BY FS_Subset, FlowAssumption
<1>2. PICK order \in SetToSeqs(gone) :
        Report(s, [i \in DOMAIN order |->
                     [type |-> "flow_removed", flow |-> order[i]]])
  BY DEF DeleteRules
<1> DEFINE q == [i \in DOMAIN order |-> [type |-> "flow_removed", flow |-> order[i]]]
<1>3. Cardinality(gone) \in Nat /\ order \in [1 .. Cardinality(gone) -> gone]
  BY <1>1, FS_CardinalityType DEF SetToSeqs
<1>4. q \in Seq(Harmless)
  <2>1. \A i \in DOMAIN order : q[i] \in Harmless
    BY <1>3 DEF Harmless, Reports
  <2>2. q \in [1 .. Cardinality(gone) -> Harmless]
    BY <1>3, <2>1
  <2> HIDE DEF q
  <2>3. QED BY <1>3, <2>2, FunctionIsSeq
<1>5. QED BY <1>2, <1>4, ReportHarmless

\* What the switches and the environment report; an LLDP frame comes only
\* from a switch that is up.
LEMMA SwitchHarmless ==
    ASSUME TypeOK, NothingEnds, Switch
    PROVE  fromSwitch' \in [Conns -> Seq(Harmless)]
<1>1. ASSUME NEW c \in Conns, SwitchReceives(c)
      PROVE  fromSwitch' \in [Conns -> Seq(Harmless)]
  <2>1. Dpid[c] \in Switches /\ table[Dpid[c]] \in [Flows -> Ports \cup {NoPort}]
    BY SwitchAssumption DEF TypeOK, DepTypeOK
  <2>2. CASE SwitchClears(c)
    BY <2>1, <2>2, DeleteRulesHarmless DEF SwitchClears
  <2>3. CASE SwitchAnswersBarrier(c)
    <3>1. <<[type |-> "barrier"]>> \in Seq(Harmless)
      BY DEF Harmless, Reports
    <3>2. QED BY <2>3, <3>1, ReportHarmless DEF SwitchAnswersBarrier
  <2>4. CASE SwitchDeletesByPort(c)
    <3>1. PICK fs \in SUBSET Flows : DeleteRules(Dpid[c], fs)
      BY <2>4 DEF SwitchDeletesByPort
    <3>2. QED BY <2>1, <3>1, DeleteRulesHarmless
  <2>5. CASE SwitchDeletesByFlow(c)
    <3>1. {Head(toSwitch[c]).flow} \in SUBSET Flows
      BY <2>5, ReceivesTyped, MessageContents DEF SwitchDeletesByFlow
    <3>2. QED BY <2>1, <2>5, <3>1, DeleteRulesHarmless DEF SwitchDeletesByFlow
  <2>6. CASE SwitchAddsRule(c) \/ SwitchResubmits(c)
    BY <2>6 DEF SwitchAddsRule, SwitchResubmits, NothingEnds
  <2>7. QED BY <1>1, <2>2, <2>3, <2>4, <2>5, <2>6 DEF SwitchReceives
<1>2. ASSUME NEW c \in Conns, WrittenInVain(c)
      PROVE  fromSwitch' \in [Conns -> Seq(Harmless)]
  BY <1>2 DEF WrittenInVain, pltVars, NothingEnds
<1>3. ASSUME NEW fr \in frames, SwitchForwards(fr) \/ SwitchMisses(fr)
      PROVE  fromSwitch' \in [Conns -> Seq(Harmless)]
  <2>1. CASE SwitchForwards(fr)
    BY <2>1 DEF SwitchForwards, pltVars, NothingEnds
  <2>2. CASE SwitchMisses(fr)
    <3>1. <<[type |-> "packet_in", frame |-> fr]>> \in Seq(Harmless)
      BY DEF Harmless, Reports, TypeOK, DepTypeOK
    <3>2. QED BY <2>2, <3>1, ReportHarmless DEF SwitchMisses, NothingEnds
  <2>3. QED BY <1>3, <2>1, <2>2
<1>4. QED BY <1>1, <1>2, <1>3 DEF Switch

LEMMA EnvironmentHarmless ==
    ASSUME TypeOK, SessionsOwned, UpRegistered, NothingEnds, Environment,
           \A s \in Switches : ~ SwitchDisconnects(s)
    PROVE  fromSwitch' \in [Conns -> Seq(Harmless)]
<1>1. ASSUME NEW c \in Conns, SwitchConnects(c)
      PROVE  fromSwitch' \in [Conns -> Seq(Harmless)]
  <2>1. <<[type |-> "features"]>> \in Seq(Harmless)
    BY DEF Harmless, Reports
  <2>2. QED BY <1>1, <2>1 DEF SwitchConnects, NothingEnds
<1>2. ASSUME NEW l \in Links, LldpArrives(l)
      PROVE  fromSwitch' \in [Conns -> Seq(Harmless)]
  <2> DEFINE d == session[l.dpid1]
             m == [type |-> "lldp", link |-> l]
  <2>1. l.dpid1 \in Switches
    BY LinkAssumption
  <2>2. d # NoCon /\ conState[d] = "connected"
    BY <1>2 DEF LldpArrives
  <2>3. d \in Conns /\ Dpid[d] = l.dpid1
    BY <2>1, <2>2 DEF SessionsOwned, TypeOK, DepTypeOK
  <2>4. switches[l.dpid1] # NoCon
    BY <2>2, <2>3 DEF UpRegistered
  <2>5. m \in Harmless
    BY <2>4 DEF Harmless, Reports
  <2>6. <<m>> \in Seq(Harmless)
    BY <2>5
  <2>7. Report(l.dpid2, <<m>>)
    BY <1>2 DEF LldpArrives
  <2> HIDE DEF m
  <2>8. QED BY <2>6, <2>7, ReportHarmless
<1>3. ASSUME NEW h \in Hosts, NEW pkt \in Payloads, HostSends(h, pkt)
      PROVE  fromSwitch' \in [Conns -> Seq(Harmless)]
  BY <1>3 DEF HostSends, pltVars, NothingEnds
<1>4. QED BY <1>1, <1>2, <1>3 DEF Environment

\* The call of a SwitchController is the whole of what is left to do.
LEMMA CallAlone ==
    ASSUME NEW c, CallSwitchController(c)
    PROVE  todo'.removed = {} /\ todo'.popped = {} /\ todo'.down = NoCon
<1>1. \A p : LET call == [Nothing EXCEPT !.packet = p]
             IN  call.removed = {} /\ call.popped = {} /\ call.down = NoCon
  BY DEF Nothing
<1>2. Nothing.removed = {} /\ Nothing.popped = {} /\ Nothing.down = NoCon
  BY DEF Nothing
<1>3. QED BY <1>1, <1>2 DEF CallSwitchController

LEMMA ReadEndsNothing ==
    ASSUME TypeOK, NothingEnds, NEW c \in Conns, Read(c)
    PROVE  NothingEnds'
<1>1. CASE ReadEof(c)
  BY <1>1, ReadingHarmless DEF ReadEof, Reading, Harmless
<1>2. CASE ReadBarrier(c)
  <2>1. fromSwitch' \in [Conns -> Seq(Harmless)] /\ todo' = todo
    BY <1>2, ReadingHarmless DEF ReadBarrier
  <2>2. \A t \in Switches : switches[t] # NoCon => switches'[t] # NoCon
    BY <1>2, SwitchAssumption DEF ReadBarrier, HandleConnectionUp, TypeOK, CtlTypeOK
  <2>3. Harmless \subseteq Harmless'
    BY <2>2, ReportContents, LinkAssumption DEF Harmless
  <2>4. fromSwitch' \in [Conns -> Seq(Harmless')]
    BY <2>1, <2>3, SeqMonotonic
  <2>5. QED BY <2>1, <2>4 DEF NothingEnds
<1>3. CASE \/ ReadFeatures(c) \/ ReadFlowRemoved(c) \/ LldpIgnored(c) \/ LinkDetected(c)
           \/ ReadPacketIn(c) \/ HostJoins(c) \/ HostMoves(c)
  <2>1. switches' = switches
    BY <1>3 DEF ReadFeatures, ReadFlowRemoved, HandleFlowRemoved, LldpIgnored, LinkDetected,
                HandleLinkAdded, ReadPacketIn, HostJoins, HostMoves, HandleHostSeen, ctlVars
  <2>2. fromSwitch' \in [Conns -> Seq(Harmless)]
    BY <1>3, ReadingHarmless DEF ReadFeatures, ReadFlowRemoved, LldpIgnored, LinkDetected,
                                 ReadPacketIn, HostJoins, HostMoves
  <2>3. todo'.down = NoCon
    BY <1>3, CallAlone DEF ReadFeatures, ReadFlowRemoved, LldpIgnored, LinkDetected,
                           ReadPacketIn, HostJoins, HostMoves, NothingEnds
  <2>4. QED BY <2>1, <2>2, <2>3, HarmlessUntouched DEF NothingEnds
<1>4. QED BY <1>1, <1>2, <1>3 DEF Read

LEMMA DispatchEndsNothing ==
    ASSUME TypeOK, NothingEnds, Dispatch
    PROVE  NothingEnds'
<1>1. CASE RaiseLinkRemoved \/ PopLinks
  BY <1>1, HarmlessUntouched
     DEF RaiseLinkRemoved, HandleLinkRemoved, PopLinks, ctlVars, NothingEnds, TypeOK, PltTypeOK,
         Calls
<1>2. CASE DispatchConnectionDown
  BY <1>2 DEF DispatchConnectionDown, NothingEnds
<1>3. CASE DispatchPacketIn
  BY <1>3, HarmlessUntouched
     DEF DispatchPacketIn, HandlePacketIn, IgnorePacket, ForwardInstalled, NoPathFound,
         InstallPath, UntouchedByPacketIn, NothingEnds, Nothing
<1>4. QED BY <1>1, <1>2, <1>3 DEF Dispatch

LEMMA TimerEndsNothing ==
    ASSUME TypeOK, NothingEnds, Timer
    PROVE  NothingEnds'
<1>1. UNCHANGED <<switches, fromSwitch>>
  BY DEF Timer, Timeout, ExpireLinks, HostExpires, HandleHostLeft, ctlVars
<1>2. todo'.down = NoCon
  BY DEF Timer, Timeout, ExpireLinks, HostExpires, NothingEnds, Nothing
<1>3. QED BY <1>1, <1>2, HarmlessUntouched DEF NothingEnds

\* No session is lost in this step, and none before it.
LEMMA NoneLost ==
    ASSUME TypeOK, SessionsOwned, [Next]_vars, SessionsLast'
    PROVE  SessionsLast /\ \A s \in Switches : ~ SwitchDisconnects(s)
<1>1. SessionsLast
  BY LossIsFinal
<1>2. SUFFICES ASSUME NEW s \in Switches, SwitchDisconnects(s) PROVE FALSE
  BY <1>1
<1>3. session[s] \in Conns /\ session[s] \notin unused /\ Dpid[session[s]] = s
  BY <1>2 DEF SwitchDisconnects, SessionsOwned, TypeOK, DepTypeOK
<1>4. session'[s] = NoCon /\ unused' = unused
  BY <1>2 DEF SwitchDisconnects, TypeOK, DepTypeOK
<1>5. QED BY <1>3, <1>4, SwitchAssumption DEF SessionsLast, Online

LEMMA StepEndsNothing ==
    ASSUME TypeOK, SessionsOwned, UpRegistered, SessionsLast => NothingEnds, [Next]_vars
    PROVE  SessionsLast' => NothingEnds'
<1> SUFFICES ASSUME SessionsLast' PROVE NothingEnds'
  OBVIOUS
<1>1. NothingEnds /\ \A s \in Switches : ~ SwitchDisconnects(s)
  BY NoneLost
<1>2. CASE Thread
  BY <1>1, <1>2, ReadEndsNothing, DispatchEndsNothing DEF Thread
<1>3. CASE Timer
  BY <1>1, <1>3, TimerEndsNothing
<1>4. CASE (Idle /\ (Switch \/ Environment)) \/ UNCHANGED vars
  <2>1. UNCHANGED <<switches, todo>>
    BY <1>4, OutsideThread, OutsideCalls DEF ctlVars
  <2>2. fromSwitch' \in [Conns -> Seq(Harmless)]
    BY <1>1, <1>4, SwitchHarmless, EnvironmentHarmless DEF NothingEnds, vars, pltVars
  <2>3. QED BY <1>1, <2>1, <2>2, HarmlessUntouched DEF NothingEnds
<1>5. QED BY <1>2, <1>3, <1>4 DEF Next

LEMMA NothingEndsHolds == Spec => [](SessionsLast => NothingEnds)
<1>1. Init => (SessionsLast => NothingEnds)
  BY DEF Init, PltInit, NothingEnds, Nothing
<1>2. TypeOK /\ HandshakeInv /\ UpRegistered /\ (SessionsLast => NothingEnds) /\ [Next]_vars
        => (SessionsLast => NothingEnds)'
  BY StepEndsNothing DEF HandshakeInv
<1>3. QED BY <1>1, <1>2, TypeCorrect, HandshakeHolds, RegisteredHolds, PTL DEF Spec

-----------------------------------------------------------------------------
(* Hosts.                                                                  *)

HostViewsAgree ==
    \A h \in Hosts : /\ h \in nodes <=> hosts[h] # NoPort
                     /\ tracked[h] # Nowhere <=> hosts[h] # NoPort

\* Steps that concern no host.
LEMMA HostsUntouched ==
    ASSUME HostViewsAgree, UNCHANGED <<hosts, tracked>>,
           \A h \in Hosts : h \in nodes' <=> h \in nodes
    PROVE  HostViewsAgree'
BY DEF HostViewsAgree

\* A port or a location of the network is not the absent one.
LEMMA PortsExist ==
    /\ \A p \in Ports : p # NoPort
    /\ \A at \in Location : at # Nowhere
<1>1. \A p \in Ports : p # NoPort
  BY PortAssumption
<1>2. ASSUME NEW at \in Location PROVE at # Nowhere
  <2>1. at.port # NoPort
    BY <1>1 DEF Location
  <2>2. QED BY <2>1 DEF Nowhere
<1>3. QED BY <1>1, <1>2

LEMMA HostSeenAgrees ==
    ASSUME TypeOK, HostViewsAgree, NEW h \in Hosts, NEW s \in Switches, NEW p \in Ports,
           HandleHostSeen(h, s, p), NEW at \in Location,
           tracked' = [tracked EXCEPT ![h] = at]
    PROVE  HostViewsAgree'
<1>1. hosts' = IF hosts[h] = NoPort THEN [hosts EXCEPT ![h] = p] ELSE hosts
  BY DEF HandleHostSeen
<1>2. hosts \in [Hosts -> Ports \cup {NoPort}] /\ tracked \in [Hosts -> Location \cup {Nowhere}]
  BY DEF TypeOK, CtlTypeOK, PltTypeOK
<1>3. \A g \in Hosts : g \in nodes' <=> g \in nodes \/ g = h
  BY HostAssumption DEF HandleHostSeen
<1>4. hosts'[h] # NoPort /\ tracked'[h] # Nowhere
  BY <1>1, <1>2, PortsExist
<1>5. \A g \in Hosts \ {h} : hosts'[g] = hosts[g] /\ tracked'[g] = tracked[g]
  BY <1>1, <1>2
<1>6. QED BY <1>3, <1>4, <1>5 DEF HostViewsAgree

LEMMA ReadKeepsHosts ==
    ASSUME TypeOK, HostViewsAgree, NEW c \in Conns, Read(c)
    PROVE  HostViewsAgree'
<1>1. Dpid[c] \in Switches /\ Switches \cap Hosts = {}
  BY SwitchAssumption, HostAssumption
<1>2. CASE ReadFeatures(c) \/ ReadFlowRemoved(c) \/ ReadEof(c) \/ LldpIgnored(c) \/ ReadPacketIn(c)
  BY <1>2, HostsUntouched
     DEF ReadFeatures, ReadFlowRemoved, ReadEof, LldpIgnored, ReadPacketIn, ctlVars,
         HandleFlowRemoved
<1>3. CASE ReadBarrier(c)
  BY <1>1, <1>3, HostsUntouched DEF ReadBarrier, HandleConnectionUp
<1>4. CASE LinkDetected(c)
  <2>1. Head(fromSwitch[c]).link \in Links
    BY <1>4, ReadingTyped, ReportContents DEF LinkDetected, TypeOK
  <2>2. QED
    BY <1>1, <1>4, <2>1, LinkAssumption, HostsUntouched DEF LinkDetected, HandleLinkAdded
<1> DEFINE fr == Head(fromSwitch[c]).frame
           h  == Sender(fr.pkt)
<1>5. ASSUME HostJoins(c) \/ HostMoves(c)
      PROVE  fr.port \in Ports /\ h \in Hosts
  <2>1. fr \in Frames
    BY <1>5, ReadingTyped, ReportContents DEF HostJoins, HostMoves, TypeOK
  <2>2. QED BY <2>1, SenderTyped DEF Frames
<1>6. CASE HostJoins(c)
  <2>1. [sw |-> Dpid[c], port |-> fr.port] \in Location
    BY <1>1, <1>5, <1>6 DEF Location
  <2>2. tracked' = [tracked EXCEPT ![h] = [sw |-> Dpid[c], port |-> fr.port]]
    BY <1>6 DEF HostJoins
  <2>3. HandleHostSeen(h, Dpid[c], fr.port)
    BY <1>6 DEF HostJoins
  <2>4. QED BY <1>1, <1>5, <1>6, <2>1, <2>2, <2>3, HostSeenAgrees
<1>7. CASE HostMoves(c)
  <2>1. tracked[h] \in Location /\ h \in Hosts
    BY <1>5, <1>7 DEF HostMoves, TypeOK, PltTypeOK
  <2>2. tracked' = [tracked EXCEPT ![h] = [tracked[h] EXCEPT !.sw = Dpid[c]]]
    BY <1>7, <2>1 DEF HostMoves, TypeOK, PltTypeOK
  <2>3. [tracked[h] EXCEPT !.sw = Dpid[c]] \in Location
    BY <1>1, <2>1 DEF Location
  <2>4. HandleHostSeen(h, tracked[h].sw, tracked[h].port)
    BY <1>7 DEF HostMoves
  <2>5. tracked[h].sw \in Switches /\ tracked[h].port \in Ports
    BY <2>1 DEF Location
  <2>6. QED BY <2>1, <2>2, <2>3, <2>4, <2>5, HostSeenAgrees
<1>8. QED BY <1>2, <1>3, <1>4, <1>6, <1>7 DEF Read

LEMMA DispatchKeepsHosts ==
    ASSUME TypeOK, HostViewsAgree, Dispatch
    PROVE  HostViewsAgree'
<1>1. CASE RaiseLinkRemoved
  BY <1>1, HostsUntouched DEF RaiseLinkRemoved, HandleLinkRemoved
<1>2. CASE PopLinks
  BY <1>2, HostsUntouched DEF PopLinks, ctlVars
<1>3. CASE DispatchConnectionDown
  <2>1. Dpid[todo.down] \in Switches
    BY <1>3, SwitchAssumption DEF DispatchConnectionDown, TypeOK, PltTypeOK, Calls
  <2>2. QED
    BY <1>3, <2>1, HostAssumption, HostsUntouched
       DEF DispatchConnectionDown, HandleConnectionDown
<1>4. CASE DispatchPacketIn
  BY <1>4, HostsUntouched
     DEF DispatchPacketIn, HandlePacketIn, IgnorePacket, ForwardInstalled, NoPathFound,
         InstallPath, UntouchedByPacketIn
<1>5. QED BY <1>1, <1>2, <1>3, <1>4 DEF Dispatch

LEMMA TimerKeepsHosts ==
    ASSUME TypeOK, HostViewsAgree, Timer
    PROVE  HostViewsAgree'
<1>1. CASE ExpireLinks
  BY <1>1, HostsUntouched DEF ExpireLinks, ctlVars
<1>2. ASSUME NEW h \in Hosts, HostExpires(h)
      PROVE  HostViewsAgree'
  <2>1. hosts' = [hosts EXCEPT ![h] = NoPort] /\ nodes' = nodes \ {h}
    BY <1>2 DEF HostExpires, HandleHostLeft
  <2>2. tracked' = [tracked EXCEPT ![h] = Nowhere]
    BY <1>2 DEF HostExpires
  <2>3. QED BY <2>1, <2>2 DEF HostViewsAgree, TypeOK, CtlTypeOK, PltTypeOK
<1>3. QED BY <1>1, <1>2 DEF Timer, Timeout

LEMMA StepKeepsHosts == TypeOK /\ HostViewsAgree /\ [Next]_vars => HostViewsAgree'
<1> SUFFICES ASSUME TypeOK, HostViewsAgree, [Next]_vars PROVE HostViewsAgree'
  OBVIOUS
<1>1. CASE Thread
  BY <1>1, ReadKeepsHosts, DispatchKeepsHosts DEF Thread
<1>2. CASE Timer
  BY <1>2, TimerKeepsHosts
<1>3. CASE Switch \/ Environment \/ UNCHANGED vars
  BY <1>3, OutsideThread, HostsUntouched DEF ctlVars
<1>4. QED BY <1>1, <1>2, <1>3 DEF Next

\* The controller's graph, its table of hosts and the tracker always name the
\* same hosts.
THEOREM HostsAgree == Spec => []HostViewsAgree
<1>1. Init => HostViewsAgree
  BY DEF Init, CtlInit, PltInit, HostViewsAgree, Nowhere
<1>2. QED BY <1>1, StepKeepsHosts, TypeCorrect, PTL DEF Spec

\* The controller knows the hosts the tracker knows (_handle_HostEvent misses
\* no join and no leave, whatever moves and reconnections come between).
THEOREM HostsMirrored == Spec => []HostsMirrorTracker
<1>1. HostViewsAgree => HostsMirrorTracker
  BY DEF HostViewsAgree, HostsMirrorTracker
<1>2. QED BY <1>1, HostsAgree, PTL

\* A host that a path can end at has a port, so SwitchController.update never
\* raises KeyError in the middle of installing the rules of a path.
THEOREM GraphHostsHavePorts == Spec => []GraphHostHasPort
<1>1. HostViewsAgree => GraphHostHasPort
  BY DEF HostViewsAgree, GraphHostHasPort
<1>2. QED BY <1>1, HostsAgree, PTL

-----------------------------------------------------------------------------
(* Links.                                                                  *)

\* No two cables join the same two switches.
OneCable ==
    \A k, l \in Links : k.dpid1 = l.dpid1 /\ k.dpid2 = l.dpid2 => k = l

\* The links whose removal has not been told to the controller.
Announced == adjacency \ (todo.popped \ todo.removed)

EdgesAnnounced ==
    \A s, t \in Switches :
      <<s, t>> \in edges <=> \E l \in Announced : l.dpid1 = s /\ l.dpid2 = t

PortsAnnounced ==
    /\ \A l \in adjacency : switches[l.dpid1] # NoCon
    /\ \A l \in Announced : neighbour[switches[l.dpid1]][l.dpid2] = l.port1

CallsInOrder ==
    /\ todo.removed \subseteq todo.popped /\ todo.popped \subseteq adjacency
    /\ todo.packet # {} => todo.popped = {}

AllAttached ==
    \A h \in Hosts : tracked[h] # Nowhere =>
      \E s \in Switches : <<h, s>> \in edges /\ <<s, h>> \in edges

Views == EdgesAnnounced /\ PortsAnnounced /\ CallsInOrder /\ AllAttached

GraphInv == SessionsLast => Views

-----------------------------------------------------------------------------
(* The views of the network.                                               *)

\* Steps that concern neither links nor hosts.
LEMMA ViewsUntouched ==
    ASSUME Views, UNCHANGED <<switches, neighbour, edges, adjacency, tracked>>,
           todo'.removed = todo.removed, todo'.popped = todo.popped,
           todo'.packet # {} => todo'.popped = {}
    PROVE  Views'
BY DEF Views, EdgesAnnounced, PortsAnnounced, CallsInOrder, AllAttached, Announced

\* Between events every link of discovery has been announced.
LEMMA IdleAnnounced ==
    ASSUME Idle
    PROVE  /\ todo.removed = {} /\ todo.popped = {} /\ todo.down = NoCon
           /\ Announced = adjacency
BY DEF Idle, Nothing, Announced

LEMMA LinkEnds ==
    ASSUME NEW l \in Links
    PROVE  l.dpid1 \in Switches /\ l.dpid2 \in Switches /\ l.port1 \in Ports /\ l.port1 # NoPort
BY LinkAssumption, PortAssumption

LEMMA LinkDetectedKeepsViews ==
    ASSUME TypeOK, UpRegistered, OneCable, NothingEnds, Views,
           NEW c \in Conns, LinkDetected(c)
    PROVE  Views'
<1> DEFINE l == Head(fromSwitch[c]).link
           d == switches[l.dpid1]
<1>1. l \in Links /\ d # NoCon
  <2>1. Head(fromSwitch[c]) \in Harmless /\ Head(fromSwitch[c]).type = "lldp"
    BY ReadingHarmless DEF LinkDetected, Reading
  <2>2. QED BY <2>1, ReportContents DEF Harmless
<1>2. /\ l \notin adjacency /\ adjacency' = adjacency \cup {l}
      /\ edges' = edges \cup {<<l.dpid1, l.dpid2>>}
      /\ neighbour' = [neighbour EXCEPT ![d][l.dpid2] = l.port1]
      /\ UNCHANGED <<switches, tracked, todo>>
  BY <1>1 DEF LinkDetected, HandleLinkAdded
<1>3. Announced = adjacency /\ Announced' = adjacency \cup {l}
  BY <1>2, IdleAnnounced DEF LinkDetected, Reading, Announced
<1>4. adjacency \subseteq Links /\ d \in Conns /\ Dpid[d] = l.dpid1
  BY <1>1, LinkEnds DEF TypeOK, PltTypeOK, CtlTypeOK, UpRegistered
<1>5. l.dpid1 \in Switches /\ l.dpid2 \in Switches
  BY <1>1, LinkEnds
<1> HIDE DEF l, d
<1>6. EdgesAnnounced'
  <2>1. ASSUME NEW s \in Switches, NEW t \in Switches
        PROVE  <<s, t>> \in edges' <=> \E k \in Announced' : k.dpid1 = s /\ k.dpid2 = t
    <3>1. <<s, t>> \in edges' <=> <<s, t>> \in edges \/ (l.dpid1 = s /\ l.dpid2 = t)
      BY <1>2
    <3>2. <<s, t>> \in edges <=> \E k \in Announced : k.dpid1 = s /\ k.dpid2 = t
      BY DEF Views, EdgesAnnounced
    <3>3. QED BY <1>3, <3>1, <3>2
  <2>2. QED BY <2>1 DEF EdgesAnnounced
<1>7. PortsAnnounced'
  <2>1. \A k \in adjacency' : switches'[k.dpid1] # NoCon
    BY <1>1, <1>2 DEF Views, PortsAnnounced, d
  <2>2. neighbour \in [Conns -> [Switches -> Ports \cup {NoPort}]]
    BY DEF TypeOK, CtlTypeOK
  <2>3. neighbour'[switches[l.dpid1]][l.dpid2] = l.port1
    BY <1>2, <1>4, <1>5, <2>2 DEF d
  <2>4. ASSUME NEW k \in adjacency
        PROVE  neighbour'[switches[k.dpid1]][k.dpid2] = k.port1
    <3>1. neighbour[switches[k.dpid1]][k.dpid2] = k.port1
      BY <1>3 DEF Views, PortsAnnounced
    <3>2. k.dpid1 \in Switches /\ k.dpid2 \in Switches /\ k # l
      BY <1>2, <1>4, LinkEnds
    <3>3. switches[k.dpid1] # NoCon
      BY DEF Views, PortsAnnounced
    <3>4. switches[k.dpid1] = d => k.dpid1 = l.dpid1
      BY <1>4, <3>2, <3>3 DEF UpRegistered
    <3>5. switches[k.dpid1] = d => k.dpid2 # l.dpid2
      BY <1>1, <1>4, <3>2, <3>4 DEF OneCable
    <3>6. switches[k.dpid1] \in Conns
      BY <3>2, <3>3 DEF TypeOK, CtlTypeOK
    <3>7. QED BY <1>2, <1>4, <1>5, <2>2, <3>1, <3>2, <3>5, <3>6
  <2>5. QED BY <1>2, <1>3, <2>1, <2>3, <2>4 DEF PortsAnnounced
<1>8. CallsInOrder' /\ AllAttached'
  BY <1>2 DEF Views, CallsInOrder, AllAttached
<1>9. QED BY <1>6, <1>7, <1>8 DEF Views

LEMMA LinkRemovedKeepsViews ==
    ASSUME TypeOK, UpRegistered, OneCable, Views, RaiseLinkRemoved
    PROVE  Views'
<1>1. PICK l \in todo.removed :
        /\ HandleLinkRemoved(l)
        /\ todo' = [todo EXCEPT !.removed = @ \ {l}]
        /\ UNCHANGED <<conState, nexus, fromSwitch, adjacency, tracked>>
  BY DEF RaiseLinkRemoved
<1> DEFINE d == switches[l.dpid1]
           e == <<l.dpid1, l.dpid2>>
<1>2. adjacency \subseteq Links /\ l \in adjacency /\ l \in Announced
  BY DEF TypeOK, PltTypeOK, Views, CallsInOrder, Announced
<1>3. l \in Links /\ l.dpid1 \in Switches /\ l.dpid2 \in Switches /\ l.port1 # NoPort
  BY <1>2, LinkEnds
<1>4. e \in edges /\ d # NoCon /\ neighbour[d][l.dpid2] = l.port1
  BY <1>2, <1>3 DEF Views, EdgesAnnounced, PortsAnnounced
<1>5. d \in Conns /\ Dpid[d] = l.dpid1
  BY <1>3, <1>4 DEF UpRegistered, TypeOK, CtlTypeOK
<1>6. /\ edges' = edges \ {e}
      /\ neighbour' = [neighbour EXCEPT ![d][l.dpid2] = NoPort]
      /\ UNCHANGED <<switches, adjacency, tracked>>
  BY <1>1, <1>3, <1>4 DEF HandleLinkRemoved
<1>7. todo'.removed = todo.removed \ {l} /\ todo'.popped = todo.popped /\ todo'.packet = todo.packet
  BY <1>1 DEF TypeOK, PltTypeOK, Calls
<1>8. Announced' = Announced \ {l}
  BY <1>6, <1>7 DEF Views, CallsInOrder, Announced
<1>9. Announced \subseteq Links
  BY <1>2 DEF Announced
<1> HIDE DEF d
<1>10. EdgesAnnounced'
  <2>1. ASSUME NEW s \in Switches, NEW t \in Switches
        PROVE  <<s, t>> \in edges' <=> \E k \in Announced' : k.dpid1 = s /\ k.dpid2 = t
    <3>1. <<s, t>> \in edges' <=> <<s, t>> \in edges /\ ~ (l.dpid1 = s /\ l.dpid2 = t)
      BY <1>6
    <3>2. <<s, t>> \in edges <=> \E k \in Announced : k.dpid1 = s /\ k.dpid2 = t
      BY DEF Views, EdgesAnnounced
    <3>3. \A k \in Announced : k.dpid1 = l.dpid1 /\ k.dpid2 = l.dpid2 => k = l
      BY <1>3, <1>9 DEF OneCable
    <3>4. QED BY <1>2, <1>8, <3>1, <3>2, <3>3
  <2>2. QED BY <2>1 DEF EdgesAnnounced
<1>11. PortsAnnounced'
  <2>1. \A k \in adjacency' : switches'[k.dpid1] # NoCon
    BY <1>6 DEF Views, PortsAnnounced
  <2>2. ASSUME NEW k \in Announced \ {l}
        PROVE  neighbour'[switches[k.dpid1]][k.dpid2] = k.port1
    <3>1. k \in adjacency /\ neighbour[switches[k.dpid1]][k.dpid2] = k.port1
      BY DEF Views, PortsAnnounced, Announced
    <3>2. k.dpid1 \in Switches /\ k.dpid2 \in Switches /\ k # l
      BY <1>9, LinkEnds
    <3>3. switches[k.dpid1] # NoCon
      BY <3>1 DEF Views, PortsAnnounced
    <3>4. switches[k.dpid1] = d => k.dpid1 = l.dpid1
      BY <1>5, <3>2, <3>3 DEF UpRegistered
    <3>5. switches[k.dpid1] = d => k.dpid2 # l.dpid2
      BY <1>3, <1>9, <3>2, <3>4 DEF OneCable
    <3>6. switches[k.dpid1] \in Conns
      BY <3>2, <3>3 DEF TypeOK, CtlTypeOK
    <3>7. neighbour \in [Conns -> [Switches -> Ports \cup {NoPort}]]
      BY DEF TypeOK, CtlTypeOK
    <3>8. QED BY <1>3, <1>5, <1>6, <3>1, <3>2, <3>5, <3>6, <3>7
  <2>3. QED BY <1>6, <1>8, <2>1, <2>2 DEF PortsAnnounced
<1>12. CallsInOrder'
  BY <1>6, <1>7 DEF Views, CallsInOrder
<1>13. AllAttached'
  BY <1>3, <1>6, HostAssumption DEF Views, AllAttached
<1>14. QED BY <1>10, <1>11, <1>12, <1>13 DEF Views

LEMMA HostSeenKeepsViews ==
    ASSUME TypeOK, HostViewsAgree, Views, Idle,
           NEW h \in Hosts, NEW s \in Switches, NEW p, HandleHostSeen(h, s, p),
           NEW at, tracked' = [tracked EXCEPT ![h] = at],
           UNCHANGED adjacency,
           todo'.removed = {}, todo'.popped = {}
    PROVE  Views'
<1>1. UNCHANGED <<switches, neighbour>> /\ edges \subseteq edges'
      /\ edges' \subseteq edges \cup {<<h, s>>, <<s, h>>}
  BY DEF HandleHostSeen
<1>2. Announced' = Announced
  BY IdleAnnounced DEF Announced
<1>3. h \notin Switches
  BY HostAssumption
<1>4. EdgesAnnounced' /\ PortsAnnounced' /\ CallsInOrder'
  BY <1>1, <1>2, <1>3 DEF Views, EdgesAnnounced, PortsAnnounced, CallsInOrder
<1>5. AllAttached'
  <2>1. \A g \in Hosts \ {h} : tracked'[g] = tracked[g]
    BY DEF TypeOK, PltTypeOK
  <2>2. \E t \in Switches : <<h, t>> \in edges' /\ <<t, h>> \in edges'
    <3>1. CASE h \in nodes
      BY <1>1, <3>1 DEF HostViewsAgree, Views, AllAttached
    <3>2. CASE h \notin nodes
      BY <3>2 DEF HandleHostSeen
    <3>3. QED BY <3>1, <3>2
  <2>3. QED BY <1>1, <2>1, <2>2 DEF Views, AllAttached
<1>6. QED BY <1>4, <1>5 DEF Views

LEMMA HostExpiresKeepsViews ==
    ASSUME TypeOK, Views, NEW h \in Hosts, HostExpires(h)
    PROVE  Views'
<1>1. /\ edges' = { e \in edges : e[1] # h /\ e[2] # h }
      /\ tracked' = [tracked EXCEPT ![h] = Nowhere]
      /\ UNCHANGED <<switches, neighbour, adjacency, todo>>
  BY DEF HostExpires, HandleHostLeft, EdgesWithout
<1>2. h \notin Switches
  BY HostAssumption
<1>3. EdgesAnnounced' /\ PortsAnnounced' /\ CallsInOrder'
  BY <1>1, <1>2 DEF Views, EdgesAnnounced, PortsAnnounced, CallsInOrder, Announced
<1>4. AllAttached'
  BY <1>1, HostAssumption DEF Views, AllAttached, TypeOK, PltTypeOK
<1>5. QED BY <1>3, <1>4 DEF Views

\* The steps of the controller's thread.
LEMMA ReadKeepsViews ==
    ASSUME TypeOK, HandshakeInv, HostViewsAgree, UpRegistered, OneCable, SessionsLast,
           NothingEnds, Views, NEW c \in Conns, Read(c)
    PROVE  Views'
<1>1. \A t : Reading(c, t) => Idle /\ todo.packet = {} /\ Head(fromSwitch[c]) \in Harmless
  BY ReadingHarmless DEF Reading, Idle, Nothing
<1>2. Dpid[c] \in Switches
  BY SwitchAssumption
<1>3. CASE ReadFeatures(c) \/ ReadFlowRemoved(c) \/ LldpIgnored(c)
  <2>1. /\ UNCHANGED <<switches, neighbour, edges, adjacency, tracked, todo>>
        /\ todo.packet = {}
    BY <1>1, <1>3 DEF ReadFeatures, ReadFlowRemoved, HandleFlowRemoved, LldpIgnored, ctlVars
  <2>2. QED BY <2>1, ViewsUntouched
<1>4. CASE ReadBarrier(c)
  <2>1. conState[c] = "connecting" /\ Idle /\ todo.packet = {}
    BY <1>1, <1>4 DEF ReadBarrier, FinishConnecting
  <2>2. c \notin unused
    BY <2>1 DEF HandshakeInv, SessionsOwned
  <2>3. CASE switches' = switches /\ neighbour' = neighbour
    <3>1. UNCHANGED <<edges, adjacency, tracked, todo>>
      BY <1>4 DEF ReadBarrier, HandleConnectionUp
    <3>2. QED BY <2>1, <2>3, <3>1, ViewsUntouched
  <2>4. CASE c \notin connections
    <3> DEFINE s == Dpid[c]
    <3>1. /\ switches' = [switches EXCEPT ![s] = c]
          /\ neighbour' = [neighbour EXCEPT ![c] = NoNeighbours]
          /\ UNCHANGED <<edges, adjacency, tracked, todo>>
      BY <1>4, <2>4 DEF ReadBarrier, HandleConnectionUp
    <3>2. switches[s] = NoCon
      <4>1. SUFFICES ASSUME switches[s] # NoCon PROVE FALSE
        OBVIOUS
      <4>2. switches[s] \in Conns /\ Dpid[switches[s]] = s
        BY <1>2, <4>1 DEF UpRegistered, TypeOK, CtlTypeOK
      <4>3. conState[switches[s]] \in {"connected", "closed"}
        BY <1>2, <4>1 DEF HandshakeInv, HandlesSettled, Settled
      <4>4. switches[s] \notin unused
        BY <4>3 DEF HandshakeInv, SessionsOwned
      <4>5. session[s] = c /\ session[s] = switches[s]
        BY <2>2, <4>2, <4>4 DEF SessionsLast, Online
      <4>6. QED BY <2>1, <4>3, <4>5
    <3>3. \A t \in Switches : switches[t] # NoCon => switches'[t] = switches[t] /\ switches[t] # c
      BY <1>2, <3>1, <3>2 DEF UpRegistered, TypeOK, CtlTypeOK
    <3>4. adjacency \subseteq Links
      BY DEF TypeOK, PltTypeOK
    <3>5. Announced' = Announced /\ Announced \subseteq adjacency
      BY <3>1 DEF Announced
    <3>6. \A l \in adjacency : /\ l.dpid1 \in Switches
                               /\ switches[l.dpid1] # NoCon /\ switches[l.dpid1] \in Conns
      BY <3>4, LinkEnds DEF Views, PortsAnnounced, TypeOK, CtlTypeOK
    <3>7. PortsAnnounced'
      <4>1. neighbour \in [Conns -> [Switches -> Ports \cup {NoPort}]]
        BY DEF TypeOK, CtlTypeOK
      <4>2. \A d \in Conns \ {c} : neighbour'[d] = neighbour[d]
        BY <3>1, <4>1
      <4>3. QED BY <3>1, <3>3, <3>5, <3>6, <4>2, SwitchAssumption DEF Views, PortsAnnounced
    <3>8. EdgesAnnounced' /\ CallsInOrder' /\ AllAttached'
      BY <3>1, <3>5 DEF Views, EdgesAnnounced, CallsInOrder, AllAttached
    <3>9. QED BY <3>7, <3>8 DEF Views
  <2>5. QED BY <1>4, <2>3, <2>4 DEF ReadBarrier, HandleConnectionUp
<1>5. CASE ReadEof(c)
  BY <1>1, <1>5 DEF ReadEof, Reading, Harmless
<1>6. CASE LinkDetected(c)
  BY <1>6, LinkDetectedKeepsViews
<1>7. CASE ReadPacketIn(c)
  <2>1. UNCHANGED <<switches, neighbour, edges, adjacency, tracked>>
    BY <1>7 DEF ReadPacketIn, ctlVars
  <2>2. Idle /\ todo'.removed = {} /\ todo'.popped = {}
    BY <1>1, <1>7, CallAlone DEF ReadPacketIn
  <2>3. QED BY <2>1, <2>2, IdleAnnounced, ViewsUntouched
<1>8. CASE HostJoins(c) \/ HostMoves(c)
  <2> DEFINE fr == Head(fromSwitch[c]).frame
             h  == Sender(fr.pkt)
  <2>1. fr \in Frames
    BY <1>8, ReadingTyped, ReportContents DEF HostJoins, HostMoves, TypeOK
  <2>2. h \in Hosts
    BY <2>1, SenderTyped DEF Frames
  <2>3. \E s \in Switches : \E p, at : HandleHostSeen(h, s, p) /\ tracked' = [tracked EXCEPT ![h] = at]
    <3>1. CASE HostJoins(c)
      BY <1>2, <3>1 DEF HostJoins
    <3>2. CASE HostMoves(c)
      <4>1. tracked[h].sw \in Switches
        BY <2>2, <3>2 DEF HostMoves, TypeOK, PltTypeOK, Location
      <4>2. tracked' = [tracked EXCEPT ![h] = [tracked[h] EXCEPT !.sw = Dpid[c]]]
        BY <2>2, <3>2 DEF HostMoves, TypeOK, PltTypeOK
      <4>3. QED BY <3>2, <4>1, <4>2 DEF HostMoves
    <3>3. QED BY <1>8, <3>1, <3>2
  <2>4. adjacency' = adjacency
    BY <1>8 DEF HostJoins, HostMoves
  <2>5. Idle /\ todo'.removed = {} /\ todo'.popped = {}
    BY <1>1, <1>8, CallAlone DEF HostJoins, HostMoves
  <2>6. QED BY <2>2, <2>3, <2>4, <2>5, HostSeenKeepsViews
<1>9. QED BY <1>3, <1>4, <1>5, <1>6, <1>7, <1>8 DEF Read

LEMMA DispatchKeepsViews ==
    ASSUME TypeOK, UpRegistered, OneCable, NothingEnds, Views, Dispatch
    PROVE  Views'
<1>1. CASE RaiseLinkRemoved
  BY <1>1, LinkRemovedKeepsViews
<1>2. CASE PopLinks
  <2>1. /\ todo.removed = {} /\ adjacency' = adjacency \ todo.popped
        /\ UNCHANGED <<switches, neighbour, edges, fromSwitch, tracked>>
        /\ todo'.removed = {} /\ todo'.popped = {} /\ todo'.down = todo.down
    BY <1>2 DEF PopLinks, ctlVars, TypeOK, PltTypeOK, Calls
  <2>2. Announced' = Announced /\ adjacency' \subseteq adjacency
    BY <2>1 DEF Announced
  <2>3. QED
    BY <2>1, <2>2 DEF Views, EdgesAnnounced, PortsAnnounced, CallsInOrder, AllAttached
<1>3. CASE DispatchConnectionDown
  BY <1>3 DEF DispatchConnectionDown, NothingEnds
<1>4. CASE DispatchPacketIn
  <2>1. /\ UNCHANGED <<switches, neighbour, edges, adjacency, tracked>>
        /\ todo.packet # {} /\ todo' = Nothing
    BY <1>4 DEF DispatchPacketIn, HandlePacketIn, IgnorePacket, ForwardInstalled, NoPathFound,
                InstallPath, UntouchedByPacketIn
  <2>2. /\ todo.removed = {} /\ todo.popped = {} /\ todo'.removed = {} /\ todo'.popped = {}
        /\ todo'.packet = {}
    BY <2>1 DEF Views, CallsInOrder, Nothing
  <2>3. QED BY <2>1, <2>2, ViewsUntouched
<1>5. QED BY <1>1, <1>2, <1>3, <1>4 DEF Dispatch

LEMMA TimerKeepsViews ==
    ASSUME TypeOK, Views, Timer
    PROVE  Views'
<1>1. CASE ExpireLinks
  <2>1. PICK expired \in SUBSET (adjacency \cap FlakyLinks) :
          todo' = [Nothing EXCEPT !.removed = expired, !.popped = expired]
    BY <1>1 DEF ExpireLinks
  <2>2. Idle /\ UNCHANGED <<switches, neighbour, edges, adjacency, tracked>>
    BY <1>1 DEF ExpireLinks, ctlVars
  <2>3. todo'.removed = expired /\ todo'.popped = expired /\ todo'.packet = {}
    BY <2>1 DEF Nothing
  <2>4. Announced' = Announced
    BY <2>2, <2>3, IdleAnnounced DEF Announced
  <2>5. QED
    BY <2>2, <2>3, <2>4 DEF Views, EdgesAnnounced, PortsAnnounced, CallsInOrder, AllAttached
<1>2. ASSUME NEW h \in Hosts, HostExpires(h)
      PROVE  Views'
  BY <1>2, HostExpiresKeepsViews
<1>3. QED BY <1>1, <1>2 DEF Timer, Timeout

LEMMA StepKeepsGraph ==
    ASSUME TypeOK, HandshakeInv, HostViewsAgree, UpRegistered, OneCable,
           SessionsLast => NothingEnds, GraphInv, [Next]_vars
    PROVE  GraphInv'
<1> SUFFICES ASSUME SessionsLast' PROVE Views'
  BY DEF GraphInv
<1>1. SessionsLast /\ NothingEnds /\ Views
  BY NoneLost DEF HandshakeInv, GraphInv
<1>2. CASE Thread
  BY <1>1, <1>2, ReadKeepsViews, DispatchKeepsViews DEF Thread
<1>3. CASE Timer
  BY <1>1, <1>3, TimerKeepsViews
<1>4. CASE Switch \/ Environment \/ UNCHANGED vars
  BY <1>1, <1>4, OutsideThread, OutsideCalls, ViewsUntouched DEF ctlVars, Views, CallsInOrder
<1>5. QED BY <1>2, <1>3, <1>4 DEF Next

LEMMA GraphInvHolds == OneCable /\ Spec => []GraphInv
<1>1. SUFFICES ASSUME OneCable PROVE Spec => []GraphInv
  OBVIOUS
<1>2. Init => GraphInv
  BY DEF Init, ConnInit, CtlInit, PltInit, GraphInv, Views, EdgesAnnounced, PortsAnnounced,
         CallsInOrder, AllAttached, Announced, Nothing
<1>3. TypeOK /\ HandshakeInv /\ HostViewsAgree /\ UpRegistered /\ (SessionsLast => NothingEnds)
        /\ GraphInv /\ [Next]_vars => GraphInv'
  BY <1>1, StepKeepsGraph
<1>4. QED
  BY <1>2, <1>3, HandshakeHolds, HostsAgree, RegisteredHolds, NothingEndsHolds, TypeCorrect, PTL
     DEF Spec

\* As long as no session is lost, the controller's graph has an edge exactly
\* for the links discovery holds, each with its port, between any two events:
\* _handle_LinkEvent misses no link and forgets none, in whatever order links
\* are found and expire.
THEOREM GraphMirrors == OneCable /\ Spec => []GraphMirrorsDiscovery
<1>1. TypeOK /\ GraphInv => GraphMirrorsDiscovery
  <2> SUFFICES ASSUME TypeOK, GraphInv, Idle, SessionsLast
               PROVE  /\ edges \cap (Switches \X Switches)
                           = { <<l.dpid1, l.dpid2>> : l \in adjacency }
                      /\ \A l \in adjacency :
                           /\ switches[l.dpid1] # NoCon
                           /\ neighbour[switches[l.dpid1]][l.dpid2] = l.port1
    BY DEF GraphMirrorsDiscovery
  <2>1. Announced = adjacency /\ Views
    BY IdleAnnounced DEF GraphInv
  <2>2. \A l \in adjacency : l.dpid1 \in Switches /\ l.dpid2 \in Switches
    BY LinkEnds DEF TypeOK, PltTypeOK
  <2>3. QED BY <2>1, <2>2 DEF Views, EdgesAnnounced, PortsAnnounced
<1>2. QED BY <1>1, GraphInvHolds, TypeCorrect, PTL

\* As long as no session is lost, every host the tracker knows is attached to
\* the graph in both directions, whatever links and hosts come and go.
THEOREM HostsAttached == OneCable /\ Spec => []KnownHostAttached
<1>1. GraphInv => KnownHostAttached
  BY DEF GraphInv, Views, AllAttached, KnownHostAttached
<1>2. QED BY <1>1, GraphInvHolds, PTL

-----------------------------------------------------------------------------
(* Rules that are to go.                                                   *)

\* No two flows have the same flow_id: a crc32 collision would leave the rules
\* of one flow behind the entry of the other.
OneId == \A f, g \in Flows : FlowId[f] = FlowId[g] => f = g

\* Messages that delete the rule of f, whatever it is, and that add one.
Drops(m, f) == m.type = "clear" \/ (m.type = "del_flow" /\ m.flow = f)
Adds(m, f)  == m.type = "add" /\ m.flow = f

\* A switch whose rule for f has this port has none when it has read q.
Withdrawn(q, port, f) ==
    /\ port # NoPort => \E i \in 1 .. Len(q) : Drops(q[i], f)
    /\ \A i \in 1 .. Len(q) :
         Adds(q[i], f) => \E j \in i + 1 .. Len(q) : Drops(q[j], f)

\* Sessions that are in use, and not lost, are open.
NoneClosed == \A c \in Conns : conState[c] # "closed"

\* A switch has no rules before its ConnectionUp.
FreshTables ==
    \A s \in Switches :
      (session[s] = NoCon \/ conState[session[s]] # "connected") => table[s] = NoRules

\* The rules of a flow that is not marked installed are on their way out.
RulesWithdrawn ==
    \A c \in Conns, f \in Flows :
      Online(c) /\ ~ Installed(f) => Withdrawn(toSwitch[c], table[Dpid[c]][f], f)

RuleInv == SessionsLast => NoneClosed /\ FreshTables /\ RulesWithdrawn

\* Messages that follow and add no rule for f change nothing ...
LEMMA WithdrawnAppend ==
    ASSUME NEW q \in Seq(Messages), NEW r \in Seq(Messages), NEW port, NEW f,
           Withdrawn(q, port, f), \A i \in 1 .. Len(r) : ~ Adds(r[i], f)
    PROVE  Withdrawn(q \o r, port, f)
<1> DEFINE s == q \o r
<1>1. /\ Len(s) = Len(q) + Len(r) /\ Len(q) \in Nat /\ Len(r) \in Nat
      /\ \A i \in 1 .. Len(q) : s[i] = q[i]
      /\ \A i \in Len(q) + 1 .. Len(s) : s[i] = r[i - Len(q)]
  OBVIOUS
<1> HIDE DEF s
<1>2. port # NoPort => \E i \in 1 .. Len(s) : Drops(s[i], f)
  BY <1>1 DEF Withdrawn
<1>3. ASSUME NEW i \in 1 .. Len(s), Adds(s[i], f)
      PROVE  \E j \in i + 1 .. Len(s) : Drops(s[j], f)
  <2>1. i \in 1 .. Len(q)
    <3>1. SUFFICES ASSUME i \notin 1 .. Len(q) PROVE FALSE
      OBVIOUS
    <3>2. i \in Len(q) + 1 .. Len(s) /\ i - Len(q) \in 1 .. Len(r)
      BY <1>1, <3>1
    <3>3. QED BY <1>1, <1>3, <3>2
  <2>2. PICK j \in i + 1 .. Len(q) : Drops(q[j], f)
    BY <1>1, <1>3, <2>1 DEF Withdrawn
  <2>3. j \in i + 1 .. Len(s) /\ s[j] = q[j]
    BY <1>1, <2>1, <2>2
  <2>4. QED BY <2>2, <2>3
<1>4. QED BY <1>2, <1>3 DEF Withdrawn, s

\* ... and one that deletes the rule settles it.
LEMMA WithdrawnByDelete ==
    ASSUME NEW q \in Seq(Messages), NEW m \in Messages, NEW port, NEW f, Drops(m, f), ~ Adds(m, f)
    PROVE  Withdrawn(q \o <<m>>, port, f)
<1> DEFINE s == q \o <<m>>
<1>1. /\ Len(s) = Len(q) + 1 /\ Len(q) \in Nat /\ s[Len(s)] = m
  OBVIOUS
<1> HIDE DEF s
<1>2. Len(s) \in 1 .. Len(s)
  BY <1>1
<1>3. ASSUME NEW i \in 1 .. Len(s), Adds(s[i], f)
      PROVE  \E j \in i + 1 .. Len(s) : Drops(s[j], f)
  <2>1. i # Len(s)
    BY <1>1, <1>3
  <2>2. Len(s) \in i + 1 .. Len(s)
    BY <1>1, <2>1
  <2>3. QED BY <1>1, <2>2
<1>4. QED BY <1>1, <1>2, <1>3 DEF Withdrawn, s

\* What the switch does with a message, the rest of the queue undoes.
LEMMA WithdrawnTail ==
    ASSUME NEW q \in Seq(Messages), q # <<>>, NEW port, NEW new, NEW f,
           Withdrawn(q, port, f),
           Drops(Head(q), f) => new = NoPort,
           new # NoPort => Adds(Head(q), f) \/ new = port
    PROVE  Withdrawn(Tail(q), new, f)
<1> DEFINE r == Tail(q)
<1>1. /\ Len(q) \in Nat \ {0} /\ Len(r) = Len(q) - 1 /\ Head(q) = q[1]
      /\ \A i \in 1 .. Len(r) : r[i] = q[i + 1]
  OBVIOUS
<1> HIDE DEF r
<1>2. ASSUME new # NoPort
      PROVE  \E i \in 1 .. Len(r) : Drops(r[i], f)
  <2>1. \E i \in 2 .. Len(q) : Drops(q[i], f)
    <3>1. CASE Adds(Head(q), f)
      <4>1. \E j \in 1 + 1 .. Len(q) : Drops(q[j], f)
        BY <1>1, <3>1 DEF Withdrawn
      <4>2. QED BY <4>1
    <3>2. CASE new = port
      <4>1. PICK i \in 1 .. Len(q) : Drops(q[i], f)
        BY <1>2, <3>2 DEF Withdrawn
      <4>2. i # 1
        BY <1>1, <1>2, <4>1
      <4>3. QED BY <1>1, <4>1, <4>2
    <3>3. QED BY <1>2, <3>1, <3>2
  <2>2. PICK i \in 2 .. Len(q) : Drops(q[i], f)
    BY <2>1
  <2>3. i - 1 \in 1 .. Len(r) /\ r[i - 1] = q[i]
    BY <1>1, <2>2
  <2>4. QED BY <2>2, <2>3
<1>3. ASSUME NEW i \in 1 .. Len(r), Adds(r[i], f)
      PROVE  \E j \in i + 1 .. Len(r) : Drops(r[j], f)
  <2>1. i + 1 \in 1 .. Len(q) /\ r[i] = q[i + 1]
    BY <1>1
  <2>2. PICK j \in i + 2 .. Len(q) : Drops(q[j], f)
    <3>1. \E j \in (i + 1) + 1 .. Len(q) : Drops(q[j], f)
      BY <1>3, <2>1 DEF Withdrawn
    <3>2. QED BY <3>1
  <2>3. j - 1 \in i + 1 .. Len(r) /\ r[j - 1] = q[j]
    BY <1>1, <2>2
  <2>4. QED BY <2>2, <2>3
<1>4. QED BY <1>2, <1>3 DEF Withdrawn, r

\* No rule is added or read, and no flow forgotten.
LEMMA RulesUntouched ==
    ASSUME NoneClosed, FreshTables, RulesWithdrawn,
           UNCHANGED <<conState, session, table>>,
           \A f \in Flows : Installed(f) => Installed(f)',
           \A c \in Conns : Online(c) => toSwitch'[c] = toSwitch[c]
    PROVE  NoneClosed' /\ FreshTables' /\ RulesWithdrawn'
<1>1. NoneClosed' /\ FreshTables'
  BY DEF NoneClosed, FreshTables, NoRules
<1>2. \A c \in Conns : Online(c)' <=> Online(c)
  BY DEF Online
<1>3. QED BY <1>1, <1>2 DEF RulesWithdrawn

\* A write that adds no rule for f leaves its rule withdrawn.
LEMMA SendKeepsWithdrawn ==
    ASSUME TypeOK, NEW out \in [Conns -> Seq(Messages)], Send(out), NEW c \in Conns, NEW f \in Flows,
           NEW port, Withdrawn(toSwitch[c], port, f), \A i \in 1 .. Len(out[c]) : ~ Adds(out[c][i], f)
    PROVE  Withdrawn(toSwitch'[c], port, f)
<1>1. toSwitch[c] \in Seq(Messages) /\ out[c] \in Seq(Messages)
  BY DEF TypeOK, ConnTypeOK
<1>2. toSwitch'[c] = toSwitch[c] \/ toSwitch'[c] = toSwitch[c] \o out[c]
  BY DEF Send
<1>3. QED BY <1>1, <1>2, WithdrawnAppend

\* A write that adds no rule of a flow that is not installed.
LEMMA SendKeepsRules ==
    ASSUME TypeOK, NoneClosed, FreshTables, RulesWithdrawn,
           UNCHANGED <<conState, session, table>>,
           \A f \in Flows : Installed(f) => Installed(f)',
           NEW out \in [Conns -> Seq(Messages)], Send(out),
           \A c \in Conns, f \in Flows : ~ Installed(f)' =>
             \A i \in 1 .. Len(out[c]) : ~ Adds(out[c][i], f)
    PROVE  NoneClosed' /\ FreshTables' /\ RulesWithdrawn'
<1>1. NoneClosed' /\ FreshTables'
  BY DEF NoneClosed, FreshTables, NoRules
<1>2. ASSUME NEW c \in Conns, NEW f \in Flows, Online(c)', ~ Installed(f)'
      PROVE  Withdrawn(toSwitch'[c], table[Dpid[c]][f], f)
  <2>1. Online(c) /\ ~ Installed(f)
    BY <1>2 DEF Online
  <2>2. QED BY <1>2, <2>1, SendKeepsWithdrawn DEF RulesWithdrawn
<1>3. QED BY <1>1, <1>2 DEF RulesWithdrawn

\* The SwitchController of a switch that is up is that of its session.
LEMMA UpIsRegistered ==
    ASSUME TypeOK, HandshakeInv, UpRegistered, SessionsLast,
           NEW c \in Conns, conState[c] = "connected"
    PROVE  switches[Dpid[c]] = c
<1>1. Dpid[c] \in Switches /\ switches[Dpid[c]] # NoCon
  BY SwitchAssumption DEF UpRegistered
<1> DEFINE d == switches[Dpid[c]]
<1>2. d \in Conns /\ Dpid[d] = Dpid[c] /\ conState[d] \in Settled
  BY <1>1 DEF TypeOK, CtlTypeOK, UpRegistered, HandshakeInv, HandlesSettled
<1>3. d \notin unused /\ c \notin unused
  BY <1>2 DEF HandshakeInv, SessionsOwned, Settled
<1>4. QED BY <1>2, <1>3 DEF SessionsLast, Online

\* Before its ConnectionUp no rule is in a switch or on its way there.
LEMMA NothingBeforeUp ==
    ASSUME TypeOK, HandshakeInv, NoneClosed, FreshTables,
           NEW c \in Conns, Online(c), conState[c] # "connected", NEW f \in Flows
    PROVE  Withdrawn(toSwitch[c], table[Dpid[c]][f], f)
<1>1. conState[c] \in {"new", "connecting"} /\ Dpid[c] \in Switches
  BY SwitchAssumption DEF TypeOK, ConnTypeOK, NoneClosed
<1>2. table[Dpid[c]][f] = NoPort
  BY <1>1 DEF Online, FreshTables, NoRules
<1>3. toSwitch[c] \in {<<>>, <<BarrierRequest>>, <<ClearRules, BarrierRequest>>}
  BY <1>1 DEF HandshakeInv, HandshakeAlone
<1>4. \A i \in 1 .. Len(toSwitch[c]) : ~ Adds(toSwitch[c][i], f)
  <2>1. CASE toSwitch[c] = <<>>
    BY <2>1
  <2>2. CASE toSwitch[c] = <<BarrierRequest>>
    BY <2>2 DEF BarrierRequest, Adds
  <2>3. CASE toSwitch[c] = <<ClearRules, BarrierRequest>>
    <3>1. Len(toSwitch[c]) = 2 /\ toSwitch[c][1] = ClearRules /\ toSwitch[c][2] = BarrierRequest
      BY <2>3
    <3>2. \A i \in 1 .. Len(toSwitch[c]) : i = 1 \/ i = 2
      BY <3>1
    <3>3. QED BY <3>1, <3>2 DEF BarrierRequest, ClearRules, Adds
  <2>4. QED BY <1>3, <2>1, <2>2, <2>3
<1>5. QED BY <1>2, <1>4 DEF Withdrawn

\* _handle_flow_removal forgets the flow and withdraws its rule from every
\* switch that is up; the others have none.
LEMMA FlowRemovedWithdraws ==
    ASSUME TypeOK, HandshakeInv, UpRegistered, SessionsLast, OneId,
           NoneClosed, FreshTables, RulesWithdrawn,
           NEW f \in Flows, HandleFlowRemoved(f), UNCHANGED <<conState, session, table>>
    PROVE  NoneClosed' /\ FreshTables' /\ RulesWithdrawn'
<1> DEFINE out == [c \in Conns |-> IF \E s \in Switches : switches[s] = c
                                   THEN <<DeleteByFlow(f)>> ELSE <<>>]
<1>1. out \in [Conns -> Seq(Messages)] /\ Send(out)
  BY MessagesTyped DEF HandleFlowRemoved
<1>2. NoneClosed' /\ FreshTables'
  BY DEF NoneClosed, FreshTables, NoRules
<1>3. \A c \in Conns : \A i \in 1 .. Len(out[c]) : out[c][i] = DeleteByFlow(f)
  OBVIOUS
<1>4. \A c \in Conns, g \in Flows : \A i \in 1 .. Len(out[c]) : ~ Adds(out[c][i], g)
  BY <1>3 DEF DeleteByFlow, Adds
<1>5. ASSUME NEW c \in Conns, Online(c)
      PROVE  Withdrawn(toSwitch'[c], table[Dpid[c]][f], f)
  <2>1. CASE conState[c] = "connected"
    <3>1. Dpid[c] \in Switches /\ switches[Dpid[c]] = c
      BY <2>1, UpIsRegistered, SwitchAssumption
    <3>2. out[c] = <<DeleteByFlow(f)>>
      BY <3>1
    <3>3. toSwitch'[c] = toSwitch[c] \o <<DeleteByFlow(f)>>
      BY <1>1, <3>2 DEF Send, NoneClosed
    <3>4. toSwitch[c] \in Seq(Messages) /\ DeleteByFlow(f) \in Messages
      BY MessagesTyped DEF TypeOK, ConnTypeOK
    <3>5. Drops(DeleteByFlow(f), f) /\ ~ Adds(DeleteByFlow(f), f)
      BY DEF DeleteByFlow, Drops, Adds
    <3>6. QED BY <3>3, <3>4, <3>5, WithdrawnByDelete
  <2>2. CASE conState[c] # "connected"
    <3>1. Withdrawn(toSwitch[c], table[Dpid[c]][f], f)
      BY <1>5, <2>2, NothingBeforeUp
    <3> HIDE DEF out
    <3>2. QED BY <1>1, <1>4, <3>1, SendKeepsWithdrawn
  <2>3. QED BY <2>1, <2>2
<1>6. ASSUME NEW c \in Conns, NEW g \in Flows, Online(c)', ~ Installed(g)'
      PROVE  Withdrawn(toSwitch'[c], table[Dpid[c]][g], g)
  <2>1. Online(c)
    BY <1>6 DEF Online
  <2>2. CASE g = f
    BY <1>5, <2>1, <2>2
  <2>3. CASE g # f
    <3>1. FlowId[g] # FlowId[f] /\ FlowId[g] \in FlowIds
      BY <2>3, FlowAssumption DEF OneId
    <3>2. ~ Installed(g)
      BY <1>6, <3>1 DEF HandleFlowRemoved, Installed, TypeOK, CtlTypeOK
    <3>3. Withdrawn(toSwitch[c], table[Dpid[c]][g], g)
      BY <2>1, <3>2 DEF RulesWithdrawn
    <3> HIDE DEF out
    <3>4. QED BY <1>1, <1>4, <3>3, SendKeepsWithdrawn
  <2>4. QED BY <2>2, <2>3
<1>7. QED BY <1>2, <1>6 DEF RulesWithdrawn

-----------------------------------------------------------------------------
(* The steps.                                                              *)

\* The handshake writes what deletes every rule.
LEMMA ReadFeaturesKeepsRules ==
    ASSUME TypeOK, NoneClosed, FreshTables, RulesWithdrawn,
           NEW c \in Conns, ReadFeatures(c), UNCHANGED depVars
    PROVE  NoneClosed' /\ FreshTables' /\ RulesWithdrawn'
<1> DEFINE out == [Silence EXCEPT ![c] = <<ClearRules, BarrierRequest>>]
<1>1. /\ conState[c] = "new" /\ conState' = [conState EXCEPT ![c] = "connecting"]
      /\ Send(out) /\ out \in [Conns -> Seq(Messages)]
      /\ UNCHANGED <<flows, session, table>>
  BY HandshakeTyped DEF ReadFeatures, FeaturesReply, ctlVars, depVars
<1>2. \A d \in Conns : conState'[d] = IF d = c THEN "connecting" ELSE conState[d]
  BY <1>1 DEF TypeOK, ConnTypeOK
<1>3. NoneClosed'
  BY <1>2 DEF NoneClosed
<1>4. FreshTables'
  <2> SUFFICES ASSUME NEW s \in Switches, session[s] = NoCon \/ conState'[session[s]] # "connected"
               PROVE  table[s] = NoRules
    BY <1>1 DEF FreshTables, NoRules
  <2>1. session[s] = NoCon \/ conState[session[s]] # "connected"
    BY <1>1, <1>2 DEF TypeOK, DepTypeOK
  <2>2. QED BY <2>1 DEF FreshTables
<1>5. ASSUME NEW d \in Conns, NEW f \in Flows
      PROVE  \A i \in 1 .. Len(out[d]) : ~ Adds(out[d][i], f)
  <2>1. CASE d = c
    <3>1. out[d] = <<ClearRules, BarrierRequest>>
      BY <2>1 DEF Silence
    <3>2. \A i \in 1 .. Len(out[d]) : out[d][i] = ClearRules \/ out[d][i] = BarrierRequest
      <4>1. Len(out[d]) = 2 /\ out[d][1] = ClearRules /\ out[d][2] = BarrierRequest
        BY <3>1
      <4> HIDE DEF out
      <4>2. \A i \in 1 .. 2 : i = 1 \/ i = 2
        OBVIOUS
      <4>3. QED BY <4>1, <4>2
    <3>3. QED BY <3>2 DEF Adds, ClearRules, BarrierRequest
  <2>2. CASE d # c
    BY <2>2 DEF Silence
  <2>3. QED BY <2>1, <2>2
<1> HIDE DEF out
<1>6. ASSUME NEW d \in Conns, NEW f \in Flows, Online(d)', ~ Installed(f)'
      PROVE  Withdrawn(toSwitch'[d], table[Dpid[d]][f], f)
  <2>1. Online(d) /\ ~ Installed(f)
    BY <1>1, <1>6 DEF Online, Installed
  <2>2. QED BY <1>1, <1>5, <2>1, SendKeepsWithdrawn DEF RulesWithdrawn
<1>7. RulesWithdrawn'
  BY <1>1, <1>6 DEF RulesWithdrawn
<1>8. QED BY <1>3, <1>4, <1>7

LEMMA ReadKeepsRules ==
    ASSUME TypeOK, HandshakeInv, UpRegistered, SessionsLast, OneId, NothingEnds,
           NoneClosed, FreshTables, RulesWithdrawn,
           NEW c \in Conns, Read(c), UNCHANGED depVars
    PROVE  NoneClosed' /\ FreshTables' /\ RulesWithdrawn'
<1>1. UNCHANGED <<session, table>>
  BY DEF depVars
<1>2. CASE ReadFeatures(c)
  BY <1>2, ReadFeaturesKeepsRules
<1>3. CASE ReadBarrier(c)
  <2>1. /\ conState' = [conState EXCEPT ![c] = "connected"]
        /\ UNCHANGED <<flows, toSwitch>>
    BY <1>3 DEF ReadBarrier, FinishConnecting, HandleConnectionUp
  <2>2. \A d \in Conns : conState'[d] = IF d = c THEN "connected" ELSE conState[d]
    BY <2>1 DEF TypeOK, ConnTypeOK
  <2>3. NoneClosed'
    BY <2>2 DEF NoneClosed
  <2>4. FreshTables'
    BY <1>1, <2>2 DEF FreshTables, NoRules, TypeOK, DepTypeOK
  <2>5. RulesWithdrawn'
    BY <1>1, <2>1 DEF RulesWithdrawn, Online, Installed
  <2>6. QED BY <2>3, <2>4, <2>5
<1>4. CASE ReadFlowRemoved(c)
  <2>1. Head(fromSwitch[c]).flow \in Flows
    BY <1>4, ReadingTyped, ReportContents DEF ReadFlowRemoved, TypeOK
  <2>2. QED BY <1>1, <1>4, <2>1, FlowRemovedWithdraws DEF ReadFlowRemoved
<1>5. CASE ReadEof(c)
  BY <1>5, ReadingHarmless DEF ReadEof, Reading, Harmless
<1>6. CASE LldpIgnored(c) \/ LinkDetected(c) \/ ReadPacketIn(c) \/ HostJoins(c) \/ HostMoves(c)
  <2>1. UNCHANGED <<conState, toSwitch, flows>>
    BY <1>6 DEF LldpIgnored, LinkDetected, HandleLinkAdded, ReadPacketIn, HostJoins, HostMoves,
                HandleHostSeen, conVars, ctlVars
  <2>2. QED BY <1>1, <2>1, RulesUntouched DEF Installed
<1>7. QED BY <1>2, <1>3, <1>4, <1>5, <1>6 DEF Read

\* A list of paths that is not empty has one.
LEMMA PathsExist ==
    ASSUME NEW f \in Flows, PathsOf(f) # <<>>
    PROVE  ShortestPaths(nodes, edges, SrcHw[f], DstHw[f]) # {}
<1> DEFINE S == ShortestPaths(nodes, edges, SrcHw[f], DstHw[f])
<1>1. SUFFICES ASSUME S = {} PROVE FALSE
  OBVIOUS
<1>2. Cardinality({}) = 0
  BY FS_EmptySet
<1>3. SetToSeqs(S) = {<<>>}
  <2>1. 1 .. Cardinality(S) = {}
    BY <1>1, <1>2
  <2> HIDE DEF S
  <2>2. SetToSeqs(S) = [{} -> S]
    BY <2>1 DEF SetToSeqs
  <2>3. <<>> \in [{} -> S] /\ \A q \in [{} -> S] : q = <<>>
    OBVIOUS
  <2>4. QED BY <2>2, <2>3
<1>4. PathsOf(f) = CHOOSE order \in SetToSeqs(S) : TRUE
  BY DEF PathsOf, PathList
<1>5. QED BY <1>3, <1>4

\* A path ends at a host of the graph, and that host has a port: update raises
\* for none of its switches.
LEMMA PathUpdated ==
    ASSUME HostViewsAgree, NEW f \in Flows, PathsOf(f) # <<>>, NEW path
    PROVE  Updated(f, path) = Hops(path)
<1>1. DstHw[f] \in nodes /\ DstHw[f] \in Hosts
  BY PathsExist, FlowAssumption DEF ShortestPaths
<1>2. hosts[DstHw[f]] # NoPort
  BY <1>1 DEF HostViewsAgree
<1>3. \A i \in Hops(path) : OutPort(f, path, i) # NoPort
  BY <1>2 DEF OutPort
<1>4. QED BY <1>3 DEF Updated

\* validate_and_install adds rules of the flow it marks installed, and no other.
LEMMA PacketInKeepsRules ==
    ASSUME TypeOK, HostViewsAgree, OneId, NoneClosed, FreshTables, RulesWithdrawn,
           NEW c \in Conns, NEW fr \in Frames, HandlePacketIn(c, fr),
           UNCHANGED <<conState, session, table>>
    PROVE  NoneClosed' /\ FreshTables' /\ RulesWithdrawn'
<1>1. CASE IgnorePacket(fr)
  BY <1>1, RulesUntouched DEF IgnorePacket, Installed
<1>2. CASE ForwardInstalled(c, fr)
  <2> DEFINE out == OnlyTo(c, PacketOut(fr))
  <2>1. Send(out) /\ flows' = flows
    BY <1>2 DEF ForwardInstalled
  <2>2. out \in [Conns -> Seq(Messages)]
    BY MessagesTyped, OnlyToTyped
  <2>3. \A d \in Conns, f \in Flows : \A i \in 1 .. Len(out[d]) : ~ Adds(out[d][i], f)
    BY DEF OnlyTo, Silence, PacketOut, Adds
  <2> HIDE DEF out
  <2>4. QED BY <2>1, <2>2, <2>3, SendKeepsRules DEF Installed
<1>3. CASE NoPathFound(fr)
  <2>1. \A f \in Flows : Installed(f) => Installed(f)'
    BY <1>3, FlowAssumption DEF NoPathFound, Installed, TypeOK, CtlTypeOK
  <2>2. QED BY <1>3, <2>1, RulesUntouched DEF NoPathFound
<1>4. CASE InstallPath(c, fr)
  <2> DEFINE f     == fr.pkt
             paths == PathsOf(f)
             index == ChosenIndex(f, paths)
             path  == paths[index + 1]
             rules == RulesOf(f, path)
             out   == [rules EXCEPT ![c] = Append(@, PacketOut(fr))]
  <2>1. f \in Flows /\ Updated(f, path) = Hops(path)
    BY <1>4, PathUpdated DEF InstallPath
  <2>2. Send(out) /\ flows' = [flows EXCEPT ![FlowId[f]] = "installed"]
    BY <1>4, <2>1 DEF InstallPath
  <2>3. rules \in [Conns -> Seq(Messages)]
    BY <2>1, RulesTyped DEF TypeOK
  <2>4. \A d \in Conns : \A i \in 1 .. Len(rules[d]) : \E p : rules[d][i] = AddRule(f, p)
    <3>1. \A d \in Conns : rules[d] = <<>> \/ \E p : rules[d] = <<AddRule(f, p)>>
      <4> HIDE DEF path, f
      <4>1. QED BY DEF RulesOf
    <3> HIDE DEF rules
    <3>2. QED BY <3>1
  <2> HIDE DEF rules
  <2>5. out \in [Conns -> Seq(Messages)]
    BY <2>3, MessagesTyped
  <2>6. ASSUME NEW d \in Conns, NEW g \in Flows, g # f, NEW i \in 1 .. Len(out[d])
        PROVE  ~ Adds(out[d][i], g)
    <3>1. rules[d] \in Seq(Messages)
      BY <2>3
    <3>2. out[d] = rules[d] \/ out[d] = Append(rules[d], PacketOut(fr))
      BY <2>3
    <3>3. \/ i \in 1 .. Len(rules[d]) /\ out[d][i] = rules[d][i]
          \/ out[d][i] = PacketOut(fr)
      <4> HIDE DEF out
      <4>1. QED BY <3>1, <3>2
    <3> HIDE DEF out
    <3>4. (\E p : out[d][i] = AddRule(f, p)) \/ out[d][i] = PacketOut(fr)
      BY <2>4, <3>3
    <3>5. /\ \A p : ~ Adds(AddRule(f, p), g)
          /\ ~ Adds(PacketOut(fr), g)
      BY <2>6 DEF AddRule, PacketOut, Adds
    <3>6. QED BY <3>4, <3>5
  <2>7. \A g \in Flows : (Installed(g) => Installed(g)') /\ Installed(f)'
    BY <2>1, <2>2, FlowAssumption DEF Installed, TypeOK, CtlTypeOK
  <2> HIDE DEF out, f
  <2>8. QED BY <2>1, <2>2, <2>5, <2>6, <2>7, SendKeepsRules
<1>5. QED BY <1>1, <1>2, <1>3, <1>4 DEF HandlePacketIn

LEMMA LinkRemovedKeepsRules ==
    ASSUME TypeOK, NoneClosed, FreshTables, RulesWithdrawn, NEW l \in Links,
           HandleLinkRemoved(l), UNCHANGED <<conState, session, table>>
    PROVE  NoneClosed' /\ FreshTables' /\ RulesWithdrawn'
<1> DEFINE e == <<l.dpid1, l.dpid2>>
           c == IF e \in edges THEN switches[l.dpid1] ELSE NoCon
           p == IF c = NoCon THEN NoPort ELSE neighbour[c][l.dpid2]
           out == OnlyTo(c, DeleteByPort(p))
<1>1. \A f \in Flows : Installed(f) => Installed(f)'
  BY DEF HandleLinkRemoved, Installed
<1>2. CASE p = NoPort
  BY <1>1, <1>2, RulesUntouched DEF HandleLinkRemoved
<1>3. CASE p # NoPort
  <2>1. Send(out)
    BY <1>3 DEF HandleLinkRemoved
  <2>2. c \in Conns /\ p \in Ports
    BY <1>3, LinkAssumption DEF TypeOK, CtlTypeOK
  <2> HIDE DEF c, p
  <2>3. out \in [Conns -> Seq(Messages)]
    BY <2>2, MessagesTyped, OnlyToTyped
  <2>4. \A d \in Conns, f \in Flows : \A i \in 1 .. Len(out[d]) : ~ Adds(out[d][i], f)
    BY DEF OnlyTo, Silence, DeleteByPort, Adds
  <2> HIDE DEF out
  <2>5. QED BY <1>1, <2>1, <2>3, <2>4, SendKeepsRules
<1>4. QED BY <1>2, <1>3

LEMMA DispatchKeepsRules ==
    ASSUME TypeOK, HostViewsAgree, OneId, NoneClosed, FreshTables, RulesWithdrawn,
           Dispatch, UNCHANGED depVars
    PROVE  NoneClosed' /\ FreshTables' /\ RulesWithdrawn'
<1>1. UNCHANGED <<session, table>>
  BY DEF depVars
<1>2. CASE RaiseLinkRemoved
  BY <1>1, <1>2, LinkRemovedKeepsRules DEF RaiseLinkRemoved, TypeOK, PltTypeOK, Calls
<1>3. CASE PopLinks \/ DispatchConnectionDown
  BY <1>1, <1>3, RulesUntouched
     DEF PopLinks, DispatchConnectionDown, HandleConnectionDown, conVars, ctlVars, Installed
<1>4. CASE DispatchPacketIn
  <2>1. PICK call \in todo.packet : HandlePacketIn(call[1], call[2])
    BY <1>4 DEF DispatchPacketIn
  <2>2. call[1] \in Conns /\ call[2] \in Frames
    BY DEF TypeOK, PltTypeOK, Calls
  <2>3. conState' = conState
    BY <1>4 DEF DispatchPacketIn
  <2>4. QED BY <1>1, <2>1, <2>2, <2>3, PacketInKeepsRules
<1>5. QED BY <1>2, <1>3, <1>4 DEF Dispatch

\* What a message does to the rule of f.
LEMMA ReceivesRule ==
    ASSUME TypeOK, NEW c \in Conns, SwitchReceives(c), NEW f \in Flows
    PROVE  LET m   == Head(toSwitch[c])
               old == table[Dpid[c]][f]
               new == table'[Dpid[c]][f]
           IN  /\ Drops(m, f) => new = NoPort
               /\ new # NoPort => Adds(m, f) \/ new = old
<1> DEFINE m == Head(toSwitch[c])
           s == Dpid[c]
<1>1. s \in Switches /\ table \in [Switches -> [Flows -> Ports \cup {NoPort}]]
  BY SwitchAssumption DEF TypeOK, DepTypeOK
<1>2. ASSUME NEW fs, DeleteRules(s, fs)
      PROVE  table'[s][f] = IF f \in fs THEN NoPort ELSE table[s][f]
  BY <1>1, <1>2 DEF DeleteRules
<1>3. CASE SwitchClears(c)
  BY <1>2, <1>3 DEF SwitchClears, Receives
<1>4. CASE SwitchAnswersBarrier(c) \/ SwitchResubmits(c)
  BY <1>4 DEF SwitchAnswersBarrier, SwitchResubmits, Receives, Drops
<1>5. CASE SwitchAddsRule(c)
  <2>1. m.type = "add" /\ table' = [table EXCEPT ![s][m.flow] = m.port]
    BY <1>5 DEF SwitchAddsRule, Receives
  <2>2. table'[s][f] = IF f = m.flow THEN m.port ELSE table[s][f]
    BY <1>1, <2>1
  <2>3. QED BY <2>1, <2>2 DEF Drops, Adds
<1>6. CASE SwitchDeletesByPort(c)
  <2>1. table'[s][f] = NoPort \/ table'[s][f] = table[s][f]
    BY <1>2, <1>6 DEF SwitchDeletesByPort
  <2>2. m.type = "del_port"
    BY <1>6 DEF SwitchDeletesByPort, Receives
  <2>3. QED BY <2>1, <2>2 DEF Drops
<1>7. CASE SwitchDeletesByFlow(c)
  <2>1. table'[s][f] = IF f = m.flow THEN NoPort ELSE table[s][f]
    BY <1>2, <1>7 DEF SwitchDeletesByFlow
  <2>2. m.type = "del_flow"
    BY <1>7 DEF SwitchDeletesByFlow, Receives
  <2>3. QED BY <2>1, <2>2 DEF Drops
<1>8. QED BY <1>3, <1>4, <1>5, <1>6, <1>7 DEF SwitchReceives

LEMMA SwitchReceivesKeepsRules ==
    ASSUME TypeOK, HandshakeInv, NoneClosed, FreshTables, RulesWithdrawn,
           NEW c \in Conns, SwitchReceives(c)
    PROVE  NoneClosed' /\ FreshTables' /\ RulesWithdrawn'
<1> DEFINE s == Dpid[c]
           m == Head(toSwitch[c])
<1>1. /\ UNCHANGED <<conState, flows, session>>
      /\ toSwitch' = [toSwitch EXCEPT ![c] = Tail(toSwitch[c])]
      /\ Online(c) /\ toSwitch[c] # <<>>
  BY DEF SwitchReceives, SwitchClears, SwitchAnswersBarrier, SwitchAddsRule, SwitchResubmits,
         SwitchDeletesByPort, SwitchDeletesByFlow, Receives, ctlVars
<1>2. /\ s \in Switches /\ toSwitch[c] \in Seq(Messages) /\ toSwitch'[c] = Tail(toSwitch[c])
      /\ \A d \in Conns : d # c => toSwitch'[d] = toSwitch[d]
  BY <1>1, SwitchAssumption DEF TypeOK, ConnTypeOK
<1>3. /\ table' \in [Switches -> [Flows -> Ports \cup {NoPort}]]
      /\ \A t \in Switches : t # s => table'[t] = table[t]
  <2>1. TypeOK'
    BY SwitchReceivesTyped
  <2>2. QED
    BY <2>1 DEF SwitchReceives, SwitchClears, SwitchAnswersBarrier, SwitchAddsRule,
                SwitchResubmits, SwitchDeletesByPort, SwitchDeletesByFlow, DeleteRules,
                TypeOK, DepTypeOK
<1>4. NoneClosed'
  BY <1>1 DEF NoneClosed
<1>5. ASSUME conState[c] # "connected"
      PROVE  table'[s] = NoRules
  <2>1. toSwitch[c] \in {<<BarrierRequest>>, <<ClearRules, BarrierRequest>>}
    BY <1>1, <1>5 DEF HandshakeInv, HandshakeAlone, NoneClosed, TypeOK, ConnTypeOK
  <2>2. m = BarrierRequest \/ m = ClearRules
    BY <2>1
  <2>3. table[s] = NoRules
    BY <1>1, <1>2, <1>5 DEF FreshTables, Online
  <2>4. ASSUME NEW f \in Flows PROVE table'[s][f] = NoPort
    <3>1. ~ Adds(m, f) /\ table[s][f] = NoPort
      BY <2>2, <2>3 DEF Adds, BarrierRequest, ClearRules, NoRules
    <3>2. QED BY <3>1, ReceivesRule
  <2>5. QED BY <1>2, <1>3, <2>4 DEF NoRules
<1>6. FreshTables'
  <2> SUFFICES ASSUME NEW t \in Switches, session[t] = NoCon \/ conState[session[t]] # "connected"
               PROVE  table'[t] = NoRules
    BY <1>1 DEF FreshTables, NoRules
  <2>1. CASE t = s
    BY <1>1, <1>5, <2>1, SwitchAssumption DEF Online
  <2>2. CASE t # s
    BY <1>3, <2>2 DEF FreshTables
  <2>3. QED BY <2>1, <2>2
<1>7. RulesWithdrawn'
  <2> SUFFICES ASSUME NEW d \in Conns, NEW f \in Flows, Online(d), ~ Installed(f)
               PROVE  Withdrawn(toSwitch'[d], table'[Dpid[d]][f], f)
    BY <1>1 DEF RulesWithdrawn, Online, Installed
  <2>1. Withdrawn(toSwitch[d], table[Dpid[d]][f], f)
    BY DEF RulesWithdrawn
  <2>2. CASE d = c
    <3>1. /\ Drops(m, f) => table'[s][f] = NoPort
          /\ table'[s][f] # NoPort => Adds(m, f) \/ table'[s][f] = table[s][f]
      BY ReceivesRule
    <3> HIDE DEF s
    <3>2. QED BY <1>1, <1>2, <2>1, <2>2, <3>1, WithdrawnTail DEF s
  <2>3. CASE d # c
    <3>1. Dpid[d] # s /\ Dpid[d] \in Switches
      BY <1>1, <2>3, OnlineOne, SwitchAssumption
    <3>2. QED BY <1>2, <1>3, <2>1, <2>3, <3>1
  <2>4. QED BY <2>2, <2>3
<1>8. QED BY <1>4, <1>6, <1>7

LEMMA SwitchKeepsRules ==
    ASSUME TypeOK, HandshakeInv, NoneClosed, FreshTables, RulesWithdrawn, Switch
    PROVE  NoneClosed' /\ FreshTables' /\ RulesWithdrawn'
<1>1. ASSUME NEW c \in Conns, WrittenInVain(c)
      PROVE  NoneClosed' /\ FreshTables' /\ RulesWithdrawn'
  <2>1. UNCHANGED <<conState, flows, session, table>>
    BY <1>1 DEF WrittenInVain, ctlVars, depVars
  <2>2. \A d \in Conns : Online(d) => toSwitch'[d] = toSwitch[d]
    BY <1>1 DEF WrittenInVain, TypeOK, ConnTypeOK
  <2>3. QED BY <2>1, <2>2, RulesUntouched DEF Installed
<1>2. ASSUME NEW fr \in frames, SwitchForwards(fr) \/ SwitchMisses(fr)
      PROVE  NoneClosed' /\ FreshTables' /\ RulesWithdrawn'
  <2>1. UNCHANGED <<conState, toSwitch, flows, session, table>>
    BY <1>2 DEF SwitchForwards, SwitchMisses, conVars, ctlVars
  <2>2. QED BY <2>1, RulesUntouched DEF Installed
<1>3. QED BY <1>1, <1>2, SwitchReceivesKeepsRules DEF Switch

LEMMA EnvironmentKeepsRules ==
    ASSUME TypeOK, HandshakeInv, NoneClosed, FreshTables, RulesWithdrawn, Environment,
           \A s \in Switches : ~ SwitchDisconnects(s)
    PROVE  NoneClosed' /\ FreshTables' /\ RulesWithdrawn'
<1>1. ASSUME NEW c \in Conns, SwitchConnects(c)
      PROVE  NoneClosed' /\ FreshTables' /\ RulesWithdrawn'
  <2>1. /\ c \in unused /\ session[Dpid[c]] = NoCon /\ Dpid[c] \in Switches
        /\ session' = [session EXCEPT ![Dpid[c]] = c]
        /\ UNCHANGED <<conState, toSwitch, flows, table>>
    BY <1>1, SwitchAssumption DEF SwitchConnects, conVars, ctlVars
  <2>2. conState[c] = "new" /\ toSwitch[c] = <<>>
    BY <2>1 DEF HandshakeInv, SessionsOwned, HandshakeAlone
  <2>3. table[Dpid[c]] = NoRules
    BY <2>1 DEF FreshTables
  <2>4. NoneClosed'
    BY <2>1 DEF NoneClosed
  <2>5. FreshTables'
    BY <2>1, <2>3 DEF FreshTables, NoRules, TypeOK, DepTypeOK
  <2>6. RulesWithdrawn'
    <3> SUFFICES ASSUME NEW d \in Conns, NEW f \in Flows, Online(d)', ~ Installed(f)
                 PROVE  Withdrawn(toSwitch[d], table[Dpid[d]][f], f)
      BY <2>1 DEF RulesWithdrawn, Installed
    <3>1. CASE d = c
      BY <2>2, <2>3, <3>1 DEF NoRules, Withdrawn
    <3>2. CASE d # c
      <4>1. Online(d)
        BY <2>1, <3>2, SwitchAssumption DEF Online, TypeOK, DepTypeOK
      <4>2. QED BY <4>1 DEF RulesWithdrawn
    <3>3. QED BY <3>1, <3>2
  <2>7. QED BY <2>4, <2>5, <2>6
<1>2. ASSUME \/ \E l \in Links : LldpArrives(l)
             \/ \E h \in Hosts, pkt \in Payloads : HostSends(h, pkt)
      PROVE  NoneClosed' /\ FreshTables' /\ RulesWithdrawn'
  <2>1. UNCHANGED <<conState, toSwitch, flows, session, table>>
    BY <1>2 DEF LldpArrives, HostSends, conVars, ctlVars, depVars
  <2>2. QED BY <2>1, RulesUntouched DEF Installed
<1>3. QED BY <1>1, <1>2 DEF Environment

LEMMA StepKeepsRules ==
    ASSUME TypeOK, HandshakeInv, HostViewsAgree, UpRegistered, OneId,
           SessionsLast => NothingEnds, RuleInv, [Next]_vars
    PROVE  RuleInv'
<1> SUFFICES ASSUME SessionsLast' PROVE NoneClosed' /\ FreshTables' /\ RulesWithdrawn'
  BY DEF RuleInv
<1>1. /\ SessionsLast /\ NothingEnds /\ \A s \in Switches : ~ SwitchDisconnects(s)
      /\ NoneClosed /\ FreshTables /\ RulesWithdrawn
  BY NoneLost DEF HandshakeInv, RuleInv
<1>2. CASE Thread
  BY <1>1, <1>2, ReadKeepsRules, DispatchKeepsRules DEF Thread
<1>3. CASE Timer \/ UNCHANGED vars
  <2>1. UNCHANGED <<conState, toSwitch, flows, session, table>>
    BY <1>3 DEF Timer, Timeout, ExpireLinks, HostExpires, HandleHostLeft, conVars, ctlVars,
                depVars, vars
  <2>2. QED BY <1>1, <2>1, RulesUntouched DEF Installed
<1>4. CASE Switch
  BY <1>1, <1>4, SwitchKeepsRules
<1>5. CASE Environment
  BY <1>1, <1>5, EnvironmentKeepsRules
<1>6. QED BY <1>2, <1>3, <1>4, <1>5 DEF Next

LEMMA RuleInvHolds == OneId /\ Spec => []RuleInv
<1>1. SUFFICES ASSUME OneId PROVE Spec => []RuleInv
  OBVIOUS
<1>2. Init => RuleInv
  <2> SUFFICES ASSUME Init PROVE NoneClosed /\ FreshTables /\ RulesWithdrawn
    BY DEF RuleInv
  <2>1. NoneClosed /\ FreshTables
    BY DEF Init, ConnInit, NoneClosed, FreshTables
  <2>2. \A c \in Conns : ~ Online(c)
    BY SwitchAssumption DEF Init, Online
  <2>3. QED BY <2>1, <2>2 DEF RulesWithdrawn
<1>3. TypeOK /\ HandshakeInv /\ HostViewsAgree /\ UpRegistered /\ (SessionsLast => NothingEnds)
        /\ RuleInv /\ [Next]_vars => RuleInv'
  BY <1>1, StepKeepsRules
<1>4. QED
  BY <1>2, <1>3, HandshakeHolds, HostsAgree, RegisteredHolds, NothingEndsHolds, TypeCorrect, PTL
     DEF Spec

\* Where no two flows share a flow_id and as long as no session is lost, a
\* quiet system has no rule of a flow the controller has forgotten, whatever
\* links expired while its rules were being installed (_handle_flow_removal
\* withdraws a flow from every switch when one reports a rule of it gone).
THEOREM NoOrphans == OneId /\ Spec => []NoOrphanRules
<1>1. TypeOK /\ HandshakeInv /\ RuleInv => NoOrphanRules
  <2> SUFFICES ASSUME TypeOK, HandshakeInv, RuleInv, Quiet, SessionsLast,
                      NEW s \in Switches, NEW f \in Flows, Connected(s), table[s][f] # NoPort
               PROVE  Installed(f)
    BY DEF NoOrphanRules
  <2> DEFINE c == session[s]
  <2>1. c \in Conns /\ Dpid[c] = s
    BY DEF Connected, HandshakeInv, SessionsOwned, TypeOK, DepTypeOK
  <2>2. toSwitch[c] = <<>> /\ Online(c)
    BY <2>1 DEF Quiet, Online
  <2>3. ~ Withdrawn(<<>>, table[s][f], f)
    BY DEF Withdrawn
  <2>4. QED BY <2>1, <2>2, <2>3 DEF RuleInv, RulesWithdrawn
<1>2. QED BY <1>1, RuleInvHolds, HandshakeHolds, TypeCorrect, PTL

-----------------------------------------------------------------------------
(* Induction over the natural numbers, for sets of them.                   *)

\* A set with 0 that is closed under + 1 has no gap: below a number that is
\* not in it, + 1 would map a finite set one to one to less than itself.
LEMMA Induct ==
    ASSUME NEW T \in SUBSET Nat, 0 \in T, \A n \in T : n + 1 \in T
    PROVE  T = Nat
<1>1. SUFFICES ASSUME NEW n \in Nat, n \notin T PROVE FALSE
  OBVIOUS
<1> DEFINE S == { m \in 0 .. n : m \in T }
           next == [m \in S |-> m + 1]
<1>2. IsFiniteSet(S) /\ 0 \in S
  <2>1. IsFiniteSet(0 .. n)
    BY <1>1, FS_Interval
  <2>2. S \in SUBSET (0 .. n)
    OBVIOUS
  <2>3. QED BY <2>1, <2>2, FS_Subset
<1>3. IsFiniteSet(S \ {0}) /\ Cardinality(S \ {0}) = Cardinality(S) - 1 /\ Cardinality(S) \in Nat
  <2> HIDE DEF S
  <2>1. QED BY <1>2, FS_RemoveElement, FS_CardinalityType
<1>4. next \in [S -> S \ {0}]
  <2>1. ASSUME NEW m \in S PROVE m + 1 \in S \ {0}
    BY <1>1
  <2>2. QED BY <2>1
<1>5. PICK x, y \in S : x # y /\ next[x] = next[y]
  <2>1. Cardinality(S \ {0}) < Cardinality(S)
    <3> HIDE DEF S
    <3>1. QED BY <1>3
  <2> HIDE DEF S, next
  <2>2. QED BY <1>2, <1>3, <1>4, <2>1, FS_PigeonHole
<1>6. QED BY <1>5

LEMMA Least ==
    ASSUME NEW T \in SUBSET Nat, T # {}
    PROVE  \E n \in T : \A m \in T : n <= m
<1>1. SUFFICES ASSUME \A n \in T : \E m \in T : ~ (n <= m) PROVE FALSE
  OBVIOUS
<1> DEFINE L == { n \in Nat : \A m \in T : n <= m }
<1>2. 0 \in L
  OBVIOUS
<1>3. \A n \in L : n + 1 \in L
  BY <1>1
<1>4. L = Nat
  <2> HIDE DEF L
  <2>1. L \in SUBSET Nat
    BY DEF L
  <2>2. QED BY <1>2, <1>3, <2>1, Induct
<1>5. PICK t \in T : TRUE
  OBVIOUS
<1>6. t \in Nat /\ t + 1 \in L
  <2> HIDE DEF L
  <2>1. QED BY <1>4
<1>7. QED BY <1>5, <1>6

-----------------------------------------------------------------------------
(* Finite sets.                                                            *)

\* A finite set is empty or has one element more than another.
LEMMA OneLess ==
    ASSUME NEW S, IsFiniteSet(S), NEW n \in Nat, Cardinality(S) = n + 1
    PROVE  \E x \in S : IsFiniteSet(S \ {x}) /\ Cardinality(S \ {x}) = n
<1>1. S # {}
  BY FS_EmptySet
<1>2. PICK x \in S : TRUE
  BY <1>1
<1>3. QED BY <1>2, FS_RemoveElement

LEMMA ImageFinite ==
    ASSUME NEW f, NEW D, IsFiniteSet(D)
    PROVE  IsFiniteSet({ f[x] : x \in D })
<1> DEFINE Image(S) == { f[x] : x \in S }
           T == { n \in Nat : \A S : IsFiniteSet(S) /\ Cardinality(S) = n
                                     => IsFiniteSet(Image(S)) }
<1>1. 0 \in T
  <2>1. ASSUME NEW S, IsFiniteSet(S), Cardinality(S) = 0 PROVE IsFiniteSet(Image(S))
    <3>1. S = {}
      BY <2>1, FS_EmptySet
    <3>2. Image(S) = {}
      BY <3>1
    <3>3. QED BY <3>2, FS_EmptySet
  <2>2. QED BY <2>1
<1>2. ASSUME NEW n \in T PROVE n + 1 \in T
  <2>1. n \in Nat /\ \A S : IsFiniteSet(S) /\ Cardinality(S) = n => IsFiniteSet(Image(S))
    OBVIOUS
  <2>2. ASSUME NEW S, IsFiniteSet(S), Cardinality(S) = n + 1 PROVE IsFiniteSet(Image(S))
    <3>1. PICK x \in S : IsFiniteSet(S \ {x}) /\ Cardinality(S \ {x}) = n
      BY <2>1, <2>2, OneLess
    <3>2. IsFiniteSet(Image(S \ {x}))
      BY <2>1, <3>1
    <3>3. Image(S) = Image(S \ {x}) \cup {f[x]}
      BY <3>1
    <3> DEFINE I == Image(S \ {x})
    <3>4. IsFiniteSet(I)
      BY <3>2
    <3> HIDE DEF I
    <3>5. IsFiniteSet(I \cup {f[x]})
      BY <3>4, FS_AddElement
    <3>6. QED BY <3>3, <3>5 DEF I
  <2>3. QED BY <2>1, <2>2
<1>3. T = Nat
  <2>1. T \in SUBSET Nat
    OBVIOUS
  <2> HIDE DEF T
  <2>2. QED BY <1>1, <1>2, <2>1, Induct
<1>4. Cardinality(D) \in Nat
  BY FS_CardinalityType
<1>5. QED BY <1>3, <1>4

\* A finite set can be listed.
LEMMA ListExists ==
    ASSUME NEW D, IsFiniteSet(D)
    PROVE  SetToSeqs(D) # {}
<1> DEFINE T == { n \in Nat : \A S : IsFiniteSet(S) /\ Cardinality(S) = n => SetToSeqs(S) # {} }
<1>1. 0 \in T
  <2>1. ASSUME NEW S, IsFiniteSet(S), Cardinality(S) = 0 PROVE SetToSeqs(S) # {}
    <3>1. 1 .. Cardinality(S) = {}
      BY <2>1
    <3>2. [i \in {} |-> i] \in [{} -> S]
      OBVIOUS
    <3>3. QED BY <3>1, <3>2 DEF SetToSeqs
  <2>2. QED BY <2>1
<1>2. ASSUME NEW n \in T PROVE n + 1 \in T
  <2>1. n \in Nat /\ \A S : IsFiniteSet(S) /\ Cardinality(S) = n => SetToSeqs(S) # {}
    OBVIOUS
  <2>2. ASSUME NEW S, IsFiniteSet(S), Cardinality(S) = n + 1 PROVE SetToSeqs(S) # {}
    <3>1. PICK x \in S : IsFiniteSet(S \ {x}) /\ Cardinality(S \ {x}) = n
      BY <2>1, <2>2, OneLess
    <3>2. PICK q \in SetToSeqs(S \ {x}) : TRUE
      BY <2>1, <3>1
    <3>3. q \in [1 .. n -> S \ {x}] /\ \A i, j \in 1 .. n : i # j => q[i] # q[j]
      BY <3>1, <3>2 DEF SetToSeqs
    <3> DEFINE r == [i \in 1 .. n + 1 |-> IF i <= n THEN q[i] ELSE x]
    <3>4. r \in [1 .. n + 1 -> S]
      BY <2>1, <3>1, <3>3
    <3>5. \A i \in 1 .. n + 1 : r[i] = (IF i \in 1 .. n THEN q[i] ELSE x) /\ (i \in 1 .. n \/ i = n + 1)
      BY <2>1
    <3> HIDE DEF r
    <3>6. \A i, j \in 1 .. n + 1 : i # j => r[i] # r[j]
      BY <3>1, <3>3, <3>5
    <3>7. QED BY <2>2, <3>4, <3>6 DEF SetToSeqs
  <2>3. QED BY <2>1, <2>2
<1>3. T = Nat
  <2>1. T \in SUBSET Nat
    OBVIOUS
  <2> HIDE DEF T
  <2>2. QED BY <1>1, <1>2, <2>1, Induct
<1>4. Cardinality(D) \in Nat
  BY FS_CardinalityType
<1>5. QED BY <1>3, <1>4

-----------------------------------------------------------------------------
(* Walks.                                                                  *)

\* The walks one edge longer than those of ws, which end at their nth node.
Longer(E, n, ws) ==
    UNION { { Append(w, e[2]) : e \in { d \in E : d[1] = w[n] /\ d[2] \notin ToSet(w) } } :
            w \in ws }

\* W lists the walks from src of every length up to n.
ListsWalks(W, E, src, n) ==
    W = [k \in 0 .. n |-> IF k = 0 THEN {<<src>>} ELSE Longer(E, k, W[k - 1])]

LEMMA ListsAgree ==
    ASSUME NEW E, NEW src, NEW V, NEW W, NEW m \in Nat, NEW n \in Nat, m <= n,
           ListsWalks(V, E, src, m), ListsWalks(W, E, src, n)
    PROVE  \A k \in 0 .. m : V[k] = W[k]
<1> DEFINE T == { k \in Nat : k <= m => V[k] = W[k] }
<1>1. 0 \in T
  BY DEF ListsWalks
<1>2. ASSUME NEW k \in T, k + 1 <= m PROVE V[k + 1] = W[k + 1]
  <2>1. k \in Nat /\ V[k] = W[k] /\ k + 1 \in 0 .. m /\ k + 1 \in 0 .. n /\ k + 1 # 0 /\ (k + 1) - 1 = k
    BY <1>2
  <2>2. V[k + 1] = Longer(E, k + 1, V[k]) /\ W[k + 1] = Longer(E, k + 1, W[k])
    BY <2>1 DEF ListsWalks
  <2>3. QED BY <2>1, <2>2
<1>3. \A k \in T : k + 1 \in T
  BY <1>2
<1> HIDE DEF T
<1>4. T = Nat
  BY <1>1, <1>3, Induct DEF T
<1>5. QED BY <1>4 DEF T

LEMMA ListsExist ==
    ASSUME NEW E, NEW src
    PROVE  \A n \in Nat : \E W : ListsWalks(W, E, src, n)
<1> DEFINE T == { n \in Nat : \E W : ListsWalks(W, E, src, n) }
<1>1. 0 \in T
  <2>1. ListsWalks([k \in 0 .. 0 |-> {<<src>>}], E, src, 0)
    BY DEF ListsWalks
  <2>2. QED BY <2>1
<1>2. ASSUME NEW n \in T PROVE n + 1 \in T
  <2>1. n \in Nat
    OBVIOUS
  <2>2. PICK W : ListsWalks(W, E, src, n)
    OBVIOUS
  <2> DEFINE V == [k \in 0 .. n + 1 |-> IF k <= n THEN W[k] ELSE Longer(E, k, W[n])]
  <2>3. ASSUME NEW k \in 0 .. n + 1
        PROVE  V[k] = IF k = 0 THEN {<<src>>} ELSE Longer(E, k, V[k - 1])
    <3>1. CASE k = 0
      BY <2>1, <2>2, <3>1 DEF ListsWalks
    <3>2. CASE k \in 1 .. n
      <4>1. k - 1 \in 0 .. n + 1 /\ k - 1 <= n /\ k \in 0 .. n /\ k # 0
        BY <2>1, <3>2
      <4>2. V[k] = W[k] /\ V[k - 1] = W[k - 1]
        BY <2>1, <4>1
      <4>3. W[k] = Longer(E, k, W[k - 1])
        BY <2>2, <4>1 DEF ListsWalks
      <4> HIDE DEF V
      <4>4. QED BY <4>1, <4>2, <4>3
    <3>3. CASE k = n + 1
      <4>1. V[k] = Longer(E, k, W[n]) /\ V[k - 1] = W[n]
        BY <2>1, <3>3
      <4> HIDE DEF V
      <4>2. QED BY <2>1, <3>3, <4>1
    <3>4. QED BY <2>1, <3>1, <3>2, <3>3
  <2>4. V = [k \in 0 .. n + 1 |-> V[k]]
    OBVIOUS
  <2> HIDE DEF V
  <2>5. V = [k \in 0 .. n + 1 |-> IF k = 0 THEN {<<src>>} ELSE Longer(E, k, V[k - 1])]
    BY <2>3, <2>4, Zenon
  <2>6. QED BY <2>1, <2>5 DEF ListsWalks
<1>3. T = Nat
  <2> HIDE DEF T
  <2>1. QED BY <1>1, <1>2, Induct DEF T
<1>4. QED BY <1>3

\* The walks of n + 1 edges extend those of n.
LEMMA WalksExtend ==
    ASSUME NEW E, NEW src
    PROVE  Walks(E, src) = [n \in Nat |-> IF n = 0 THEN {<<src>>}
                                          ELSE Longer(E, n, Walks(E, src)[n - 1])]
<1> DEFINE List(n) == CHOOSE W : ListsWalks(W, E, src, n)
           W == [n \in Nat |-> List(n)[n]]
<1>1. \A n \in Nat : ListsWalks(List(n), E, src, n)
  BY ListsExist
<1>2. ASSUME NEW n \in Nat
      PROVE  W[n] = IF n = 0 THEN {<<src>>} ELSE Longer(E, n, W[n - 1])
  <2>1. CASE n = 0
    <3>1. ListsWalks(List(0), E, src, 0) /\ 0 \in 0 .. 0
      BY <1>1
    <3> HIDE DEF List
    <3>2. List(0)[0] = {<<src>>}
      BY <3>1 DEF ListsWalks
    <3>3. QED BY <2>1, <3>2
  <2>2. CASE n # 0
    <3>1. n - 1 \in Nat /\ n \in 0 .. n /\ n - 1 \in 0 .. n - 1 /\ n - 1 <= n
      BY <2>2
    <3>2. ListsWalks(List(n - 1), E, src, n - 1) /\ ListsWalks(List(n), E, src, n)
      BY <1>1, <3>1
    <3> HIDE DEF List
    <3>3. List(n)[n - 1] = List(n - 1)[n - 1]
      BY <3>1, <3>2, ListsAgree
    <3>4. List(n)[n] = Longer(E, n, List(n)[n - 1])
      BY <2>2, <3>1, <3>2 DEF ListsWalks
    <3>5. QED BY <2>2, <3>1, <3>3, <3>4
  <2>3. QED BY <2>1, <2>2
<1> DEFINE F(V) == [n \in Nat |-> IF n = 0 THEN {<<src>>} ELSE Longer(E, n, V[n - 1])]
<1>3. W = F(W)
  <2>1. W = [n \in Nat |-> W[n]]
    OBVIOUS
  <2> HIDE DEF W
  <2>2. QED BY <1>2, <2>1, Zenon
<1> HIDE DEF W
<1>4. Walks(E, src) = CHOOSE V : V = F(V)
  BY Zenon DEF Walks, Longer
<1> HIDE DEF F
<1>5. Walks(E, src) = F(Walks(E, src))
  BY <1>3, <1>4
<1>6. QED BY <1>5 DEF F

\* w visits n + 1 nodes from src on, each once, along edges of E.
IsPath(w, E, src, n) ==
    /\ w \in Seq(GraphNodes) /\ Len(w) = n + 1 /\ w[1] = src
    /\ \A i \in 1 .. n : <<w[i], w[i + 1]>> \in E
    /\ \A i, j \in 1 .. n + 1 : w[i] = w[j] => i = j

LEMMA LongerPath ==
    ASSUME NEW E \in SUBSET (GraphNodes \X GraphNodes), NEW src, NEW n \in Nat,
           NEW w, IsPath(w, E, src, n), NEW e \in E, e[1] = w[n + 1], e[2] \notin ToSet(w)
    PROVE  IsPath(Append(w, e[2]), E, src, n + 1)
<1> DEFINE v == Append(w, e[2])
<1>1. e = <<w[n + 1], e[2]>> /\ e[2] \in GraphNodes
  OBVIOUS
<1>2. /\ w \in Seq(GraphNodes) /\ Len(w) = n + 1 /\ DOMAIN w = 1 .. n + 1
      /\ v \in Seq(GraphNodes) /\ Len(v) = n + 2 /\ v[n + 2] = e[2]
      /\ \A i \in 1 .. n + 1 : v[i] = w[i]
  BY <1>1 DEF IsPath
<1> HIDE DEF v
<1>3. ASSUME NEW i \in 1 .. n + 1 PROVE <<v[i], v[i + 1]>> \in E
  <2>1. CASE i \in 1 .. n
    BY <1>2, <2>1 DEF IsPath
  <2>2. CASE i = n + 1
    <3>1. v[i] = w[n + 1] /\ v[i + 1] = e[2]
      BY <1>2, <2>2
    <3>2. QED BY <1>1, <3>1
  <2>3. QED BY <2>1, <2>2
<1>4. \A i \in 1 .. n + 1 : v[i] # v[n + 2]
  BY <1>2 DEF ToSet
<1>5. ASSUME NEW i \in 1 .. n + 2, NEW j \in 1 .. n + 2, v[i] = v[j]
      PROVE  i = j
  <2>1. CASE i \in 1 .. n + 1 /\ j \in 1 .. n + 1
    BY <1>2, <1>5, <2>1 DEF IsPath
  <2>2. CASE i = n + 2 \/ j = n + 2
    BY <1>4, <1>5, <2>2
  <2>3. QED BY <2>1, <2>2
<1>6. v[1] = src
  BY <1>2 DEF IsPath
<1>7. QED BY <1>2, <1>3, <1>5, <1>6 DEF IsPath, v

\* Walks lists paths, finitely many of each length where the graph is finite.
LEMMA WalksArePaths ==
    ASSUME NEW E \in SUBSET (GraphNodes \X GraphNodes), NEW src \in GraphNodes
    PROVE  \A n \in Nat : \A w \in Walks(E, src)[n] : IsPath(w, E, src, n)
<1> DEFINE W == Walks(E, src)
           T == { n \in Nat : \A w \in W[n] : IsPath(w, E, src, n) }
<1>1. W = [n \in Nat |-> IF n = 0 THEN {<<src>>} ELSE Longer(E, n, W[n - 1])]
  BY WalksExtend
<1> HIDE DEF W
<1>2. 0 \in T
  <2>1. W[0] = {<<src>>}
    BY <1>1
  <2>2. IsPath(<<src>>, E, src, 0)
    BY DEF IsPath
  <2>3. QED BY <2>1, <2>2
<1>3. ASSUME NEW n \in T PROVE n + 1 \in T
  <2>1. n \in Nat /\ \A w \in W[n] : IsPath(w, E, src, n)
    OBVIOUS
  <2>2. W[n + 1] = Longer(E, n + 1, W[n])
    <3>1. n + 1 \in Nat /\ n + 1 # 0 /\ (n + 1) - 1 = n
      BY <2>1
    <3> HIDE DEF T
    <3>2. QED BY <1>1, <3>1
  <2>3. ASSUME NEW v \in W[n + 1] PROVE IsPath(v, E, src, n + 1)
    <3>1. PICK w \in W[n], e \in E : /\ e[1] = w[n + 1] /\ e[2] \notin ToSet(w)
                                     /\ v = Append(w, e[2])
      BY <2>2 DEF Longer
    <3>2. QED BY <2>1, <3>1, LongerPath
  <2>4. QED BY <2>1, <2>3
<1>4. T = Nat
  <2>1. T \in SUBSET Nat
    OBVIOUS
  <2> HIDE DEF T
  <2>2. QED BY <1>2, <1>3, <2>1, Induct
<1>5. \A n \in Nat : \A w \in W[n] : IsPath(w, E, src, n)
  BY <1>4
<1>6. QED BY <1>5 DEF W

LEMMA WalksFinite ==
    ASSUME NEW E, IsFiniteSet(E), NEW src
    PROVE  \A n \in Nat : IsFiniteSet(Walks(E, src)[n])
<1> DEFINE W == Walks(E, src)
           T == { n \in Nat : IsFiniteSet(W[n]) }
<1>1. W = [n \in Nat |-> IF n = 0 THEN {<<src>>} ELSE Longer(E, n, W[n - 1])]
  BY WalksExtend
<1> HIDE DEF W
<1>2. 0 \in T
  <2>1. W[0] = {<<src>>}
    BY <1>1
  <2>2. IsFiniteSet({<<src>>})
    BY FS_Singleton
  <2>3. QED BY <2>1, <2>2
<1>3. ASSUME NEW n \in T PROVE n + 1 \in T
  <2>1. n \in Nat /\ IsFiniteSet(W[n]) /\ W[n + 1] = Longer(E, n + 1, W[n])
    <3>1. n \in Nat /\ IsFiniteSet(W[n])
      OBVIOUS
    <3>2. n + 1 \in Nat /\ n + 1 # 0 /\ (n + 1) - 1 = n
      BY <3>1
    <3>3. QED BY <1>1, <3>1, <3>2
  <2> DEFINE On(w) == { d \in E : d[1] = w[n + 1] /\ d[2] \notin ToSet(w) }
             Next1(w) == { Append(w, e[2]) : e \in On(w) }
             All == { Next1(w) : w \in W[n] }
  <2>2. ASSUME NEW w PROVE IsFiniteSet(Next1(w))
    <3>1. IsFiniteSet(On(w))
      BY FS_Subset
    <3> DEFINE app == [e \in On(w) |-> Append(w, e[2])]
    <3>2. Next1(w) = { app[e] : e \in On(w) }
      OBVIOUS
    <3> HIDE DEF On, app, Next1
    <3>3. QED BY <3>1, <3>2, ImageFinite
  <2>3. IsFiniteSet(All)
    <3> DEFINE next == [w \in W[n] |-> Next1(w)]
    <3>1. All = { next[w] : w \in W[n] }
      <4> HIDE DEF Next1
      <4>1. QED OBVIOUS
    <3> HIDE DEF All, next
    <3>2. QED BY <2>1, <3>1, ImageFinite
  <2>4. \A S \in All : IsFiniteSet(S)
    <3> HIDE DEF Next1
    <3>1. QED BY <2>2
  <2>5. W[n + 1] = UNION All
    BY <2>1 DEF Longer
  <2> HIDE DEF All
  <2>6. QED BY <2>1, <2>3, <2>4, <2>5, FS_UNION
<1>4. T = Nat
  <2>1. T \in SUBSET Nat
    OBVIOUS
  <2> HIDE DEF T
  <2>2. QED BY <1>2, <1>3, <2>1, Induct
<1>5. QED BY <1>4 DEF W

-----------------------------------------------------------------------------
(* The list of shortest paths.                                             *)

FiniteNetwork == IsFiniteSet(Switches) /\ IsFiniteSet(Hosts)

LEMMA GraphFinite ==
    ASSUME FiniteNetwork, CtlTypeOK
    PROVE  IsFiniteSet(nodes) /\ IsFiniteSet(edges)
<1>1. IsFiniteSet(GraphNodes)
  BY FS_Union DEF FiniteNetwork, GraphNodes
<1>2. IsFiniteSet(GraphNodes \X GraphNodes)
  BY <1>1, FS_Product
<1>3. nodes \in SUBSET GraphNodes /\ edges \in SUBSET (GraphNodes \X GraphNodes)
  BY DEF CtlTypeOK
<1>4. QED BY <1>1, <1>2, <1>3, FS_Subset

LEMMA ShortestAreWalks ==
    ASSUME FiniteNetwork, CtlTypeOK, NEW src, NEW dst, ShortestPaths(nodes, edges, src, dst) # {}
    PROVE  /\ src \in nodes /\ dst \in nodes
           /\ \E n \in Nat : ShortestPaths(nodes, edges, src, dst)
                              = { w \in Walks(edges, src)[n] : w[n + 1] = dst }
<1> DEFINE To(n) == { w \in Walks(edges, src)[n] : w[n + 1] = dst }
           Lengths == { n \in 0 .. Cardinality(nodes) : To(n) # {} }
           Least1 == CHOOSE n \in Lengths : \A m \in Lengths : n <= m
<1>1. Lengths \in SUBSET Nat
  <2>1. Cardinality(nodes) \in Nat
    BY GraphFinite, FS_CardinalityType
  <2>2. QED BY <2>1
<1>2. /\ src \in nodes /\ dst \in nodes /\ Lengths # {}
      /\ ShortestPaths(nodes, edges, src, dst) = To(Least1)
  BY DEF ShortestPaths
<1>3. \E n \in Lengths : \A m \in Lengths : n <= m
  <2> HIDE DEF Lengths
  <2>1. QED BY <1>1, <1>2, Least
<1>4. Least1 \in Lengths
  <2> HIDE DEF Lengths
  <2>1. QED BY <1>3
<1>5. Least1 \in Nat
  <2> HIDE DEF Lengths, Least1
  <2>1. QED BY <1>1, <1>4
<1> HIDE DEF Least1
<1>6. QED BY <1>2, <1>5

LEMMA ShortestArePaths ==
    ASSUME FiniteNetwork, CtlTypeOK, NEW src, NEW dst,
           NEW path \in ShortestPaths(nodes, edges, src, dst)
    PROVE  \E n \in Nat : IsPath(path, edges, src, n) /\ path[n + 1] = dst
<1>1. PICK n \in Nat : ShortestPaths(nodes, edges, src, dst)
                        = { w \in Walks(edges, src)[n] : w[n + 1] = dst }
  BY ShortestAreWalks
<1>2. src \in GraphNodes /\ edges \in SUBSET (GraphNodes \X GraphNodes)
  BY ShortestAreWalks DEF CtlTypeOK
<1>3. path \in Walks(edges, src)[n] /\ path[n + 1] = dst
  BY <1>1
<1>4. QED BY <1>2, <1>3, WalksArePaths

\* PathList lists the shortest paths, each once.
LEMMA PathsListed ==
    ASSUME FiniteNetwork, CtlTypeOK, NEW f \in Flows, PathsOf(f) # <<>>
    PROVE  LET S == ShortestPaths(nodes, edges, SrcHw[f], DstHw[f])
           IN  /\ Cardinality(S) \in Nat \ {0} /\ Len(PathsOf(f)) = Cardinality(S)
               /\ \A i \in 1 .. Len(PathsOf(f)) : PathsOf(f)[i] \in S
<1> DEFINE S == ShortestPaths(nodes, edges, SrcHw[f], DstHw[f])
<1>1. S # {}
  BY PathsExist
<1>2. IsFiniteSet(S)
  <2>1. PICK n \in Nat : S = { w \in Walks(edges, SrcHw[f])[n] : w[n + 1] = DstHw[f] }
    BY <1>1, ShortestAreWalks
  <2>2. IsFiniteSet(Walks(edges, SrcHw[f])[n])
    BY GraphFinite, WalksFinite
  <2> HIDE DEF S
  <2>3. QED BY <2>1, <2>2, FS_Subset
<1>3. PathsOf(f) = CHOOSE order \in SetToSeqs(S) : TRUE
  BY DEF PathsOf, PathList
<1> HIDE DEF S
<1>4. PathsOf(f) \in SetToSeqs(S)
  BY <1>2, <1>3, ListExists
<1>5. PathsOf(f) \in [1 .. Cardinality(S) -> S] /\ Cardinality(S) \in Nat \ {0}
  BY <1>1, <1>2, <1>4, FS_CardinalityType, FS_EmptySet DEF SetToSeqs
<1>6. Len(PathsOf(f)) = Cardinality(S)
  BY <1>5
<1>7. QED BY <1>5, <1>6 DEF S

-----------------------------------------------------------------------------
(* Equal-cost paths.                                                       *)

\* Only the end of InstallPath marks a flow installed.
LEMMA InstalledByPath ==
    ASSUME TypeOK, OneId, [Next]_vars, NEW f \in Flows, NewlyInstalled(f)
    PROVE  \E c \in Conns, fr \in Frames :
             /\ fr.pkt = f /\ <<c, fr>> \in todo.packet
             /\ InstallPath(c, fr)
             /\ UNCHANGED <<conState, depVars>>
<1>1. ~ Installed(f) /\ Installed(f)' /\ FlowId[f] \in FlowIds
  BY FlowAssumption DEF NewlyInstalled
<1>2. flows \in [FlowIds -> {"absent", "pending", "installed"}]
  BY DEF TypeOK, CtlTypeOK
<1>3. flows' # flows
  BY <1>1 DEF Installed
<1>4. Thread
  BY <1>3, OutsideThread
     DEF Next, Timer, Timeout, ExpireLinks, HostExpires, HandleHostLeft, ctlVars, vars
<1>5. ASSUME NEW c \in Conns, Read(c) PROVE FALSE
  <2>1. ReadFlowRemoved(c)
    BY <1>3, <1>5
       DEF Read, ReadFeatures, ReadBarrier, HandleConnectionUp, ReadEof, LldpIgnored,
           LinkDetected, HandleLinkAdded, ReadPacketIn, HostJoins, HostMoves,
           HandleHostSeen, ctlVars
  <2>2. \E g : flows' = [flows EXCEPT ![FlowId[g]] = "absent"]
    BY <2>1 DEF ReadFlowRemoved, HandleFlowRemoved
  <2>3. QED BY <1>1, <1>2, <2>2 DEF Installed
<1>6. DispatchPacketIn
  BY <1>3, <1>4, <1>5
     DEF Thread, Dispatch, RaiseLinkRemoved, HandleLinkRemoved, PopLinks,
         DispatchConnectionDown, HandleConnectionDown, ctlVars
<1>7. PICK call \in todo.packet : HandlePacketIn(call[1], call[2])
  BY <1>6 DEF DispatchPacketIn
<1> DEFINE c == call[1]
           fr == call[2]
<1>8. c \in Conns /\ fr \in Frames /\ call = <<c, fr>>
  BY DEF TypeOK, PltTypeOK, Calls
<1>9. InstallPath(c, fr)
  BY <1>1, <1>2, <1>3, <1>7
     DEF HandlePacketIn, IgnorePacket, ForwardInstalled, NoPathFound, Installed
<1>10. fr.pkt = f
  <2>1. fr.pkt \in Flows /\ \E flag : flows' = [flows EXCEPT ![FlowId[fr.pkt]] = flag]
    BY <1>9 DEF InstallPath
  <2>2. FlowId[fr.pkt] = FlowId[f]
    BY <1>1, <1>2, <2>1 DEF Installed
  <2>3. QED BY <2>1, <2>2 DEF OneId
<1>11. QED BY <1>4, <1>6, <1>8, <1>9, <1>10 DEF Thread, DispatchPacketIn

\* The index _get_latest_ECMP_index returned picks a path of the list, and
\* another than the last one for the pair did.
THEOREM Rotates == OneId /\ FiniteNetwork /\ Spec => InstallsRotate
<1>1. SUFFICES ASSUME OneId, FiniteNetwork PROVE Spec => InstallsRotate
  OBVIOUS
<1>2. TypeOK /\ [Next]_vars => [\A f \in Flows : NewlyInstalled(f) => Rotated(f)]_vars
  <2> SUFFICES ASSUME TypeOK, [Next]_vars, NEW f \in Flows, NewlyInstalled(f)
               PROVE  Rotated(f)
    OBVIOUS
  <2> DEFINE pair  == <<SrcHw[f], DstHw[f]>>
             S     == ShortestPaths(nodes, edges, SrcHw[f], DstHw[f])
             last  == ecmp[pair]
             total == Cardinality(S)
  <2>1. PICK c \in Conns, fr \in Frames : fr.pkt = f /\ InstallPath(c, fr)
    BY <1>1, InstalledByPath
  <2>2. PathsOf(f) # <<>> /\ ecmp' = [ecmp EXCEPT ![pair] = NextIndex(last, Len(PathsOf(f)))]
    BY <2>1 DEF InstallPath, ChosenIndex
  <2>3. pair \in Hosts \X Hosts /\ ecmp \in [Hosts \X Hosts -> Nat \cup {NoIndex}]
    BY FlowAssumption DEF TypeOK, CtlTypeOK
  <2>4. total \in Nat \ {0} /\ Len(PathsOf(f)) = total
    BY <1>1, <2>2, PathsListed DEF TypeOK
  <2> HIDE DEF S
  <2>5. ecmp'[pair] = NextIndex(last, total) /\ last \in Nat \cup {NoIndex}
    BY <2>2, <2>3, <2>4
  <2>6. /\ ecmp'[pair] \in 0 .. total - 1
        /\ total > 1 => ecmp'[pair] # ecmp[pair]
    BY <2>4, <2>5, IndexInRange, IndexRotates
  <2>7. QED BY <2>6 DEF Rotated, S
<1>3. QED BY <1>1, <1>2, TypeCorrect, PTL DEF Spec, InstallsRotate
=============================================================================
