----------------------------- MODULE Deployment -----------------------------
(***************************************************************************)
(* The deployed system: the controller on its platform, and around it the  *)
(* OpenFlow switches and hosts it manages.  The switches are not part of   *)
(* the repository (Mininet's Open vSwitch): their side of the protocol is  *)
(* what openflow/of_01.py and the controller rely on - rules that match    *)
(* one flow, a FLOW_REMOVED for each rule deleted that asked for it, a     *)
(* barrier reply after what precedes it, a PACKET_IN for a table miss.     *)
(*                                                                         *)
(* A switch that loses its session keeps its rules, or loses them if it    *)
(* restarts, and opens the next session it has.  Bounds, all of them on    *)
(* the environment: the sessions Conns, MaxFrames data frames at a time,   *)
(* and MaxBacklog messages a session carries before the environment waits. *)
(***************************************************************************)
EXTENDS Platform

CONSTANTS
    MaxFrames,       \* data frames under way at any time
    MaxBacklog,      \* messages a session carries before the environment waits
    LossySwitches,   \* the switches that may lose their session
    Restarts,        \* whether a switch that does may lose its rules too
    EarlyTraffic     \* whether hosts send before every switch is connected

ASSUME EnvironmentAssumption ==
    /\ MaxFrames \in Nat
    /\ MaxBacklog \in Nat
    /\ LossySwitches \subseteq Switches
    /\ Restarts \in BOOLEAN
    /\ EarlyTraffic \in BOOLEAN

VARIABLES
    session,  \* the session a switch has open, NoCon if none
    unused,   \* the sessions not opened yet
    table,    \* flow table of a switch: flow -> output port
    frames    \* frames a switch has received and not yet looked up

depVars == <<session, unused, table, frames>>
vars == <<conVars, ctlVars, pltVars, depVars>>

DepTypeOK ==
    /\ session \in [Switches -> Conns \cup {NoCon}]
    /\ unused \subseteq Conns
    /\ table \in [Switches -> [Flows -> Ports \cup {NoPort}]]
    /\ frames \subseteq Frames

NoRules == [f \in Flows |-> NoPort]

Init ==
    /\ ConnInit /\ CtlInit /\ PltInit
    /\ session = [s \in Switches |-> NoCon]
    /\ unused = Conns
    /\ table = [s \in Switches |-> NoRules]
    /\ frames = {}

-----------------------------------------------------------------------------
(* The sessions.                                                           *)

\* The environment is slower than the sessions: no timer fires, no LLDP frame
\* arrives and no host sends while a session has MaxBacklog messages to carry.
Calm == \A c \in Conns : Len(toSwitch[c]) + Len(fromSwitch[c]) < MaxBacklog

Online(c) == session[Dpid[c]] = c

\* The switch writes the messages q, in order, on its session.
Report(s, q) ==
    fromSwitch' = [fromSwitch EXCEPT ![session[s]] = @ \o q]

SwitchConnects(c) ==
    /\ c \in unused
    /\ session[Dpid[c]] = NoCon
    /\ session' = [session EXCEPT ![Dpid[c]] = c]
    /\ unused' = unused \ {c}
    /\ fromSwitch' = [fromSwitch EXCEPT ![c] = <<[type |-> "features"]>>]
    /\ UNCHANGED <<conVars, ctlVars, adjacency, tracked, todo, table, frames>>

\* The session ends; what the switch had written is still delivered, or not.
SwitchDisconnects(s) ==
    /\ s \in LossySwitches
    /\ session[s] # NoCon
    /\ \E c \in unused : Dpid[c] = s
    /\ LET c   == session[s]
           eof == [type |-> "eof"]
       IN  /\ \E q \in {fromSwitch[c], <<>>} :
                fromSwitch' = [fromSwitch EXCEPT ![c] = Append(q, eof)]
           /\ toSwitch' = [toSwitch EXCEPT ![c] = <<>>]
    /\ session' = [session EXCEPT ![s] = NoCon]
    /\ \/ UNCHANGED table
       \/ Restarts /\ table' = [table EXCEPT ![s] = NoRules]
    /\ UNCHANGED <<conState, nexus, ctlVars, adjacency, tracked, todo, unused, frames>>

\* What the controller writes to a session whose switch is gone is lost.
WrittenInVain(c) ==
    /\ ~ Online(c)
    /\ toSwitch[c] # <<>>
    /\ toSwitch' = [toSwitch EXCEPT ![c] = <<>>]
    /\ UNCHANGED <<conState, nexus, ctlVars, pltVars, depVars>>

\* An LLDP frame sent out of l.port1 reaches the far end of link l.  The
\* sender holds the ports of every switch whose handshake is complete.
LldpArrives(l) ==
    /\ Calm
    /\ session[l.dpid2] # NoCon
    /\ session[l.dpid1] # NoCon
    /\ conState[session[l.dpid1]] = "connected"
    /\ nexus[l.dpid1] = session[l.dpid1]
    /\ l \notin adjacency \/ l \in FlakyLinks
    /\ [type |-> "lldp", link |-> l] \notin ToSet(fromSwitch[session[l.dpid2]])
    /\ Report(l.dpid2, <<[type |-> "lldp", link |-> l]>>)
    /\ UNCHANGED <<conVars, ctlVars, adjacency, tracked, todo, depVars>>

-----------------------------------------------------------------------------
(* The flow table.                                                         *)

\* Rules for the flows in fs are deleted; a FLOW_REMOVED reports each.
DeleteRules(s, fs) ==
    /\ table' = [table EXCEPT ![s] = [f \in Flows |-> IF f \in fs THEN NoPort ELSE @[f]]]
    /\ \E order \in SetToSeqs({ f \in fs : table[s][f] # NoPort }) :
         Report(s, [i \in DOMAIN order |->
                      [type |-> "flow_removed", flow |-> order[i]]])

\* The switch of session c reads a message of type t.
Receives(c, t) ==
    /\ Online(c)
    /\ toSwitch[c] # <<>>
    /\ Head(toSwitch[c]).type = t
    /\ toSwitch' = [toSwitch EXCEPT ![c] = Tail(@)]
    /\ UNCHANGED <<conState, nexus, ctlVars, adjacency, tracked, todo, session, unused>>

SwitchClears(c) ==
    /\ Receives(c, "clear")
    /\ DeleteRules(Dpid[c], Flows)
    /\ UNCHANGED frames

SwitchAnswersBarrier(c) ==
    /\ Receives(c, "barrier")
    /\ Report(Dpid[c], <<[type |-> "barrier"]>>)
    /\ UNCHANGED <<table, frames>>

SwitchAddsRule(c) ==
    /\ Receives(c, "add")
    /\ LET m == Head(toSwitch[c])
       IN  table' = [table EXCEPT ![Dpid[c]][m.flow] = m.port]
    /\ UNCHANGED <<fromSwitch, frames>>

SwitchDeletesByPort(c) ==
    /\ Receives(c, "del_port")
    /\ LET m == Head(toSwitch[c])
           s == Dpid[c]
       IN  DeleteRules(s, { f \in Flows : table[s][f] = m.port })
    /\ UNCHANGED frames

SwitchDeletesByFlow(c) ==
    /\ Receives(c, "del_flow")
    /\ DeleteRules(Dpid[c], {Head(toSwitch[c]).flow})
    /\ UNCHANGED frames

\* A packet sent to OFPP_TABLE is looked up as if it had just arrived.
SwitchResubmits(c) ==
    /\ Receives(c, "packet_out")
    /\ frames' = frames \cup {Head(toSwitch[c]).frame}
    /\ UNCHANGED <<fromSwitch, table>>

SwitchReceives(c) ==
    \/ SwitchClears(c) \/ SwitchAnswersBarrier(c)
    \/ SwitchAddsRule(c) \/ SwitchResubmits(c)
    \/ SwitchDeletesByPort(c) \/ SwitchDeletesByFlow(c)

-----------------------------------------------------------------------------
(* The data plane.                                                         *)

\* The data frames that are somewhere: in a switch, or on a session.
UnderWay ==
    frames
    \cup UNION { { fromSwitch[c][i].frame : i \in { j \in DOMAIN fromSwitch[c] :
                     fromSwitch[c][j].type = "packet_in" } } : c \in Conns }
    \cup UNION { { toSwitch[c][i].frame : i \in { j \in DOMAIN toSwitch[c] :
                     toSwitch[c][j].type = "packet_out" } } : c \in Conns }
    \cup { call[2] : call \in todo.packet }

Connected(s) == /\ session[s] # NoCon
                /\ conState[session[s]] = "connected"

HostSends(h, pkt) ==
    LET fr == [pkt |-> pkt, sw |-> Attach[h].sw, port |-> Attach[h].port]
    IN  /\ Calm
        /\ Sender(pkt) = h
        /\ Cardinality(UnderWay) < MaxFrames
        /\ EarlyTraffic \/ \A s \in Switches : Connected(s)
        /\ frames' = frames \cup {fr}
        /\ UNCHANGED <<conVars, ctlVars, pltVars, session, unused, table>>

RuleFor(fr) == IF fr.pkt \in Flows THEN table[fr.sw][fr.pkt] ELSE NoPort

\* A rule matches: the frame leaves by its port, unless that is the port it
\* came in by, and reaches the switch at the other end of a link, or not.
SwitchForwards(fr) ==
    LET p    == RuleFor(fr)
        next == { [pkt |-> fr.pkt, sw |-> l.dpid2, port |-> l.port2] :
                    l \in { k \in Links : k.dpid1 = fr.sw /\ k.port1 = p } }
    IN  /\ fr \in frames
        /\ p # NoPort
        /\ \/ frames' = (frames \ {fr}) \cup (IF p = fr.port THEN {} ELSE next)
           \/ /\ \E l \in FlakyLinks : l.dpid1 = fr.sw /\ l.port1 = p
              /\ frames' = frames \ {fr}
        /\ UNCHANGED <<conVars, ctlVars, pltVars, session, unused, table>>

\* No rule: the frame goes to the controller, or nowhere without a session.
SwitchMisses(fr) ==
    /\ fr \in frames
    /\ RuleFor(fr) = NoPort
    /\ frames' = frames \ {fr}
    /\ IF session[fr.sw] = NoCon THEN UNCHANGED fromSwitch
       ELSE Report(fr.sw, <<[type |-> "packet_in", frame |-> fr]>>)
    /\ UNCHANGED <<conVars, ctlVars, adjacency, tracked, todo, session, unused, table>>

-----------------------------------------------------------------------------
Thread == (Dispatch \/ \E c \in Conns : Read(c)) /\ UNCHANGED depVars

Timer == Calm /\ Timeout /\ UNCHANGED depVars

Switch == \/ \E c \in Conns : SwitchReceives(c) \/ WrittenInVain(c)
          \/ \E fr \in frames : SwitchForwards(fr) \/ SwitchMisses(fr)

Environment ==
    \/ \E c \in Conns : SwitchConnects(c)
    \/ \E s \in Switches : SwitchDisconnects(s)
    \/ \E l \in Links : LldpArrives(l)
    \/ \E h \in Hosts, pkt \in Payloads : HostSends(h, pkt)

Next == Thread \/ (Idle /\ (Timer \/ Switch \/ Environment))

Spec == Init /\ [][Next]_vars

\* select() serves every ready session in its turn, a handler that was called
\* returns, the switches do not stop while they have work and each of them
\* reads its session, a switch opens the next session it has, and LLDP is sent
\* again every cycle.
FairSpec ==
    /\ Spec
    /\ WF_vars(Thread)
    /\ \A c \in Conns : SF_vars(Read(c) /\ UNCHANGED depVars)
    /\ WF_vars(Idle /\ Switch)
    /\ \A s \in Switches : SF_vars(Idle /\ \E c \in Conns : Dpid[c] = s /\ SwitchReceives(c))
    /\ \A c \in Conns : WF_vars(Idle /\ SwitchConnects(c))
    /\ \A l \in Links \ FlakyLinks : SF_vars(Idle /\ LldpArrives(l))

TypeOK == ConnTypeOK /\ CtlTypeOK /\ PltTypeOK /\ DepTypeOK
=============================================================================
