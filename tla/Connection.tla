----------------------------- MODULE Connection -----------------------------
(***************************************************************************)
(* The controller's end of the OpenFlow sessions: the part of              *)
(* pox/openflow/of_01.py and pox/openflow/__init__.py that the controller  *)
(* calls.  A session is a Connection object; a switch that reconnects gets *)
(* a new one.  toSwitch[c] holds what was written to session c's socket    *)
(* and the switch has not read yet.                                        *)
(***************************************************************************)
EXTENDS Topology

VARIABLES
    conState,   \* life of each Connection object
    nexus,      \* OpenFlowNexus._connections: dpid -> Connection
    toSwitch    \* bytes written to each session, in order

conVars == <<conState, nexus, toSwitch>>

\* Messages to a switch.  "clear" is the DELETE of every rule and "barrier" the
\* barrier request of the handshake (of_01.handle_FEATURES_REPLY).
Messages ==
         [type: {"add"}, flow: Flows, port: Ports]
    \cup [type: {"del_port"}, port: Ports]
    \cup [type: {"del_flow"}, flow: Flows]
    \cup [type: {"clear", "barrier"}]
    \cup [type: {"packet_out"}, frame: Frames]

AddRule(f, p)      == [type |-> "add", flow |-> f, port |-> p]
DeleteByPort(p)    == [type |-> "del_port", port |-> p]
DeleteByFlow(f)    == [type |-> "del_flow", flow |-> f]
ClearRules         == [type |-> "clear"]
BarrierRequest     == [type |-> "barrier"]
PacketOut(fr)      == [type |-> "packet_out", frame |-> fr]

ConnTypeOK ==
    /\ conState \in [Conns -> {"new", "connecting", "connected", "closed"}]
    /\ nexus \in [Switches -> Conns \cup {NoCon}]
    /\ toSwitch \in [Conns -> Seq(Messages)]

ConnInit ==
    /\ conState = [c \in Conns |-> "new"]
    /\ nexus = [s \in Switches |-> NoCon]
    /\ toSwitch = [c \in Conns |-> <<>>]

-----------------------------------------------------------------------------
\* Nothing written, or one message on one session.
Silence == [c \in Conns |-> <<>>]
OnlyTo(c, m) == [Silence EXCEPT ![c] = <<m>>]

\* Connection.send of every message of out[c], for every session c: a
\* disconnected session swallows them.
Send(out) ==
    toSwitch' = [c \in Conns |-> IF conState[c] = "closed" THEN toSwitch[c]
                                 ELSE toSwitch[c] \o out[c]]

\* Slip: the barrier is asked for before the rules are deleted.
FeaturesReplyBarrierFirst(c) ==
    /\ conState[c] = "new"
    /\ conState' = [conState EXCEPT ![c] = "connecting"]
    /\ nexus' = [nexus EXCEPT ![Dpid[c]] = c]
    /\ Send([Silence EXCEPT ![c] = <<BarrierRequest, ClearRules>>])

\* handle_FEATURES_REPLY on a session that is connecting: it becomes THE
\* session of its datapath, and the switch is told to forget its rules.
FeaturesReply(c) ==
    /\ conState[c] = "new"
    /\ conState' = [conState EXCEPT ![c] = "connecting"]
    /\ nexus' = [nexus EXCEPT ![Dpid[c]] = c]
    /\ Send([Silence EXCEPT ![c] = <<ClearRules, BarrierRequest>>])

\* finish_connecting: the barrier reply completes the handshake.
FinishConnecting(c) ==
    /\ conState[c] = "connecting"
    /\ conState' = [conState EXCEPT ![c] = "connected"]
    /\ UNCHANGED <<nexus, toSwitch>>

\* Slip: the nexus keeps the session.
DisconnectKeepsEntry(c) ==
    /\ conState' = [conState EXCEPT ![c] = "closed"]
    /\ UNCHANGED nexus
    /\ toSwitch' = [toSwitch EXCEPT ![c] = <<>>]

\* Connection.disconnect: the nexus forgets the DATAPATH, whichever session
\* it was filed under.
Disconnect(c) ==
    /\ conState' = [conState EXCEPT ![c] = "closed"]
    /\ nexus' = IF conState[c] = "new" THEN nexus
                ELSE [nexus EXCEPT ![Dpid[c]] = NoCon]
    /\ toSwitch' = [toSwitch EXCEPT ![c] = <<>>]
=============================================================================
