---------------------------- MODULE MCFaultFree -----------------------------
(***************************************************************************)
(* Two networks in which nothing fails.  One has two equal-cost paths      *)
(* between the hosts, and only the links from h1's side to h2's, so that   *)
(* both flows go that way:                                                 *)
(*                                                                         *)
(*                   .--2[ s2 ]1--.                                        *)
(*     h1 --1[ s1 ]2                2[ s4 ]1-- h2                           *)
(*               3                3                                        *)
(*                   `--2[ s3 ]1--'                                        *)
(*                                                                         *)
(* The other, where liveness is checked, is a line, with a ping and its    *)
(* answer:                                                                 *)
(*                                                                         *)
(*     h1 --1[ s1 ]2---------2[ s2 ]1-- h2                                 *)
(***************************************************************************)
EXTENDS Properties, TLC

CONSTANTS s1, s2, s3, s4, h1, h2, a1, a2, a3, a4, f1, f2, i1, i2, none

VARIABLE network

Cable(s, p, t, q) == [dpid1 |-> s, port1 |-> p, dpid2 |-> t, port2 |-> q]

DiamondSwitches == {s1, s2, s3, s4}
DiamondHosts == {h1, h2}
DiamondPorts == {1, 2, 3}
DiamondAttach == (h1 :> [sw |-> s1, port |-> 1]) @@ (h2 :> [sw |-> s4, port |-> 1])
DiamondLinks == { Cable(s1, 2, s2, 2), Cable(s2, 1, s4, 2),
                  Cable(s1, 3, s3, 2), Cable(s3, 1, s4, 3) }
DiamondConns == {a1, a2, a3, a4}
DiamondDpid == (a1 :> s1) @@ (a2 :> s2) @@ (a3 :> s3) @@ (a4 :> s4)

\* In the diamond the id of a flow is the flow, in the line it is i1 or i2.
BothFlows == {f1, f2}
AnyId == {f1, f2, i1, i2}
FromH1 == [x \in Flows |-> h1]
ToH2 == [x \in Flows |-> h2]
OwnId == [x \in Flows |-> x]

Line == INSTANCE Properties WITH
    Switches <- {s1, s2}, Hosts <- {h1, h2}, Ports <- {1, 2},
    Links <- {Cable(s1, 2, s2, 2), Cable(s2, 2, s1, 2)},
    Attach <- (h1 :> [sw |-> s1, port |-> 1]) @@ (h2 :> [sw |-> s2, port |-> 1]),
    Conns <- {a1, a2}, Dpid <- (a1 :> s1) @@ (a2 :> s2),
    SrcHw <- (f1 :> h1) @@ (f2 :> h2), DstHw <- (f1 :> h2) @@ (f2 :> h1),
    FlowId <- (f1 :> i1) @@ (f2 :> i2),
    MaxBacklog <- 3

InDiamond == network = "diamond"
InLine == network = "line"

EitherInit == (InDiamond /\ Init) \/ (InLine /\ Line!Init)

EitherNext == /\ (InDiamond /\ Next) \/ (InLine /\ Line!Next)
              /\ UNCHANGED network

\* Deployment's fairness, on the line.
LineFair ==
    /\ WF_vars(InLine /\ Line!Thread)
    /\ \A c \in {a1, a2} : SF_vars(InLine /\ Line!Read(c) /\ UNCHANGED depVars)
    /\ WF_vars(InLine /\ Line!Idle /\ Line!Switch)
    /\ \A c \in {a1, a2} : SF_vars(InLine /\ Line!Idle /\ Line!SwitchReceives(c))
    /\ \A c \in {a1, a2} : WF_vars(InLine /\ Line!Idle /\ Line!SwitchConnects(c))
    /\ \A l \in {Cable(s1, 2, s2, 2), Cable(s2, 2, s1, 2)} :
         SF_vars(InLine /\ Line!Idle /\ Line!LldpArrives(l))

FaultFree == EitherInit /\ [][EitherNext]_<<vars, network>> /\ LineFair

-----------------------------------------------------------------------------
\* What Properties promises of installations is checked as it stands there: in
\* the diamond, since flows with the diamond's ids are installed in no other.

\* Every frame is eventually delivered or dropped.
EveryFrameSettles == []<>(InLine => Line!UnderWay = {})

\* Every link is eventually in the graph, to stay.
EveryLinkLearned == InLine => Line!TopologyLearned
=============================================================================
