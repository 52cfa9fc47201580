------------------------------- MODULE MCLine -------------------------------
(***************************************************************************)
(* Two switches joined by one cable, a host on each, and the two flows of  *)
(* a ping and its answer:                                                  *)
(*                                                                         *)
(*      h1 --1[ s1 ]2---------2[ s2 ]1-- h2                                *)
(*                                                                         *)
(* What goes wrong is chosen at the start: the tracker forgets hosts (the  *)
(* constants of the configuration); or the link loses LLDP and data; or s1 *)
(* loses its session and maybe its rules, and the first flow starts at any *)
(* time.  The last two are the deployment with other faults.               *)
(***************************************************************************)
EXTENDS Properties, TLC

CONSTANTS s1, s2, h1, h2, a1, a2, b1, f12, f21, none

VARIABLE trouble  \* what goes wrong in this behaviour

Right == [dpid1 |-> s1, port1 |-> 2, dpid2 |-> s2, port2 |-> 2]
Left  == [dpid1 |-> s2, port1 |-> 2, dpid2 |-> s1, port2 |-> 2]

BothWays == {Right, Left}
FirstPorts == (h1 :> [sw |-> s1, port |-> 1]) @@ (h2 :> [sw |-> s2, port |-> 1])

\* a1 and b1 are the first and second session of s1.
TwoForS1 == (a1 :> s1) @@ (b1 :> s1) @@ (a2 :> s2)

\* The flow of a ping and of its answer; each has a flow_id of its own.
PingSrc == (f12 :> h1) @@ (f21 :> h2)
PingDst == (f12 :> h2) @@ (f21 :> h1)
PingId == (f12 :> f12) @@ (f21 :> f21)

LossyLink == INSTANCE Deployment WITH
    FlakyLinks <- {Right}, SilentHosts <- {}, LossySwitches <- {},
    Restarts <- FALSE, EarlyTraffic <- FALSE, MaxFrames <- 1, MaxBacklog <- 2

LossySession == INSTANCE Deployment WITH
    FlakyLinks <- {}, SilentHosts <- {h1}, LossySwitches <- {s1},
    Restarts <- TRUE, EarlyTraffic <- TRUE, MaxFrames <- 1, MaxBacklog <- 2

AnyInit == Init /\ trouble \in {"session", "link", "host"}

AnyNext ==
    /\ \/ /\ trouble = "host" /\ Next
          /\ b1 \in unused'
       \/ /\ trouble = "link" /\ LossyLink!Next
          /\ b1 \in unused'
       \/ /\ trouble = "session" /\ LossySession!Next
          /\ \A fr \in frames' : fr.pkt # f21
    /\ UNCHANGED trouble

AnySpec == AnyInit /\ [][AnyNext]_<<vars, trouble>>

-----------------------------------------------------------------------------
\* With sessions that last and no early traffic, a flow that is installed has
\* its rules ...
InstalledDelivers == trouble # "session" => InstalledFlowDelivers

\* ... and with links that last too, a packet sent back to a table finds its
\* rule there.
PacketsMatch == trouble = "host" => PacketOutMatches
=============================================================================
