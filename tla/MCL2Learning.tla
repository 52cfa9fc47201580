---------------------------- MODULE MCL2Learning ----------------------------
(* Two hosts that write to each other for ever.  The one moves between two  *)
(* ports.                                                                   *)
EXTENDS L2Learning

Pair       == {"a", "b"}
ThreePorts == {1, 2, 3}
BMoves     == [h \in Pair |-> IF h = "b" THEN {2, 3} ELSE {}]
Packet(s, d) == [src |-> s, dst |-> d]
BothWays   == { Packet("a", "b"), Packet("b", "a") }
=============================================================================
