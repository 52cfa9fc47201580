---------------------------- MODULE MCLLDPSender ----------------------------
(* Two switches with two ports each.                                       *)
EXTENDS LLDPSender

CONSTANTS s1, s2

TwoEach == [s \in {s1, s2} |-> IF s = s1 THEN {1, 2} ELSE {3, 4}]
=============================================================================
