-------------------------------- MODULE MCBoot --------------------------------
(* Three components and three waiters: one for each of the first two, and   *)
(* one for all of them.                                                     *)
EXTENDS Boot

CONSTANTS a, b, c, wa, wb, wall

ComponentsVal == {a, b, c}
WaitersVal    == {wa, wb, wall}
NeedsVal      == [w \in WaitersVal |-> CASE w = wa -> {a} [] w = wb -> {b} [] OTHER -> {a, b, c}]
Registers     == [x \in ComponentsVal |-> IF x = a THEN 2 ELSE 1]
=============================================================================
