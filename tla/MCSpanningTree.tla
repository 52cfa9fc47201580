---------------------------- MODULE MCSpanningTree ----------------------------
(***************************************************************************)
(* Three networks.  Doubled: three switches in a ring with a second cable  *)
(* between two of them; this one and another may break: the constants of   *)
(* SpanningTree.                                                           *)
(* Row: four switches in a row, the fewest of which two parts can be       *)
(* joined by a cable.  Held, late: a ring with flooding off by default and *)
(* held down, by discovery cycles that complete or by any.                 *)
(***************************************************************************)
EXTENDS SpanningTree

VARIABLE network

Cable(s, p, t, q) == {<<s, p>>, <<t, q>>}

Ring == {Cable(1, 1, 2, 1), Cable(2, 2, 3, 1), Cable(3, 2, 1, 2)}

\* The ring, with two cables between switches 1 and 2.
Doubled == Ring \cup {Cable(1, 3, 2, 3)}

Two   == {Cable(1, 1, 2, 1), Cable(2, 2, 3, 1)}
Third == {3}

Row == INSTANCE SpanningTree WITH
    Cables <- {Cable(1, 1, 2, 1), Cable(2, 2, 3, 1), Cable(3, 2, 4, 1)},
    NoFlood <- FALSE, HoldDown <- FALSE,
    MayBreak <- {}, MayRestart <- {3}, Hasty <- FALSE

Careful == INSTANCE SpanningTree WITH
    Cables <- Ring, NoFlood <- TRUE, HoldDown <- TRUE,
    MayBreak <- {}, MayRestart <- {1, 2, 3}, Hasty <- FALSE

HeldDown == network \in {"held", "late"}

MCInit == \/ network = "doubled" /\ Init
          \/ network = "row" /\ Row!Init
          \/ network \in {"held", "late"} /\ Careful!Init

MCNext == /\ \/ network = "doubled" /\ Next
             \/ network = "row" /\ Row!Next
             \/ network = "held" /\ Careful!Next /\ Careful!CycleCompletes
             \/ network = "late" /\ Careful!Next
          /\ UNCHANGED network

MCSpec == MCInit /\ [][MCNext]_<<vars, network>>

-----------------------------------------------------------------------------
(* SpanningTree's properties, each where it is promised. *)

\* A settled network has no flooding loop, in any of the networks.
NoLoop == CASE network = "doubled" -> NoLoopSettled
            [] network = "row" -> Row!NoLoopSettled
            [] HeldDown -> Careful!NoLoopSettled

\* A settled network whose ports were last looked at with the links there are
\* floods everywhere, in any of the networks.
ReachesAll == CASE network = "doubled" -> FloodReaches
                [] network = "row" -> Row!FloodReaches
                [] HeldDown -> Careful!FloodReaches

\* Held down for cycles that complete, there is no loop at any time.
NeverSoupHeldDown == network = "held" => Careful!NeverSoup
=============================================================================
