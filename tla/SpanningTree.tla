----------------------------- MODULE SpanningTree -----------------------------
(***************************************************************************)
(* The spanning tree component (pox/openflow/spanning_tree.py), which the  *)
(* README starts as samples.spanning_tree: it blocks flooding on ports     *)
(* that are not on a tree of the links that Discovery has found.           *)
(*                                                                         *)
(* Discovery (pox/openflow/discovery.py) finds each direction of a cable   *)
(* by itself and raises a LinkEvent; links that are not seen any more      *)
(* expire together.  An end of a cable is a switch and a port.             *)
(***************************************************************************)
EXTENDS Integers, Sequences
LOCAL INSTANCE SequencesExt
LOCAL INSTANCE FiniteSetsExt

CONSTANTS
    Cables,      \* sets of two ends, each <<dpid, port number>>
    NoFlood,     \* _noflood_by_default
    HoldDown,    \* _hold_down
    MayBreak,    \* cables that may break
    MayRestart,  \* switches whose session may end
    Hasty        \* whether a switch may come back before its timer has fired

Ends     == UNION Cables
Switches == { e[1] : e \in Ends }
EndsOf(s) == { e \in Ends : e[1] = s }

ASSUME SpanningTreeAssumption ==
    /\ NoFlood \in BOOLEAN /\ HoldDown \in BOOLEAN /\ Hasty \in BOOLEAN
    /\ \A c \in Cables : Cardinality({ e[1] : e \in c }) = 2
    /\ \A c, d \in Cables : c # d => c \cap d = {}
    /\ MayBreak \subseteq Cables /\ MayRestart \subseteq Switches

VARIABLES
    up,         \* cables that work
    connected,  \* switches with a connection
    adjacency,  \* Discovery.adjacency: pairs of ends
    prev,       \* _prev: what was last sent for a port, if anything
    floods,     \* ends whose port floods
    young,      \* switches connected after enable_time, with _hold_down
    timers,     \* timers of _hold_down in the order of their start, each of
                \* a switch and of its present or an earlier connection
    fresh       \* whether the ports were last looked at with the links that
                \* discovery knows now (history)

vars == <<up, connected, adjacency, prev, floods, young, timers, fresh>>

TypeOK ==
    /\ up \subseteq Cables
    /\ connected \subseteq Switches
    /\ adjacency \subseteq Ends \X Ends
    /\ prev \in [Ends -> {"none", "flood", "block"}]
    /\ floods \subseteq Ends
    /\ young \subseteq Switches
    /\ timers \in Seq(Switches \X {"this", "earlier"})
    /\ fresh \in BOOLEAN

\* The switches are there, none has connected yet.
Init ==
    /\ up \in { u \in SUBSET Cables : Cables \ MayBreak \subseteq u }
    /\ connected = {}
    /\ adjacency = {}
    /\ prev = [e \in Ends |-> "none"]
    /\ floods = Ends
    /\ young = {}
    /\ timers = <<>>
    /\ fresh = TRUE

-----------------------------------------------------------------------------
(* _calc_spanning_tree *)

Between(s, t, cables) == { c \in cables : { e[1] : e \in c } = {s, t} }

\* Cables seen in both directions.
Symmetric(adj) == { {l[1], l[2]} : l \in { k \in adj : <<k[2], k[1]>> \in adj } }

\* Culled to one between any two switches, the first that the dictionary
\* happens to yield.
Culled(adj) ==
    { kept \in SUBSET Symmetric(adj) :
        \A s, t \in Switches :
          s < t => Cardinality(Between(s, t, kept)) = (IF Between(s, t, Symmetric(adj)) = {} THEN 0 ELSE 1) }

Sorted(S) == SetToSortSeq(S, LAMBDA i, j : i < j)

\* Slip: a switch that is on the tree is attached once more.
Attached(v, tree, kept) == { w \in Switches : Between(v, w, kept) # {} }

\* Switches next to v that are not on the tree.
New(v, tree, kept) ==
    { w \in Switches \ { e[1] : e \in tree } : Between(v, w, kept) # {} }

\* Switches found last are visited first; the tree is the set of its ends.
RECURSIVE Grown(_, _, _, _)
Grown(q, done, tree, kept) ==
    IF q = <<>> THEN tree
    ELSE LET v    == Head(q)
             more == IF v \in done THEN {} ELSE New(v, tree, kept)
         IN  Grown(Sorted(more) \o Tail(q), done \cup {v},
                   tree \cup UNION UNION { Between(v, w, kept) : w \in more }, kept)

Trees(adj) ==
    LET switches == { e[1] : e \in UNION { {l[1], l[2]} : l \in adj } }
    IN  { Grown(Sorted(switches), {}, {}, kept) : kept \in Culled(adj) }

-----------------------------------------------------------------------------
(* _update_tree, with the links that discovery knows at this moment. *)

IsEdgePort(e, adj) == \A l \in adj : e \notin {l[1], l[2]}

\* Slip: a switch is trusted as soon as it connects.
NeverHeld(s, force) == FALSE

\* With _hold_down, switches that are young are passed over, but for one.
Held(s, force) == s \in young /\ s # force

\* The ports that are looked at: of connected switches on the tree.
Updated(tree, force, con) ==
    { e \in Ends : e[1] \in { d[1] : d \in tree } \cap con /\ ~ Held(e[1], force) }

Wanted(e, tree, adj) == IF e \in tree \/ IsEdgePort(e, adj) THEN "flood" ELSE "block"

\* Slip: the state is noted of ports that are passed over, too.
NotesAll(adj, force, con) ==
    \E tree \in Trees(adj) :
      LET mods == { e \in Ends : e[1] \in { d[1] : d \in tree } /\ prev[e] # Wanted(e, tree, adj) }
          sent == mods \cap Updated(tree, force, con)
      IN  /\ prev' = [e \in Ends |-> IF e \in mods THEN Wanted(e, tree, adj) ELSE prev[e]]
          /\ floods' = (floods \ sent) \cup { e \in sent : Wanted(e, tree, adj) = "flood" }

\* A port_mod for each port whose wanted state is not the one sent last.
UpdateTree(adj, force, con) ==
    \E tree \in Trees(adj) :
      LET mods == { e \in Updated(tree, force, con) : prev[e] # Wanted(e, tree, adj) }
      IN  /\ prev' = [e \in Ends |-> IF e \in mods THEN Wanted(e, tree, adj) ELSE prev[e]]
          /\ floods' = (floods \ mods) \cup { e \in mods : Wanted(e, tree, adj) = "flood" }

\* _handle_LinkEvent: nothing when both ports are blocked.
Ignored(l) == prev[l[1]] = "block" /\ prev[l[2]] = "block"

\* The links of one batch are raised one after the other, with the same adj.
LinkEvents(links, adj, con) ==
    IF \A l \in links : Ignored(l) THEN UNCHANGED <<prev, floods>>
    ELSE UpdateTree(adj, 0, con)

-----------------------------------------------------------------------------
(* Discovery. *)

Live == { l \in Ends \X Ends : /\ l[1] # l[2] /\ {l[1], l[2]} \in up
                               /\ l[1][1] \in connected /\ l[2][1] \in connected }

\* An LLDP frame arrives over a link that is new.
LinkFound(l) ==
    /\ l \in Live \ adjacency
    /\ adjacency' = adjacency \cup {l}
    /\ LinkEvents({l}, adjacency \cup {l}, connected)
    /\ fresh' = ~ Ignored(l)
    /\ UNCHANGED <<up, connected, young, timers>>

\* _delete_links: the events first, whose handlers see the links still there.
DeleteLinks(links, con) ==
    /\ LinkEvents(links, adjacency, con)
    /\ adjacency' = adjacency \ links
    /\ fresh' = (fresh /\ links = {})

\* _expire_links: links that were not seen for a while.
ExpireLinks(links) ==
    /\ links # {} /\ links \cap Live = {}
    /\ DeleteLinks(links, connected)
    /\ UNCHANGED <<up, connected, young, timers>>

-----------------------------------------------------------------------------
(* Switches, cables and timers. *)

\* ConnectionUp: previous states are forgotten; with _noflood_by_default all
\* ports are blocked; with _hold_down a timer is started.
HandleConnectionUp(s) ==
    /\ s \notin connected
    /\ ~ Hasty => \A i \in DOMAIN timers : timers[i][1] # s
    /\ connected' = connected \cup {s}
    /\ prev' = [e \in Ends |-> IF e \notin EndsOf(s) THEN prev[e]
                               ELSE IF NoFlood THEN "block" ELSE "none"]
    /\ floods' = IF NoFlood THEN floods \ EndsOf(s) ELSE floods
    /\ young' = IF HoldDown THEN young \cup {s} ELSE young
    /\ timers' = IF HoldDown THEN Append(timers, <<s, "this">>) ELSE timers
    /\ UNCHANGED <<up, adjacency, fresh>>

\* ConnectionDown: discovery deletes the links of the switch, which the nexus
\* has already forgotten.
HandleConnectionDown(s) ==
    /\ s \in connected \cap MayRestart
    /\ connected' = connected \ {s}
    /\ DeleteLinks({ l \in adjacency : s \in {l[1][1], l[2][1]} }, connected \ {s})
    /\ young' = young \ {s}
    /\ timers' = [i \in DOMAIN timers |-> IF timers[i][1] = s THEN <<s, "earlier">> ELSE timers[i]]
    /\ UNCHANGED up

\* The connection of s is older than enable_time, by time alone.  All timers
\* take as long, so its own is the next.
Ages(s) ==
    /\ s \in young
    /\ Head(timers) = <<s, "this">>
    /\ young' = young \ {s}
    /\ UNCHANGED <<up, connected, adjacency, prev, floods, timers, fresh>>

\* The next timer fires: _update_tree with force_dpid.
TimerFires ==
    /\ timers # <<>>
    /\ Head(timers)[2] = "this" => Head(timers)[1] \notin young
    /\ timers' = Tail(timers)
    /\ UpdateTree(adjacency, Head(timers)[1], connected)
    /\ fresh' = TRUE
    /\ UNCHANGED <<up, connected, adjacency, young>>

CableChanges(c) ==
    /\ c \in MayBreak
    /\ up' = IF c \in up THEN up \ {c} ELSE up \cup {c}
    /\ UNCHANGED <<connected, adjacency, prev, floods, young, timers, fresh>>

-----------------------------------------------------------------------------
Next ==
    \/ \E l \in Ends \X Ends : LinkFound(l)
    \/ \E links \in SUBSET adjacency : ExpireLinks(links)
    \/ \E s \in Switches : HandleConnectionUp(s) \/ HandleConnectionDown(s) \/ Ages(s)
    \/ TimerFires
    \/ \E c \in Cables : CableChanges(c)

Spec == Init /\ [][Next]_vars

\* An assumption on discovery, not a guard of the code: when a connection
\* stops being young a cycle of LLDP packets is over, in which its links with
\* the switches that were there before it have been found.
CycleCompletes ==
    \A s \in young \ young' : s \in connected' =>
      \A l \in Live : s \in {l[1][1], l[2][1]} /\ {l[1][1], l[2][1]} \cap young' = {}
                      => l \in adjacency

-----------------------------------------------------------------------------
(* Floods cross a cable both of whose ends flood. *)

RECURSIVE Joined(_, _)
Joined(S, cables) ==
    LET T == S \cup { e[1] : e \in UNION { c \in cables : \E e \in c : e[1] \in S } }
    IN  IF T = S THEN S ELSE Joined(T, cables)

Working    == { c \in up : \A e \in c : e[1] \in connected }
FloodPaths == { c \in Working : c \subseteq floods }

LoopFree(cables) ==
    \A c \in cables : \E e, d \in c : d[1] \notin Joined({e[1]}, cables \ {c})

\* Discovery has found what there is, and nothing is pending.
Settled ==
    /\ connected = Switches /\ adjacency = Live
    /\ young = {} /\ timers = <<>>

\* A settled network has no flooding loop, whatever order its links were
\* found in and whatever broke, came back or reconnected before.
NoLoopSettled == Settled => LoopFree(FloodPaths)

\* In a settled network whose ports were last looked at with the links there
\* are now, a flood gets wherever the cables get, whatever was found, broke,
\* came back, reconnected or was held down before: blocking takes the loops
\* away and nothing else.  The last look is an older one where an event was
\* ignored or removed a link ("When links change, update spanning tree").
FloodReaches ==
    Settled /\ fresh => \A s \in Switches : Joined({s}, FloodPaths) = Joined({s}, Working)

\* With flooding off by default, held down for a cycle that completes, there
\* is no loop at any time, settled or not: "topologies with loops no longer
\* turn your network into useless hot packet soup".
NeverSoup == LoopFree(FloodPaths)
=============================================================================
