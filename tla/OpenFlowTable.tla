---------------------------- MODULE OpenFlowTable ----------------------------
(***************************************************************************)
(* What a flow table promises, whatever it is made of: a set of entries    *)
(* that flow_mods add, modify and delete and that time out, and of those   *)
(* that match a packet one with the highest priority decides.              *)
(*                                                                         *)
(* "Finds the flow table entry that matches the given packet.  Returns the *)
(* highest priority flow table entry" (pox/openflow/flow_table.py).        *)
(***************************************************************************)
EXTENDS Integers, FiniteSets

CONSTANTS
    Wild, None, MaxEntries,
    Requests,  \* flow_mods that may come
    Seen       \* packets that may come, with the port

VARIABLES entries, last

vars == <<entries, last>>

Matches(m, packet) == \A f \in DOMAIN m : m[f] \in {Wild, packet[f]}
Covers(m, n)       == \A f \in DOMAIN m : m[f] \in {Wild, n[f]}
Exact(m)           == \A f \in DOMAIN m : m[f] # Wild

\* An exact entry comes before all that are not.
Higher(d, e) == \/ Exact(d.match) /\ ~ Exact(e.match)
                \/ ~ Exact(d.match) /\ ~ Exact(e.match) /\ d.priority > e.priority

\* Some packet is matched by both.
Overlap(d, e) ==
    /\ ~ Higher(d, e) /\ ~ Higher(e, d)
    /\ \A f \in DOMAIN d.match : d.match[f] \in {Wild, e.match[f]} \/ e.match[f] = Wild

Same(d, e) == d.match = e.match /\ d.priority = e.priority

Init == entries = {} /\ last = None

\* A new entry takes the place of the same one, if there is room.
Add(new) ==
    "EMERG" \notin new.flags /\
    LET others == { d \in entries : ~ Same(d, new) }
    IN  entries' = IF Cardinality(others) < MaxEntries THEN others \cup {new} ELSE others

\* An entry may be refused where it overlaps, and emergency entries always are.
Refuse(new) ==
    /\ \/ "EMERG" \in new.flags
       \/ "CHECK_OVERLAP" \in new.flags /\ \E d \in entries : Overlap(d, new)
    /\ UNCHANGED entries

\* Some entries get other actions and nothing else changes.
Modify(S, actions) ==
    entries' = (entries \ S) \cup { [e EXCEPT !.actions = actions] : e \in S }

AddOrRefuse(new) == Add(new) \/ Refuse(new)

Change(fm) ==
    LET new     == [match |-> fm.match, priority |-> fm.priority, actions |-> fm.actions,
                    flags |-> fm.flags, idle |-> fm.idle, hard |-> fm.hard]
        covered == { e \in entries : Covers(fm.match, e.match) }
        same    == { e \in entries : Same(e, new) }
        To(e)   == \/ fm.out_port = None
                   \/ \E i \in DOMAIN e.actions : e.actions[i] = [type |-> "output", port |-> fm.out_port]
    IN  CASE fm.command = "ADD"           -> AddOrRefuse(new)
          [] fm.command = "MODIFY"        -> IF covered = {} THEN AddOrRefuse(new) ELSE Modify(covered, fm.actions)
          [] fm.command = "MODIFY_STRICT" -> IF same = {} THEN AddOrRefuse(new) ELSE Modify(same, fm.actions)
          [] fm.command = "DELETE"        -> entries' = { e \in entries : e \notin covered \/ ~ To(e) }
          [] fm.command = "DELETE_STRICT" -> entries' = { e \in entries : e \notin same \/ ~ To(e) }

\* A lookup finds an entry that matches such that no other that does is
\* higher, and finds none only when none matches.
Look(packet) ==
    LET found == { e \in entries : Matches(e.match, packet) }
        best  == { e \in found : \A d \in found : ~ Higher(d, e) }
    IN  /\ \E e \in IF found = {} THEN {None} ELSE best :
             last' = [packet |-> packet, entry |-> e]
        /\ UNCHANGED entries

Expire ==
    /\ \E S \in SUBSET { e \in entries : e.idle \/ e.hard } : entries' = entries \ S
    /\ UNCHANGED last

Next ==
    \/ \E fm \in Requests : Change(fm) /\ UNCHANGED last
    \/ \E packet \in Seen : Look(packet)
    \/ Expire

Spec == Init /\ [][Next]_vars
=============================================================================
