------------------------------ MODULE FlowTable ------------------------------
(***************************************************************************)
(* A flow table (pox/openflow/flow_table.py) and what a software switch    *)
(* (pox/datapaths/switch.py) does to it for a flow_mod.  The topology      *)
(* component keeps a table of this kind for every switch.                  *)
(*                                                                         *)
(* A match gives each of a few header fields a value, or Wild where it is   *)
(* wildcarded; a packet seen on a port has a match without wildcards.  An  *)
(* entry is a match, a priority, the actions, flags and which of the two   *)
(* timeouts it has.                                                        *)
(***************************************************************************)
EXTENDS Integers, SequencesExt

CONSTANTS
    Wild,        \* a field that is wildcarded
    None,        \* no entry, no port to filter by
    MaxEntries   \* max_entries

ASSUME FlowTableAssumption == MaxEntries \in Nat

Fields == {"in_port", "dl_src", "dl_dst"}

IsWildcarded(match) == \E f \in Fields : match[f] = Wild

\* matches_with_wildcards: match encompasses the other one.
Encompasses(match, other) ==
    \A f \in Fields : match[f] \in {Wild, other[f]}

\* Exact matches effectively have an infinite priority.
EffectivePriority(e) == IF IsWildcarded(e.match) THEN e.priority ELSE 65537

OutputsTo(e, port) == \E i \in DOMAIN e.actions : e.actions[i] = [type |-> "output", port |-> port]

IsMatchedBy(e, match, priority, strict, outPort) ==
    /\ outPort # None => OutputsTo(e, outPort)
    /\ IF strict THEN e.match = match /\ e.priority = priority
                 ELSE Encompasses(match, e.match)

\* Slip: the halves of the search are swapped.
HalveUpwards(table, priority) ==
    [range \in (0..Len(table)) \X (0..Len(table)) |->
       LET low == range[1]  high == range[2]  middle == (low + high) \div 2
       IN  IF low >= high THEN range
           ELSE IF priority >= EffectivePriority(table[middle + 1])
                THEN <<middle + 1, high>> ELSE <<low, middle>>]

\* One round of the binary search of add_entry, among the places from low
\* to high.
Halve(table, priority) ==
    [range \in (0..Len(table)) \X (0..Len(table)) |->
       LET low == range[1]  high == range[2]  middle == (low + high) \div 2
       IN  IF low >= high THEN range
           ELSE IF priority >= EffectivePriority(table[middle + 1])
                THEN <<low, middle>> ELSE <<middle + 1, high>>]

\* There are never more rounds than entries.
Place(table, priority) ==
    LET after[n \in 0..Len(table)] ==
          IF n = 0 THEN <<0, Len(table)>> ELSE Halve(table, priority)[after[n - 1]]
    IN  after[Len(table)][1]

AddEntry(table, e) == InsertAt(table, Place(table, EffectivePriority(e)) + 1, e)

\* The entries at some places of a list, in order.
Picked(entries, places) ==
    FoldLeftDomain(LAMBDA kept, i : IF i \in places THEN Append(kept, entries[i]) ELSE kept, <<>>, entries)

\* _remove_specific_entries: an entry that is in the table twice is removed
\* once.
Without(table, removed) ==
    Picked(table, { i \in DOMAIN table : table[i] \in removed => \E j \in 1..(i - 1) : table[j] = table[i] })

MatchingEntries(table, match, priority, strict, outPort) ==
    { table[i] : i \in { j \in DOMAIN table :
                           IsMatchedBy(table[j], match, priority, strict, outPort) } }

\* entry_for_packet: the first entry that matches.
EntryFor(table, packetMatch) ==
    LET i == SelectInSeq(table, LAMBDA e : Encompasses(e.match, packetMatch))
    IN  IF i = 0 THEN None ELSE table[i]

\* check_for_overlapping_entry looks at entries of the same effective
\* priority, up to the first of a lower one.
Overlapping(table, new) ==
    \E i \in DOMAIN table :
      /\ \A j \in 1..i : EffectivePriority(table[j]) >= EffectivePriority(new)
      /\ EffectivePriority(table[i]) = EffectivePriority(new)
      /\ \/ IsMatchedBy(table[i], new.match, 0, FALSE, None)
         \/ IsMatchedBy(new, table[i].match, 0, FALSE, None)

-----------------------------------------------------------------------------
(* The handlers of flow_mods: the new table, the entries removed that the  *)
(* controller hears of, and whether an error is sent.                      *)

Entry(fm) == [match |-> fm.match, priority |-> fm.priority, actions |-> fm.actions,
              flags |-> fm.flags, idle |-> fm.idle, hard |-> fm.hard]

Done(table)   == [table |-> table, removed |-> <<>>, error |-> FALSE]
Failed(table) == [table |-> table, removed |-> <<>>, error |-> TRUE]

\* The entries of a list that are among some, in order.
Among(entries, some) == Picked(entries, { i \in DOMAIN entries : entries[i] \in some })

\* _handle_FlowTableModification
ToBeNotified(removed) ==
    Among(removed, { e \in ToSet(removed) : "SEND_FLOW_REM" \in e.flags /\ "EMERG" \notin e.flags })

\* An emergency entry is never accepted.  An add replaces the entry with the
\* same match and priority, and the controller is not told of that.
FlowModAdd(table, fm) ==
    LET same == IF fm.command # "ADD" THEN {}
                ELSE MatchingEntries(table, fm.match, fm.priority, TRUE, None)
        kept == Without(table, same)
    IN  IF \/ "EMERG" \in fm.flags
           \/ "CHECK_OVERLAP" \in fm.flags /\ Overlapping(table, Entry(fm))
        THEN Failed(table)
        ELSE IF Len(kept) >= MaxEntries THEN Failed(kept)
        ELSE Done(AddEntry(kept, Entry(fm)))

\* Without an entry to modify, modify acts as add.
FlowModModify(table, fm, strict) ==
    LET Hit(e) == IsMatchedBy(e, fm.match, fm.priority, strict, None)
    IN  IF \A i \in DOMAIN table : ~ Hit(table[i]) THEN FlowModAdd(table, fm)
        ELSE Done([i \in DOMAIN table |->
                     IF Hit(table[i]) THEN [table[i] EXCEPT !.actions = fm.actions] ELSE table[i]])

FlowModDelete(table, fm, strict) ==
    LET removed == MatchingEntries(table, fm.match, fm.priority, strict, fm.out_port)
    IN  [table |-> Without(table, removed), error |-> FALSE,
         removed |-> ToBeNotified(Among(table, removed))]

FlowMod(table, fm) ==
    CASE fm.command = "ADD"           -> FlowModAdd(table, fm)
      [] fm.command = "MODIFY"        -> FlowModModify(table, fm, FALSE)
      [] fm.command = "MODIFY_STRICT" -> FlowModModify(table, fm, TRUE)
      [] fm.command = "DELETE"        -> FlowModDelete(table, fm, FALSE)
      [] fm.command = "DELETE_STRICT" -> FlowModDelete(table, fm, TRUE)

\* remove_expired_entries, when these have not been used for their idle
\* timeout and those exist for longer than their hard timeout: an entry
\* that is both is removed as idle.
RemoveExpired(table, idle, hard) ==
    [table |-> Without(table, idle \cup hard),
     removed |-> ToBeNotified(Among(table, idle) \o Among(table, hard \ idle))]
=============================================================================
