----------------------------- MODULE SyncTable -----------------------------
(***************************************************************************)
(* "A flow table that keeps in sync with a switch" (OFSyncFlowTable in     *)
(* pox/openflow/topology.py), the switch entity it belongs to, and the     *)
(* switch.  Operations are sent with a barrier behind them, and the table  *)
(* of the controller changes when the barrier is answered.                 *)
(***************************************************************************)
EXTENDS FlowTable

CONSTANTS
    Flows,          \* entries that are installed, each a new object
    Patterns,       \* entries given to remove_with_wildcards
    MayReconnect,   \* bound on the reconnections
    MayOverlap,     \* whether a switch may reconnect before the end of its
                    \* old connection is noticed
    MaySlow,        \* whether an answer may take longer than TIME_OUT
    MayExpire,      \* whether entries time out
    MayWait,        \* whether calls are made while the switch is not connected
    MayReuse,       \* whether an object is installed or removed more than once
    MayInstall, MayRemove   \* bounds on the calls

ASSUME SyncAssumption == {MayReconnect, MayInstall, MayRemove} \subseteq Nat

VARIABLES
    connection,  \* the switch's session: "up", "down"
    lingers,     \* whether an old connection has not been noticed to end
    connected,   \* OpenFlowSwitch.connected
    flow_table,  \* OFSyncFlowTable.flow_table
    pending,     \* _pending: operations, a command and an entry each
    barriers,    \* _pending_barrier_to_ops: xids with their operations
    waiting,     \* _pending_op_to_barrier: operations sent, and whether
                 \* longer than TIME_OUT ago
    xids,        \* barriers sent
    table,       \* the table of the switch
    toSwitch, toController,
    asked,       \* flows installed and not removed, as it was asked for
    used,        \* operations that have been asked for
    installs, removals, reconnects

ctlVars  == <<connected, flow_table, pending, barriers, waiting, xids>>
netVars  == <<connection, lingers, table, toSwitch, toController>>
appVars  == <<asked, used, installs, removals>>
vars     == <<ctlVars, netVars, appVars, reconnects>>

Commands == {"ADD", "DELETE", "DELETE_STRICT"}
Key(e) == <<e.match, e.priority>>

Ops      == Commands \X (Flows \cup Patterns)

TypeOK ==
    /\ connection \in {"up", "down"}
    /\ lingers \in BOOLEAN /\ connected \in BOOLEAN
    /\ flow_table \in Seq(Flows)
    /\ pending \in Seq(Ops)
    /\ barriers \subseteq (1..xids) \X Seq(Ops)
    /\ waiting \subseteq Ops \X BOOLEAN
    /\ asked \subseteq Flows /\ used \subseteq Ops

Init ==
    /\ connection = "down" /\ lingers = FALSE /\ connected = FALSE
    /\ flow_table = <<>> /\ pending = <<>>
    /\ barriers = {} /\ waiting = {} /\ xids = 0
    /\ table = <<>> /\ toSwitch = <<>> /\ toController = <<>>
    /\ asked = {} /\ used = {} /\ installs = 0 /\ removals = 0 /\ reconnects = 0

-----------------------------------------------------------------------------
(* _sync_pending *)

FlowModFor(command, e) ==
    [type |-> "flow_mod", command |-> command, match |-> e.match, priority |-> e.priority,
     actions |-> e.actions, flags |-> e.flags \cup {"SEND_FLOW_REM"},
     idle |-> e.idle, hard |-> e.hard, out_port |-> None]

Barrier(xid) == [type |-> "barrier", xid |-> xid]

FlowMods(ops) == [i \in DOMAIN ops |-> FlowModFor(ops[i][1], ops[i][2])]

\* Operations not sent yet, or sent too long ago.
Due(ops) == SelectSeq(ops, LAMBDA op : <<op, FALSE>> \notin waiting)

Remember(todo, others) ==
    /\ xids' = xids + 1
    /\ barriers' = others \cup {<<xids + 1, todo>>}

SyncPending(ops) ==
    /\ pending' = ops
    /\ IF ~ connected THEN UNCHANGED <<barriers, waiting, xids, toSwitch>>
       ELSE /\ toSwitch' = toSwitch \o FlowMods(Due(ops)) \o <<Barrier(xids + 1)>>
            /\ Remember(Due(ops), barriers)
            /\ waiting' = { w \in waiting : w[1] \notin ToSet(Due(ops)) } \cup (ToSet(Due(ops)) \X {FALSE})

Adds(entries) == [i \in DOMAIN entries |-> <<"ADD", entries[i]>>]

\* Slip: only what was confirmed is installed again.
TodoConfirmed(adds) == Adds(flow_table)

\* Slip: only what is pending is installed again.
TodoPending(adds) == adds

\* With clear: all entries and all pending adds.
Todo(adds) == Adds(flow_table) \o adds

DeleteAll ==
    [type |-> "flow_mod", command |-> "DELETE",
     match |-> [f \in Fields |-> Wild], priority |-> 32768, actions |-> <<>>, flags |-> {},
     idle |-> FALSE, hard |-> FALSE, out_port |-> None]

SyncAll ==
    LET adds == SelectSeq(pending, LAMBDA op : op[1] = "ADD")
    IN  /\ pending' = adds
        /\ toSwitch' = <<DeleteAll, Barrier(0)>> \o FlowMods(Todo(adds)) \o <<Barrier(xids + 1)>>
        /\ Remember(Todo(adds), {})
        /\ waiting' = ToSet(Todo(adds)) \X {FALSE}

-----------------------------------------------------------------------------
(* install, remove_strict and remove_with_wildcards: _mod. *)

\* The same operation with the same object may be done again.
Fresh(op) == /\ op \in used => MayReuse
             /\ used' = used \cup {op}

\* The flows that one with the same match and priority does not replace.
Others(flows, e) == { d \in flows : Key(d) # Key(e) }

Install(e) ==
    /\ connected \/ MayWait
    /\ installs < MayInstall /\ e \notin asked
    /\ Fresh(<<"ADD", e>>)
    /\ installs' = installs + 1
    /\ asked' = Others(asked, e) \cup {e}
    /\ SyncPending(Append(pending, <<"ADD", e>>))
    /\ UNCHANGED <<connected, flow_table, connection, lingers, table, toController, reconnects, removals>>

RemoveStrict(e) ==
    /\ connected \/ MayWait
    /\ removals < MayRemove
    /\ Fresh(<<"DELETE_STRICT", e>>)
    /\ removals' = removals + 1
    /\ asked' = Others(asked, e)
    /\ SyncPending(Append(SelectSeq(pending, LAMBDA op : op # <<"ADD", e>>), <<"DELETE_STRICT", e>>))
    /\ UNCHANGED <<connected, flow_table, connection, lingers, table, toController, reconnects, installs>>

\* A TableEntry has no matches_with_wildcards: with an add pending the call
\* raises before anything is done.
RemoveWithWildcards(e) ==
    /\ connected \/ MayWait
    /\ removals < MayRemove
    /\ removals' = removals + 1
    /\ asked' = { d \in asked : ~ Encompasses(e.match, d.match) }
    /\ IF \E i \in DOMAIN pending : pending[i][1] = "ADD"
       THEN UNCHANGED <<pending, barriers, waiting, xids, toSwitch>>
       ELSE SyncPending(Append(pending, <<"DELETE", e>>))
    /\ UNCHANGED <<connected, flow_table, connection, lingers, table, toController, reconnects, used, installs>>

-----------------------------------------------------------------------------
(* What comes from the switch. *)

\* The table changes, and the operation is no longer pending.
Confirmed(st, op) ==
    [table |-> IF op[1] = "ADD" THEN AddEntry(st.table, op[2])
               ELSE Without(st.table, MatchingEntries(st.table, op[2].match, op[2].priority,
                                                      op[1] = "DELETE_STRICT", None)),
     pending |-> Remove(st.pending, op),
     waiting |-> { w \in st.waiting : w[1] # op }]

HandleBarrierIn(xid) ==
    IF \E b \in barriers : b[1] = xid
    THEN LET b  == CHOOSE c \in barriers : c[1] = xid
             st == FoldLeft(Confirmed, [table |-> flow_table, pending |-> pending, waiting |-> waiting], b[2])
         IN  /\ flow_table' = st.table /\ pending' = st.pending /\ waiting' = st.waiting
             /\ barriers' = barriers \ {b}
    ELSE UNCHANGED <<flow_table, pending, waiting, barriers>>

\* Slip: entries are told apart by their match alone.
FlowRemovedByMatch(removed) ==
    /\ flow_table' = RemoveFirstMatch(flow_table, LAMBDA e : e.match = removed.match)
    /\ UNCHANGED <<pending, waiting, barriers>>

HandleFlowRemoved(removed) ==
    /\ flow_table' = RemoveFirstMatch(flow_table,
                        LAMBDA e : e.match = removed.match /\ e.priority = removed.priority)
    /\ UNCHANGED <<pending, waiting, barriers>>

ControllerReceives ==
    /\ toController # <<>>
    /\ toController' = Tail(toController)
    /\ LET m == Head(toController)
       IN  IF m.type = "barrier" THEN HandleBarrierIn(m.xid) ELSE HandleFlowRemoved(m.entry)
    /\ UNCHANGED <<connected, xids, connection, lingers, table, toSwitch, appVars, reconnects>>

-----------------------------------------------------------------------------
(* The switch and its connection. *)

Notices(removed) == [i \in DOMAIN removed |-> [type |-> "flow_removed", entry |-> removed[i]]]

SwitchReceives ==
    /\ toSwitch # <<>>
    /\ toSwitch' = Tail(toSwitch)
    /\ LET m == Head(toSwitch)
           r == FlowMod(table, m)
       IN  IF m.type = "barrier"
           THEN toController' = Append(toController, m) /\ UNCHANGED table
           ELSE table' = r.table /\ toController' = toController \o Notices(r.removed)
    /\ UNCHANGED <<ctlVars, connection, lingers, appVars, reconnects>>

EntryExpires ==
    /\ MayExpire /\ connection = "up"
    /\ \E e \in { d \in ToSet(table) : d.hard } :
         /\ table' = Without(table, {e})
         /\ toController' = toController \o Notices(ToBeNotified(<<e>>))
         /\ asked' = Others(asked, e)
    /\ UNCHANGED <<ctlVars, connection, lingers, toSwitch, used, installs, removals, reconnects>>

TimePasses ==
    /\ MaySlow
    /\ waiting' = { <<w[1], TRUE>> : w \in waiting }
    /\ UNCHANGED <<connected, flow_table, pending, barriers, xids, netVars, appVars, reconnects>>

\* The handshake has cleared the table (clear_flows_on_connect) when
\* ConnectionUp is raised; the sessions of the old connection are gone.
ConnectionUp ==
    /\ connection = "down" \/ (MayOverlap /\ ~ lingers)
    /\ reconnects <= MayReconnect
    /\ connection' = "up"
    /\ lingers' = (connection = "up")
    /\ reconnects' = reconnects + 1
    /\ connected' = TRUE
    /\ table' = <<>> /\ toController' = <<>>
    /\ SyncAll
    /\ UNCHANGED <<flow_table, appVars>>

\* _handle_SwitchConnectionDown
ConnectionDown ==
    /\ connection = "up" /\ ~ lingers
    /\ reconnects <= MayReconnect
    /\ connection' = "down"
    /\ connected' = FALSE
    /\ toSwitch' = <<>> /\ toController' = <<>>
    /\ barriers' = {} /\ waiting' = {}
    /\ UNCHANGED <<flow_table, pending, xids, lingers, table, appVars, reconnects>>

\* ConnectionDown of an old connection, to whose events the switch entity
\* does not listen any more; but the topology component does.
OldConnectionDown ==
    /\ lingers
    /\ lingers' = FALSE
    /\ connected' = FALSE
    /\ UNCHANGED <<flow_table, pending, barriers, waiting, xids, connection, table,
                   toSwitch, toController, appVars, reconnects>>

Next ==
    \/ \E e \in Flows : Install(e) \/ RemoveStrict(e)
    \/ \E e \in Patterns : RemoveWithWildcards(e)
    \/ ControllerReceives \/ SwitchReceives
    \/ EntryExpires \/ TimePasses
    \/ ConnectionUp \/ ConnectionDown \/ OldConnectionDown

Spec == Init /\ [][Next]_vars

\* Messages are delivered while the connection stands, and a switch that is
\* down comes back.
FairSpec == /\ Spec
            /\ WF_vars(ControllerReceives) /\ WF_vars(SwitchReceives)
            /\ WF_vars(ConnectionUp /\ connection = "down")

-----------------------------------------------------------------------------
Quiet == connection = "up" /\ pending = <<>> /\ barriers = {} /\ toSwitch = <<>> /\ toController = <<>>

\* "A flow table that keeps in sync with a switch": when all operations are
\* confirmed, both tables have entries for the same matches and priorities.
InSync == Quiet => { Key(e) : e \in ToSet(flow_table) } = { Key(e) : e \in ToSet(table) }

\* Whatever was lost, repeated or timed out, the switch has no entry that the
\* controller does not know of.
NoStrays == Quiet => { Key(e) : e \in ToSet(table) } \subseteq { Key(e) : e \in ToSet(flow_table) }

\* The switch has what was asked for, and nothing that was removed.
AsAsked == Quiet => { Key(e) : e \in ToSet(table) } = { Key(e) : e \in asked }
=============================================================================
