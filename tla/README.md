# Verification of the SDN routing controller

The program is an OpenFlow controller for a fat-tree network: `controller/controller.py`
with its helpers in `controller/extensions/`, running on a vendored copy of POX (`pox/`) and
using a vendored networkx for shortest paths. When the first packet of an IP flow misses
in a switch, the controller computes the shortest paths between the two hosts, picks one
in turn (ECMP), sends one rule to every switch of the path and sends the packet back to the
switch's table. Everything else it does keeps that true while switches, links, hosts and
rules come and go.

The modules here model the controller and the parts of POX it rests on, compose them with the
switches and hosts around them, check them with TLC and prove the most important results with
TLAPS. Three more components that the README of the repository starts or that share state
machines with these (the spanning tree, the learning switch with the software switch, the
topology entities) are modelled on their own.

## The system

| Part | State | Operations | Source |
|---|---|---|---|
| Controller | `connections`, `switches`, `flows`, `hosts`, `graph`, ECMP index | handlers of ConnectionUp/Down, LinkEvent, HostEvent, FlowRemoved; `validate_and_install` | `controller/controller.py` |
| SwitchController | `neighbour` (port to each neighbouring switch) | PacketIn handler, `update`, `addLinkTo`, `removeLinkTo`, `removeRuleBy*` | `controller/extensions/switch.py` |
| Flow | the 5-tuple and MACs | `flow_id` (crc32) | `controller/extensions/flow.py` |
| OpenFlow sessions | `Connection` state, socket buffers, the deferred sender's queues | handshake, `send`, `read`, `disconnect`, `DeferredSender.run` | `pox/pox/openflow/of_01.py` |
| Nexus | dpid -> Connection | `_connect`, `_disconnect`, `sendToDPID` | `pox/pox/openflow/__init__.py` |
| Discovery | `adjacency`, the cycle of LLDP packets | PacketIn (LLDP), expiry, ConnectionDown, `is_edge_port`; `LLDPSender` | `pox/pox/openflow/discovery.py` |
| Host tracker | MAC entries with IP entries and pings | PacketIn, `_check_timeouts` | `pox/pox/host_tracker/host_tracker.py` |
| Event dispatch | handler lists by priority | `raiseEvent`, `addListener`, `removeListener` | `pox/pox/lib/revent/revent.py` |
| Scheduler | ready tasks, timers, select hub | `cycle`, `fast_schedule`, `SelectHub`, blocking calls, consumers | `pox/pox/lib/recoco/` |
| Core and boot | components, waiters, `running`, `starting_up` | `register`, `call_when_ready`, `goUp`, `quit` | `pox/pox/core.py`, `boot.py` |
| Spanning tree | `_prev`, the tree | handlers of LinkEvent and ConnectionUp, the hold-down timer | `pox/pox/openflow/spanning_tree.py` |
| Software switch | flow table, packet buffers, ports | flow_mod, packet_out, port_mod, rx, timeouts | `pox/pox/datapaths/switch.py`, `pox/pox/openflow/flow_table.py` |
| Learning switch | `macToPort` | PacketIn handler | `pox/pox/forwarding/l2_learning.py` |
| Topology entities | `flow_table`, pending operations, barriers | `install`, `remove_*`, barrier and removal handlers, reconnection | `pox/pox/openflow/topology.py` |
| Shortest paths | - | `all_shortest_paths` | `controller/networkx/algorithms/shortest_paths/` |
| Switches, hosts | flow tables, frames | external: Open vSwitch under Mininet, built by `topology/fat_tree.py` | - |

How they interact. A switch opens a session; after FEATURES_REPLY the nexus files it
and tells the switch to delete all rules; the barrier reply raises ConnectionUp, which
creates a SwitchController. LLDP frames come back as PACKET_INs, and discovery raises
LinkEvents that change the graph and `neighbour`. Data PACKET_INs go to the host
tracker first (HostEvents change `hosts` and the graph), then to the SwitchController, which
installs a path. Rules ask for FLOW_REMOVED; one report makes the controller drop
the flow's entry and withdraw its rules everywhere. A lost link makes the controller
delete the rules by port, and their reports do the rest. Underneath, the scheduler's thread
runs every handler, the hub's thread wakes it, a third thread sends what sockets did not
take, and components find each other on the core while they are launched.

What is hard. The controller's handlers run one at a time, but three views of the network
(graph, adjacency, tracker), one registry (`flows`) and the tables of several switches are
kept in agreement by messages on independent sessions: reports arrive late and in any
order between sessions, a session may be lost with rules on it, a stale session's end may be
read after its successor's handshake, timers forget links and hosts while traffic
crosses them. POX itself shares queues and flags between threads without locks, and lets
handlers change the lists they are called from. `PROJECT.json` lists every such hazard at its
line with the properties that cover it.

What correctness means, by component:

- controller: a flow marked installed has its rules on a path; a forgotten flow has
  none anywhere; the path's switches all got a rule; equal-cost paths rotate;
- controller and discovery: the graph is the adjacency, each edge with a port;
- controller and tracker: same hosts, attached to the graph;
- sessions: a new session starts from an empty table, the nexus holds no dead session, messages
  leave whole, in order and at all, a lost session is reported;
- discovery and tracker: what is there is announced, heard and kept; what is silent goes;
- dispatch, scheduler, core: nobody is called twice or skipped, no task, signal, callback or
  request to quit is lost;
- spanning tree: no flooding loop, and floods get everywhere once the ports were looked at;
- software switch: the sorted table is an OpenFlow table, no buffer is lost, the controller
  knows the ports; with the learning switch, stale rules heal;
- topology entities: the controller's table and the switch's agree;
- whole: every frame is settled, every link is learned.

## Modules

    Topology <- Connection <- Controller <- Platform <- Deployment <- Properties <- MCLine, MCFaultFree
                                                              <- DeploymentProofs <- PathProofs (and MCLine)

    Core <- Boot (with Shutdown as Going) <- MCBoot, CoreProofs
    HostTracker <- MCHostTracker, TrackerProofs          Sending <- SendingProofs
    LLDPSender <- MCLLDPSender                           Recoco <- MCRecoco <- RecocoProofs
    SpanningTree <- MCSpanningTree                       Revent <- ReventProofs
    FlowTable <- SoftSwitch <- AnyController <- MCSoftSwitch (implements OpenFlowTable) <- TableProofs
              <- SyncTable <- MCSyncTable
                 SoftSwitch <- L2Learning <- MCL2Learning, MCSoftSwitch

The deployment:

- **Topology**: constants (switches, sessions, ports, links, hosts, flows) with their
  assumptions; frames; the shortest paths of a graph. `PathList` gives the set of paths some
  order that depends on the graph only, as networkx's generator does for one graph.
- **Connection**: `conState` (the life of a Connection object), `nexus`, `toSwitch` (what was
  written and not yet read). `Send` drops what goes to a closed session, as `Connection.send`.
- **Controller**: the state of Controller and of every SwitchController. One action per
  handler, with the exceptions the code swallows: an edge added without a SwitchController
  stays (`HandleLinkAdded`), a removal of an unknown edge does nothing more
  (`HandleLinkRemoved`), a KeyError in `update` would leave the rules already sent
  (`InstallPath`; `GraphHostsHavePorts` proves that it does not occur).
  A SwitchController is named by its session, so a stale one keeps its own `neighbour`.
- **Platform**: the read loop, discovery and the host tracker around the controller.
  One message is read at a time. `todo` is the rest of the dispatch of an event: LinkEvents to
  raise, links to pop, the controller's ConnectionDown, the SwitchController's PacketIn. Its
  order is the listeners' priority (discovery, tracker, controller). While `todo` is not
  empty no other message is read and no timer runs: POX tasks are cooperative.
- **Deployment**: switches, hosts and their faults, and `Next`. The environment moves between
  dispatches only; this loses nothing, since the handlers read none of its
  state, only what the read loop hands them.
- **Properties**: what the runs check.

What it rests on, each part by itself and in the detail the deployment leaves out:

- **Sending**: the scheduler's thread in `send`, `read` and `disconnect`, and the
  DeferredSender's thread. A message is two chunks, a socket has room for a few, a switch may
  go away. Each step is what happens between two points where the other thread can get in: the
  test of `sending` (without the lock), a write, the work under the lock, a select, the raising
  of ConnectionDown, the closing of the socket. `downs` records who raised it. Handlers of
  ConnectionDown send, too: discovery deletes the links of the switch, and the controller deletes
  the rules of other switches. In the scheduler's thread this is a send like any other, before
  the socket is closed (`closing`). In the sender's thread they run under its lock, which is
  reentrant, and what they send is put into the queues (`SenderHandles`); only afterwards is what
  was queued for the lost connection dropped (`SenderDrops`). A chunk has the thread that sent
  it and its number in what this thread sent.
- **HostTracker**: time in steps of `timerInterval`; ages of MAC entries and of IP entries,
  pings with their counts, answers on their way, `_check_timeouts` with its loops in order and
  the exception that ends the timer's task (`CheckFails`).
- **LLDPSender**: the two lists of the cycle as one ring, the timer in ticks, `num_per_cycle`
  packets at a time, ports added and deleted by PORT_STATUS and features replies, also while the
  handshake is under way. A modified port is neither, and LLDPSender does nothing.
- **Revent**: one source and one type of event. The list is a Python list: a dispatch walks it
  by index, `addListener` changes it in place, `removeListener` replaces it. `dispatch` is the
  stack of calls of `raiseEvent`.
- **Recoco**: program counters of the scheduler and of the hub, the deque of ready tasks with
  its event, the queue of registrations with its pinger, and other threads between their append
  and their signal.
- **Core**: `register` and `call_when_ready` with the stack of their nested calls;
  **Shutdown**: `goUp`, `quit`, `_quit` and the main thread; **Boot** composes them: components
  are launched, by which core's calls happen, until GoingUp and Up have been raised.

The other components:

- **SpanningTree**: discovery's adjacency with the order in which LinkEvents are raised, the
  tree computed from it, `_prev`, port_mods, the hold-down timers.
- **FlowTable**: entries, matches, insertion by binary search (`Halve` is one round of the loop,
  `Place` iterates it), `matching_entries`, all flow_mod commands; what a filter leaves of the list is
  a fold over its places (`Picked`). **OpenFlowTable** is the abstract specification: a set of
  entries, of which one with the highest priority decides. **SoftSwitch** adds buffers, actions,
  ports and timeouts, **AnyController** a controller that may ask for anything and the port list of
  its Connection, **L2Learning** the learning switch and hosts that move. AnyController's requests
  are any subset of all messages with its addresses (`FlowModMessages`, `PacketOutMessages`), of which
  MCSoftSwitch names a few.
- **SyncTable**: the synchronised flow table of a switch entity, its connection and the switch.

The slips defined just before some operators (`FlowRemovedKeepsEntry`, `AnyPort`, ...) are
plausible bugs; each property is shown to fail when one of them takes the operator's place.

## What the runs check

Several runs let the behaviour choose a variant at its start (`trouble`, `network`,
`population`, `use`); the constants of each variant stand in the MC module. All
runs pass.

| Run | Bounds and faults | Properties |
|---|---|---|
| `line` (MCLine) | two switches, two hosts, a ping and its answer; one of: s1 has two sessions, may lose its rules and sees traffic early (one frame, two messages per session, one flow); one link that LLDP and data may miss; hosts that may be forgotten (two frames, three messages per session) | `TypeOK`, `HostsMirrorTracker`, `NexusHoldsLiveSession`, `HandshakeLeavesNoRules`, `GraphMirrorsDiscovery`, `KnownHostAttached`, `InstalledDelivers`, `NoOrphanRules`, `PacketsMatch` |
| `fault_free` (MCFaultFree) | four switches with two equal-cost paths and two flows of one pair; the line, fair | `InstallsCoverPath`, `InstallsRotate`, `EveryFrameSettles`, `EveryLinkLearned` |
| `revent` (Revent) | three listeners, one dispatch inside another, handlers that add, remove, raise and fail | `InOrder`, `CalledOnceEach` |
| `sending` (Sending) | two connections, one of which may end; each thread sends up to two messages of two chunks on a connection, the sender's as a handler of ConnectionDown; sockets with room for two chunks | `BytesInOrder`, `DownOnceByEach`, `MessagesLeave`, `DownFollows` |
| `tracker` (MCHostTracker) | three hosts with different habits, four addresses, intervals of 1 and 2 steps, three pings | `AnsweringStays`, `GivenUpUnanswered`, `QuietLeave` |
| `lldp` (MCLLDPSender) | two switches with two ports each, two sends per cycle | `EveryPortInCycle`, `NoLinkStarves` |
| `recoco` (MCRecoco) | a consumer and a caller given work by a task and by threads; two tasks that select, sleep and block; a task and a scheduler that quits | `EachInOnePlace`, `NobodyOverslept`, `BothRunAgain` |
| `boot` (MCBoot) | three components, one registered twice, three waiters, one thread that quits, interrupts | `CalledOnceReady`, `NobodyForgotten`, `QuitEnds` |
| `tree` (MCSpanningTree) | a ring of three switches with a doubled cable, two cables that break, one switch that reconnects; four switches in a row, one of which reconnects; the ring held down with every switch reconnecting, by discovery cycles that complete or by any | `NoLoop`, `ReachesAll`, `NeverSoupHeldDown` |
| `soft` (MCSoftSwitch) | one switch, used for flow_mods (room for four of six entries), for buffers (two), for changes of ports, or by the learning switch; buffers and ports are checked in the first use too | `EachBufferReported`, `EveryPortKnown`, `ImplementsTable` |
| `learning` (MCL2Learning) | two hosts, three ports, two moves, fair | `Heals` |
| `sync` (MCSyncTable) | three flows; strict calls over one connection, or installations with a reconnection and slow answers, or everything at once | `TablesAgree`, `NoStrays`, `AllConfirmedAgain` |

What they show together: the agreement of the views holds through link loss, forgotten hosts
and any interleaving of reports, and where a session is lost as far as the properties say
(`InstalledDelivers`, `PacketsMatch` and, inside the properties, `SessionsLast` name the fault
that must be absent). POX's lock-free hand-overs are sound: the two threads that write to a
socket do not cut each other's messages and each keeps its order, no task or wake-up is lost, no
callback is forgotten. What does not hold is listed under "Disagreements".

Nearly every module with variables has a type invariant; only the one of the deployment is a property
of a run, because it is also the first theorem. The others were checked while the modules were
written, are used by the proofs where there are any, and stay as documentation.

### Bounds and why they are enough

- Two switches give every pair of roles (ingress/egress, link source/target) and two independent
  sessions; the diamond adds the choice of path. Traffic in the diamond goes one way.
- `MaxFrames` bounds data frames under way, `MaxBacklog` the messages a session carries before
  *timers, LLDP and hosts* wait (`Calm`); the controller and the switches never wait. Three
  messages let a rule, its withdrawal and a packet share a session.
- Two sessions for one switch: an old one and a new one at the same time.
- `frames` is a set: two copies of one frame at one place count once, which no handler
  distinguishes.
- `sending`: with room for two chunks and two messages of each thread (`MaxSent`, `MaxHandled`), a
  message is written at once, in part or not at all while another is queued, of the same thread or of
  the other; the two connections are the one that ends and the one that suffers from it.
- `tracker`: intervals of 1 and 2 steps keep `arpAware < arpSilent`, on which the order of
  expiries rests; three pings, each counted twice, need two checks. h3 can be heard without its
  address, so that an address is given up while its host stays.
- `lldp`: with four ports and two sends a cycle the chunk is one or two packets as ports come
  and go. `NoLinkStarves` leaves out changes while the timer runs, both properties what a features
  reply that was overtaken by a port_status says (see below); `hasty` and `outdated` name them.
- `revent`: a third listener is needed to skip one; one dispatch inside another is the first
  case in which the inner one replaces the list of the outer.
- `recoco`: one task in each role shows every hand-over, two tasks the competition for the
  hub; `MaxThreads` bounds threads between append and signal.
- `boot`: a waiter for each of two components and one for all three gives callbacks inside
  callbacks; a component registered twice raises ComponentRegistered for waiters that are gone.
- `tree`: a ring is the smallest loop between switches, a doubled cable the smallest loop
  between ports of two, a row of four the smallest network in which a cable joins two parts that have
  a tree each. In the row the event of the last direction found may be ignored (see below), after
  which the network settles in two parts: `ReachesAll` is about ports that were looked at
  with the links there are (`fresh`), which excepts this and the removal of a link, and nothing else. That no
  loop is ever open while held down rests on LLDP: until a connection is old, its links with older
  ones have been found (`CycleCompletes`, an assumption named in the run). Without it (`late`) the
  settled network is still free of loops and whole. A switch comes back only after the timer of its
  former connection has fired (`Hasty` is FALSE, see below).
- `soft`: entries that match exactly, by destination and by input port, with two priorities,
  overlap in all ways in which one match contains another; four of six fill the table.
- `sync`: one reconnection, two or three installations and two removals are enough for an answer
  to meet the operation that was repeated meanwhile.

`CHECK_DEADLOCK FALSE` is set where the system may stop or use up its bounds: `boot` (POX has
ended), `recoco` (the scheduler has quit, or all work is handed in), `sending` (all messages are
sent), `tree` (nothing breaks any more), `sync` (all calls have been made).

### Fairness

- Deployment (`LineFair` is `FairSpec` on the line): the controller's thread runs when it has work
  (a cooperative scheduler with no blocking handler); each session is read infinitely often when
  it is infinitely often readable (select returns all ready sockets, and the loop serves each);
  switches do their work, and each reads its session again and again (they are independent
  processes); a switch opens the session it has; an LLDP frame on a working link gets through
  again and again (LLDPSender cycles over all ports). Nothing is assumed of hosts, timers or faults.
- Sending: both threads run and a switch that is there reads. `SF(SendDefers)`: the scheduler's
  thread gets the lock that the sender releases at the end of each round; `SF(EndIsRead(c))`: the
  read loop returns to a socket whose end is readable although other work comes in between.
- HostTracker: time passes, the timer's task runs when it is due, and a host in `Answering`
  answers. Nothing is assumed of other hosts.
- Recoco: the two threads run, a thread that began to hand something in signals it, a blocking call
  returns, time passes.
- Boot: calls that are under way return, launching ends, threads run.
- L2Learning: messages are handled; a host goes on sending (strong, since the bound on
  messages makes it wait); an entry with a hard timeout expires. Nothing of idle timeouts.
- SyncTable: messages are delivered while the connection stands; a switch that is down comes back.

Counterexamples of liveness properties were taken seriously only under these.

## What is proved

TLAPS proves, for all values of the constants that meet the named assumptions of the modules
(functions have their domains, hosts are not switches, ports are not 0, the set of flows is
finite, `ArpAware < ArpSilent`, a socket has room for at least one chunk, ...):

| Theorem | Property | Argument |
|---|---|---|
| `DeploymentProofs!TypeCorrect` | `TypeOK` | inductive by itself; one lemma per action |
| `DeploymentProofs!NexusHoldsLive` | `NexusHoldsLiveSession` | from `NexusLive` |
| `DeploymentProofs!HandshakeClears` | `HandshakeLeavesNoRules` | from `HandshakeInv` |
| `DeploymentProofs!IndexInRange`, `IndexRotates` | - | arithmetic of `NextIndex` |
| `DeploymentProofs!HostsMirrored` | `HostsMirrorTracker` | from `HostViewsAgree` |
| `DeploymentProofs!GraphHostsHavePorts` | `GraphHostHasPort` | from `HostViewsAgree` |
| `DeploymentProofs!GraphMirrors` | `GraphMirrorsDiscovery` | from `GraphInv`, under `OneCable` |
| `DeploymentProofs!HostsAttached` | `KnownHostAttached` | from `GraphInv`, under `OneCable` |
| `DeploymentProofs!NoOrphans` | `NoOrphanRules` | from `RuleInv`, under `OneId` |
| `DeploymentProofs!Rotates` | `InstallsRotate` | `IndexRotates`, and that the list of paths lists the shortest ones; under `OneId`, `FiniteNetwork` |
| `PathProofs!Covers` | `InstallsCoverPath` | from `PortsLead`, `EdgePorts` and `HomeInv`; under `OneId`, `FiniteNetwork` and with no silent hosts |
| `PathProofs!Delivered` | `InstalledFlowDelivers` (run line: `InstalledDelivers`) | from `DeliveryInv`; under `OneId`, `FiniteNetwork`, `Cabled`, `TwoEnds`, with sessions that last and no early traffic (`Steady`), and no silent hosts or, with `Plugged`, no flaky links |
| `PathProofs!OutsMatch` | `PacketOutMatches` (run line: `PacketsMatch`) | from `GuideInv`; under `Wired` (the network hypotheses of `Delivered` and `Plugged`) and `Lasting` (`Steady`, no flaky links); hosts may fall silent |
| `PathProofs!MatchInRun`, `DeliverInRun` | `PacketsMatch`, `InstalledDelivers` | the last two for the behaviours of MCLine in which hosts are forgotten |
| `CoreProofs!CallbacksOnce` | `CalledOnceReady` | from `CoreInv` |
| `CoreProofs!NobodyIsForgotten` | `NobodyForgotten` | from `CoreInv` |
| `CoreProofs!BootCalls` | both, of the whole start-up | Boot's steps are steps of Core or leave it alone |
| `TrackerProofs!AnsweringHostsStay` | `AnsweringStays` | from `TrackerInv` |
| `TrackerProofs!GivenUpAfterPings` | `GivenUpUnanswered` | from `TrackerInv` |
| `SendingProofs!OneReportByEach` | `DownOnceByEach` | from `Reports` |
| `SendingProofs!StreamsInOrder` | `BytesInOrder` | from `InOrder` |
| `RecocoProofs!OnePlaceHolds` | `EachInOnePlace` | from `RecocoInv` |
| `RecocoProofs!NoneOverslept` | `NobodyOverslept` | from `RecocoInv` |
| `ReventProofs!ListInOrder` | `InOrder` | from `HandlersInv` |
| `ReventProofs!EachCalledOnce` | `CalledOnceEach` | from `ReventInv`, with late listeners that have no priority |
| `TableProofs!TypesHold` | type invariant of AnyController | inductive by itself: entries are made of what was asked for, messages of what arrived |
| `TableProofs!PortsHoldInRun` | `EveryPortKnown` | from `NewsKept` |
| `TableProofs!BuffersHoldInRun` | `EachBufferReported` | from `BuffersKept`, under `NoLateRewrites` |
| `TableProofs!TableKeepsPromise` | `ImplementsTable` | every step of the switch is one of OpenFlowTable or leaves it alone, given `Tidy` |

Why the invariants are what they are:

- `HostViewsAgree` (graph nodes, `hosts` and the tracker name the same hosts) is needed because
  `HandleHostSeen` decides on two records separately: only if they agree beforehand do
  they agree afterwards. It also needs that an absent location differs from every location, also
  after a move, where the tracker changes the switch and keeps the port.
- `NexusLive` adds to the property that a session is filed under its own switch, or
  `Disconnect`, which erases by datapath, could leave it elsewhere.
- `HandshakeInv` says why nothing interferes with a handshake: the controller holds only
  sessions whose handshake is over (`HandlesSettled`), so until then a session carries at most
  the DELETE of every rule and then the barrier request (`HandshakeAlone`); what has read
  the DELETE has no rules (`RulesGone`); sessions have one owner (`SessionsOwned`).
- `GraphInv` says how graph and adjacency differ inside a dispatch: a link whose removal was
  told is out of the graph and still in adjacency (`EdgesAnnounced`, `PortsAnnounced`, with the
  order of the calls in `CallsInOrder`). As long as sessions last, no message ends one or names
  a switch that was never up (`NothingEnds`), so every edge gets a port and no ConnectionUp comes
  a second time and forgets the ports (`UpRegistered`); a node, once there, keeps its edges to
  its hosts (`AllAttached`). `OneCable` - no two cables join the same two switches - is an
  assumption of the theorem, and a real one: see the disagreements.
- `RuleInv`: what `_handle_flow_removal` writes is behind whatever the same session still carries,
  so a rule of a forgotten flow, in a table or on its way, has its withdrawal after it
  (`RulesWithdrawn`, which is a statement about the order of a queue). To begin with there is
  nothing to withdraw: a switch has no rules until its ConnectionUp (`FreshTables`, which needs
  `HandshakeInv`). And no withdrawal is dropped, since a session that is in use is open
  (`NoneClosed`).
- A path that is installed is covered because each edge of the graph has a SwitchController
  with its port (`EdgePorts`), that port leads to the neighbour (`PortsLead`: a SwitchController's
  ports come from links of the network), and a host is filed where it is plugged
  (`HostsHome`). The last is the hard part: the tracker files a host wherever a packet of it
  is first reported. A host that the tracker does not know has packets at its own switch only
  (`StrangersAtHome`), because no rule carries them on (`StrangersStay`): a rule is written for a
  flow whose source is known. The rest is what the lists of paths are: `Walks` is unfolded
  up to the distance, so a shortest path is a walk along edges and the list names each once.
- `DeliveryInv`: the rules of an installed flow are in the tables only after a while, and a link that
  expires takes some away, so the tables say little before the network is quiet. What holds at every
  step is about the rule a switch *will end with* when it has read its queue (`Ends`, a statement about
  the order of DELETEs and ADDs in it): either these rules make a way without loops from the flow's
  source to its destination (`Carried`), or one of them is going to be lost, by a message that is still
  in a queue (`Loses`), or was lost and its FLOW_REMOVED is on the way to the controller, which will then
  drop the mark (`Doomed`). Each step keeps this: messages behind a rule either leave it or lose it
  (`EndsAppend`), a message that is read does what the queue promised (`EndsTail`, `LosesTail`), what the
  controller writes is behind what it wrote before (`OthersSpare`), and the report of a loss waits until
  the flow is forgotten (`LossStays`). It begins with `Covers`, for which every switch must be up when a
  packet comes (`TrafficUp`). When nothing is under way no rule is going to be lost, so the tables hold
  the way (`CarriedDelivers`); a frame follows it, as a cable leads back to where it came from
  and the way does not go there (`RouteDelivers`).
- `GuideInv`: that a packet sent back to a table (OFPP_TABLE) finds its rule is a matter of three
  queues: what was reported, what is to be handled and what is written to the switch. Where links and
  sessions last nothing takes a rule away once the handshake is over (`NothingTaken`), so what a
  switch has or is told stays with it or on its way (`Coming`, `ComingStays`). Then the rules guide the frames: the switch
  of the source of an installed flow has a rule coming (`FlowsStart`), and a rule out of a link is
  followed by one at its other end (`RulesLead`, for which the port of a link must tell it apart:
  `Plugged`). A frame, or a report of it, is hence where its sender is plugged or at the end of a
  link discovery knows, and in the second case at a switch with its rule coming (`Guided`). This has two
  consequences. In the queue to a switch each packet has its rule in the table or ahead of it (`OutsServed`):
  a packet of a path just installed comes after the path's rules. And a host is learned where it is plugged, even
  if the tracker forgot it while its rules were there (`GuidedJoins`), which gives `HostsHome`, and so `Delivered`,
  for networks with silent hosts.
- `RecocoInv`: each task is in one place (`PlacesInv`) for which the program counters of the
  two threads say where it is in transit (`SchedInv`, `HubInv`). That nothing is overslept needs
  for each list who still owes a signal: a registration has a ping behind it or the hub drains
  already (`PingInv`), a ready task has the event set or a thread about to set it
  (`SchedulerWoken`), and work handed in has its ScheduleTask ready, or on its way, unless the
  consumer is awake (`WorkersWoken`).
- `ReventInv`: a dispatch that walks a list has called its first `passed` entries, in this
  order (`DispatchInv`). This survives `addListener`, which changes the list that is being
  walked, as what it adds is sorted to the end; and `removeListener`, which leaves the walked
  list alone and gives the source a copy, after which the dispatch goes on with its own.
- `CoreInv`: a waiter whose components are all there may be listed while calls are under way; what
  holds throughout is that some frame of the stack will still try it (`ReadyTried`).
- `TrackerInv`: a MAC entry has been heard at least as recently as each of its live addresses
  (`EntryOlder`), the count that is tested is twice the pings sent (`CountedTwice`), a ping that is
  counted against a host that answers is still in flight (`InFlight`), and none is when the timer is due (`AnsweredInTime`).
- `InOrder` of SendingProofs: while a socket is open, what was written and what is queued form one line of
  whole messages, and what the scheduler's thread holds comes next for that thread (`InLine` in `Ordered`). A
  message of the sender's thread must not get between two halves, and this is why it does not: the
  scheduler's thread writes only after it found the flag unset, hence nothing queued
  (`NothingStranded`); as long as it writes, or holds what a write left over, nothing is queued
  (`QueuesWait`), because the one other thread that could queue something, in handlers of
  ConnectionDown, is there only while the connection it reports has data queued (`Serving`; lemma
  `HandlersMeet`). So these handlers meet a flag that is set and a scheduler's thread that holds a whole
  message or none; their message may overtake that one, and nothing else.
- `Reports`: a thread about to raise ConnectionDown has not raised it before.

- `NewsKept`: port_status messages wait in a queue while ports change again, so an older one may say
  what is no longer so. What holds is that the *last* one on its way about a port that is there tells
  the truth, and that where none is on its way the controller has been told.
- `BuffersKept` (`Accounted` with nothing under way): a slot is in use if and only if one message is
  about it, held by the controller or in the queue. Between the taking of a buffer and the
  end of its actions one slot is in use that no message is about; `Accounted` names it,
  so that it can be kept along the actions: a packet that is buffered anew goes to a *free* slot, hence not to
  this one and to none that is reported.
- `Tidy`: the list is sorted by effective priority and has no two entries of the same match and
  priority. The first is what makes the first match one of the highest priority; `Placed` shows
  by induction over the rounds of the binary search that everything before the place found is at least,
  and everything from it on at most as high as the new entry. The second is what lets the abstract table be
  a set: without it a limit on the length of the list would not be one on the number of entries,
  and the removal of one of two equal entries would not show. An ADD keeps it, as it removes what it
  replaces; a MODIFY, as it changes actions only.

The inductive invariants were checked with TLC on the instances of the runs before they were
proved.

Hypotheses of theorems, beyond the assumptions of the modules:

- `OneId`: no two flows have the same `flow_id`. With a collision of the crc the second flow is held
  installed and gets no rules (see the disagreements), so the theorems on rules exclude it.
- `OneCable`: see `GraphInv`.
- `FiniteNetwork`: switches and hosts are finite sets, or a graph might have no shortest path.
- `SilentHosts = {}` in `Covers`, and in `Delivered` unless `FlakyLinks = {}`: where links expire too, a
  host that is forgotten while its rules remain may be learned anew at a port between switches, and
  is then not where the graph puts it.
- `FlakyLinks = {}` in `OutsMatch`: a link that expires takes rules away for which packets are already on
  their way back.
- `Plugged` in `OutsMatch`, and in `Delivered` with silent hosts: a port has one cable *out*, so that the
  link a rule leads to is the one discovery knows.
- `Cabled` and `TwoEnds` in `Delivered`: a port has one cable, to a host or to one switch, whose two
  directions join the same ports, as in any network Mininet builds; no flow goes from a host to
  itself. A switch does not send a frame back out of the port it came in by, so without them
  rules of a path need not carry it.
- `LossySwitches = {}` and `~ EarlyTraffic` (`Steady`) in `Delivered` and `OutsMatch`: no session is lost, and hosts send once every
  switch is up. Both exclude real disagreements (a session that ends with a rule on it, a path through
  a switch in handshake), after which a flow is marked installed that no rules carry. Links may
  be lost and found (`FlakyLinks` is any set). Runs line and fault_free meet all these hypotheses, and
  those of `OutsMatch`, in one of their variants each.
- `NoLateRewrites` in `BuffersHoldInRun`: no list of actions has a `set_dst` or an output to the table
  after an output to the controller or to the table. Otherwise the packet in the buffer is the very
  object that is rewritten (see the disagreements), and is not what was reported. The requests
  of the run meet it.
- The theorems of TableProofs are about the uses of a software switch that AnyController describes,
  hence `use = "table"` where a property of MCSoftSwitch is named: the constants of this use are
  those of the module and any in the theorems, so those of "buffers" and "ports" are among them.
- `LatePriorities` has only `NoPriority` in `EachCalledOnce`: a handler that adds a listener of
  higher priority is called twice (see the disagreements). Nothing in the repository does so. The
  order of the list (`ListInOrder`) holds without it.
- `[]InWork` in the theorems on Recoco: MCRecoco is three populations in one run, and this names
  the one that has MCRecoco's own constants, which in the theorem are any.

On induction. The library's induction theorems take an operator as a parameter and cannot be used
with the provers at hand. `ReventProofs!Inductive` states induction for a *set* of naturals
instead, and proves it from the pigeonhole principle for finite sets (`FS_PigeonHole`): were n
missing from T, adding one would map the finite set of the members of T up to n one to one into
what is left of it without 0 (`DeploymentProofs!Induct` is the same for `Walks` and for the hops of a frame). This makes what a
recursive function computes provable:
`SelectionSteps` shows that the recursion of `Selected` (the filter that removeListener and the
one-shot listeners apply) has a solution, `SelectedHolds` what it keeps. `SelectSeq` would say the
same, but the provers know nothing of it.

Folds are defined by a function that is chosen by its recursion over subsets of the places. TableProofs
shows that there is such a function (`FoldRecursion`) and that its value for all places is the last
member of a chain of states, each made from the one before by the next element (`FoldChain`).
What a list of actions does (`DoChain`), what a filter leaves and in which order
(`PickedOrigins`), and how far the search narrows down (`Repeated`) then follow by induction along the chain.

Only model-checked:

- `InstalledDelivers` in the behaviours of MCLine whose link expires, under that name:
  `Delivered` says the same of their constants, but MCLine has them in an instance
  of the deployment, and its own constants are those of the behaviours with silent hosts;
- liveness, under fairness, and all that rests on ENABLED, which are out of the prover's reach;
- `NoBufferLeaks` and `Heals` of L2Learning, whose controller is not AnyController;
- LLDPSender, whose cycle is filtered and turned, and SyncTable, whose operations meet their answers
  in an order that only the small instances have been searched for;
- SpanningTree: its search of the tree is a RECURSIVE operator, with which the SMT backend is
  not available.

## Disagreements

Places where the code does other than its comments, docs or evident purpose say. Each was met
as a counterexample; the properties of the runs are stated so as to leave it out, and the last
column says how to see it (a definition to check or constants to change).

| Where | What happens | How to see it |
|---|---|---|
| `controller.py:126` | a switch restarts without its rules; the flow is still marked installed, so its packets go round between switch and controller for ever (`switch.py:48`: "sacandolo por el puerto que matchea con la nueva regla") | line, `Restarts`, `FairSpec`: frames do not settle |
| `controller.py:142` | a session ends with a rule on it; the flow stays marked installed (`:116`: "para todos los switches del path") | line, `LossySwitches`: `InstalledFlowDelivers` |
| `openflow/__init__.py:373` | the end of the old session, read late, erases the new one from nexus and graph (`:344`) | line, `LossySwitches`: a connected switch is not in the nexus |
| `controller.py:80` | a link found during the handshake of a switch that reconnects becomes an edge without a port (`switch.py:19`) | line, `LossySwitches`: `GraphMirrorsDiscovery` without `SessionsLast` |
| `controller.py:160` | the node of a switch is removed and comes back; its hosts are not attached again (`:19`) | line, `LossySwitches`: `KnownHostAttached` without `SessionsLast` |
| `controller.py:137` | a path through a switch in handshake is marked installed without that switch's rule (`:116`) | line, `EarlyTraffic`: `Covered` |
| `host_tracker.py:349` | a frame crosses a link that has expired; its host is learned at the inter-switch port (`:350`) | line, `FlakyLinks`, `SilentHosts`: a tracked location is not `Attach` |
| `controller.py:119` | two flows with the same crc share an entry; the second never gets rules | `FlowId` not injective: `PacketOutMatches` |
| `switch.py:91` | of two cables to one neighbour one fails: graph and `neighbour` lose both (`:19`) | `Links` with two cables, one flaky: `GraphMirrorsDiscovery` |
| `of_01.py:333` | a closed connection stays among those selected on; the deferred sender's thread dies and strands what is queued for every switch | sending: `MessagesLeave` without `sender.doing = "dead"` |
| `of_01.py:659` | the read loop and the sender's thread both raise ConnectionDown for one connection | sending: `Len(downs[c]) <= 1` |
| `host_tracker.py:414` | the clean-up of an entry with addresses left deletes the wrong name; KeyError ends the timer's task | tracker: `QuietLeave` without `timer # "dead"` |
| `host_tracker.py:167` | an address first seen in IP keeps its long interval when it answers ARP; its MAC entry expires without a ping | tracker, h1 sends "ip" and "arp": `AnsweringStays` without the condition `hasARP` |
| `host_tracker.py:405` | each ping is counted twice, so two of `pingLim = 3` are sent | tracker: `tries > PingLim` in `GivenUpUnanswered` |
| `host_tracker.py:407` | an address outlives its MAC entry ("there should be no IP addresses left", `:409`) | tracker, a host that sends "ip" |
| `discovery.py:92` | a port reported by PORT_STATUS during the handshake is deleted by the older features reply | lldp: `EveryPortInCycle` without `outdated` |
| `discovery.py:125` | each change of a port restarts the timer; changes in quick succession keep LLDP from being sent | lldp: `NoLinkStarves` without `hasty` |
| `revent.py:275` | a handler that adds a listener of higher priority is called again for the same event ("Create a copy", `:273`: none is made) | revent, `LatePriorities = {0, 1, 2}`: `CalledOnceEach` |
| `revent.py:281` | a one-shot handler that fails, or raises the event itself, is called again (`:385`) | revent: count the calls of a one-shot listener over dispatches |
| `core.py:280` | POX ends without DownEvent when the main thread tests `running` between its reset and the event (`:141`) | Shutdown: `events` at the end |
| `core.py:333` | UpEvent is raised after GoingDownEvent (`:137`) | Shutdown: order of `events` |
| `discovery.py:452` | the tree is computed while the links that are gone are still in adjacency; the redundant cable stays blocked | tree, "doubled": `FloodReaches` without `fresh` |
| `spanning_tree.py:160` | with one direction of a link found both its ports are blocked, and the event of the other is ignored: two parts are never joined | tree, "row": `FloodReaches` without `fresh` |
| `spanning_tree.py:152` | the hold-down timer of a former connection ends the hold-down of the present one | tree, "held" with `Hasty`: `NeverSoup` |
| `of_01.py:168` | a deleted port is still found by its number (`:465`) | soft, "ports": compare `known` with the switch's ports |
| `switch.py:695` (datapaths) | actions rewrite the packet that is in the buffer | soft, "buffers" with a packet_out to the controller and then `set_dst` |
| `flow_table.py:351` | an overlap where neither match contains the other is not found (`:331`) | soft, "table" with CHECK_OVERLAP on such a pair |
| `topology.py:391` | a reconnection adds what it installs again a second time; copies stay after a removal | sync, "again" with removals: `InSync` |
| `topology.py:384` | a reconnection drops pending removals; the entry comes back | sync, the same: `AsAsked` |
| `topology.py:366` | `remove_with_wildcards` raises while an installation is pending | sync, `Patterns`: `AsAsked` |
| `topology.py:395` | an installation after a removal is not sent while the first one waits for its barrier | sync, `MayReuse`: `AsAsked` |
| `topology.py:451` | a notice of a timeout overtakes the answer to the installation; the entry stays for good | sync, `MayExpire`: `InSync` |
| `topology.py:100` | ConnectionDown of an old connection resets the new one; nothing is sent any more | sync, `MayOverlap`: pending operations stay |

## What is abstracted

- **Time.** In the deployment a flaky link can expire at any moment, a silent host can be forgotten
  at any moment, the others never. HostTracker and LLDPSender count steps of their timers; the other
  modules let a timeout happen at any moment.
- **Messages.** A flow is a model value; a rule matches one flow; an LLDP frame is the link
  it reveals. LLDP and ARP rules that discovery and the tracker install are left out: they
  only make the switch report these frames, which the model does anyway.
- **Sessions.** The deployment's sends succeed or are dropped; partial writes and socket errors
  are in Sending. PACKET_INs before the handshake is over reach the tracker but no SwitchController,
  as in the code.
- **Switches.** Open vSwitch as the code relies on it: rules survive a lost session, a
  missed packet is dropped without a session, a packet is not sent out of its input port.
- **Paths.** The order of the list of paths is arbitrary but fixed for a graph.
- **Matches.** The software switch's matches have three fields, each a value or a wildcard.

## Not modelled

- **Dijkstra and Graph** (`extensions/dijkstra.py`, `graph.py`): nothing imports them.
- **The search inside `all_shortest_paths`**: sequential; the controller depends on the set it returns
  and on the order being the same for the same graph.
- **The rest of networkx**, vendored: a DiGraph is its nodes and edges here.
- **Wire formats** (`libopenflow_01.py`, `nicira.py`, `lib/packet/`): encoding and decoding without
  state.
- **FatTree**: declares a topology to Mininet once; the models take any topology.
- **Sessions**: statistics, echo, error messages and port status only raise events; out-of-band
  data is not sent by switches.
- **Recoco**: priorities below 1, tasks with a target and Synchronizer, which nothing uses (a SyncTask
  cannot even be constructed: its `run` is no generator and its locks do not exist yet).
- **Boot**: the command line, imports, and the lookup of handlers by name.
- **SpanningTree**: the coalesced features requests, which change nothing the tree depends on.
- **Software switch**: statistics, queues, vendor messages, hello, fragments.
- **Topology entities**: ports, links between entities, and RECONNECT_TIMEOUT.
- **Other POX applications** (NAT, DHCP, messenger, web, l3_learning, ...): each an application
  of its own that this program does not start.
- **Container files.**

## What is left

- Rerouting over the diamond when one of its links is lost: with four sessions and a flaky link the
  state space is out of TLC's reach; the line has the loss and the recovery, the diamond the choice.
- The life cycle of a flow (absent, pending, installed, withdrawn) as an abstract specification of the
  deployment while sessions last.
- Theorems: that a port in LLDPSender's cycle stays in it (`EveryPortInCycle`, by induction over the cycle as in
  ReventProofs); `NoStrays` of SyncTable; the buffers of the learning switch, from `Accounted`.
