----------------------------- MODULE LLDPSender -----------------------------
(***************************************************************************)
(* The cycle of discovery packets: LLDPSender of                           *)
(* pox/openflow/discovery.py.  Every port of every connected switch is to  *)
(* be announced once in send_cycle_time, half of the link timeout, or      *)
(* links that are up expire.  Ports come and go meanwhile.                 *)
(***************************************************************************)
EXTENDS Integers, Sequences, FiniteSets
LOCAL INSTANCE SequencesExt
LOCAL INSTANCE FiniteSetsExt

CONSTANTS
    Switches,
    PortsOf,       \* PortsOf[s]: the ports s may have
    CycleTime,     \* send_cycle_time, in ticks
    MaxSends,      \* timer runs per cycle: _sends_per_sec * send_cycle_time
    Patience       \* how long silence is counted, in ticks

PortNumbers == UNION { PortsOf[s] : s \in Switches }
AllPorts    == { sp \in Switches \X PortNumbers : sp[2] \in PortsOf[sp[1]] }

ASSUME LLDPSenderAssumption ==
    /\ CycleTime \in Nat /\ MaxSends \in 1..CycleTime /\ Patience \in Nat
    /\ \A n \in 1..Cardinality(AllPorts) : CycleTime % Min({n, MaxSends}) = 0

VARIABLES
    phase,      \* each session: none, handshake (features reply read), up
    ports,      \* the ports each switch has
    features,   \* the ports in its features reply
    thisCycle,  \* _this_cycle
    nextCycle,  \* _next_cycle
    left,       \* time to the timer's next run
    silent,     \* time since each port was announced or appeared (history)
    calm,       \* time since the timer was set (history)
    hasty,      \* whether it was ever set before a cycle was over, or for an
                \* uneven number of packets (history)
    outdated    \* ports about which the features reply was out of date at
                \* ConnectionUp, and that did not change since (history)

vars == <<phase, ports, features, thisCycle, nextCycle, left, silent, calm, hasty, outdated>>

TypeOK ==
    /\ phase \in [Switches -> {"none", "handshake", "up"}]
    /\ ports \in [Switches -> SUBSET PortNumbers]
    /\ features \in [Switches -> SUBSET PortNumbers]
    /\ thisCycle \in Seq(AllPorts) /\ nextCycle \in Seq(AllPorts)
    /\ left \in 0..CycleTime
    /\ silent \in [AllPorts -> 0..Patience]
    /\ calm \in 0..Patience
    /\ hasty \in BOOLEAN /\ outdated \subseteq AllPorts

Init ==
    /\ phase = [s \in Switches |-> "none"]
    /\ ports = [s \in Switches |-> PortsOf[s]]
    /\ features = [s \in Switches |-> {}]
    /\ thisCycle = <<>> /\ nextCycle = <<>>
    /\ left = 0
    /\ silent = [sp \in AllPorts |-> 0]
    /\ calm = 0
    /\ hasty = FALSE /\ outdated = {}

-----------------------------------------------------------------------------
Packets == Len(thisCycle) + Len(nextCycle)
Live    == { sp \in AllPorts : phase[sp[1]] = "up" /\ sp[2] \in ports[sp[1]] }

\* The time between two runs of the timer, none without packets.
Interval(n) ==
    IF n = 0 THEN 0 ELSE CycleTime \div Min({n, MaxSends})

\* The packets a run sends: a fraction is made up for by chance.
Chunks(n) ==
    IF n <= MaxSends THEN {1}
    ELSE {n \div MaxSends} \cup (IF n % MaxSends = 0 THEN {} ELSE {n \div MaxSends + 1})

\* The runs of the timer divide n packets evenly.
Even(n) == Cardinality(Chunks(n)) = 1

Due == Packets > 0 /\ left = 0

\* _set_timer: the old timer is cancelled, the new one starts from zero.
SetTimer ==
    /\ left' = Interval(Len(thisCycle') + Len(nextCycle'))
    /\ calm' = 0
    /\ hasty' = (\/ hasty
                 \/ Packets > 0 /\ (calm < CycleTime \/ Due)
                 \/ ~ Even(Len(thisCycle') + Len(nextCycle')))

Minus(list, gone) == SelectSeq(list, LAMBDA sp : sp \notin gone)

OfSwitch(s) == { sp \in AllPorts : sp[1] = s }

\* Slip: a port that is known already is added again.
AddAgain(gone, new) ==
    /\ thisCycle' = IF new = <<>> THEN Minus(thisCycle, gone) ELSE thisCycle
    /\ nextCycle' = (IF new = <<>> THEN Minus(nextCycle, gone) ELSE nextCycle) \o new

\* Slip: what this cycle had left to send is lost.
DropThisCycle(gone, new) ==
    /\ thisCycle' = <<>>
    /\ nextCycle' = Minus(nextCycle, gone) \o new

\* del_switch, del_port and add_port: ports go from both lists, and those
\* that are added go to the end of the next cycle.
Replace(gone, new) ==
    /\ thisCycle' = Minus(thisCycle, gone)
    /\ nextCycle' = Minus(nextCycle, gone) \o new

\* A switch opens its session, up to the features reply.
FeaturesReply(s) ==
    /\ phase[s] = "none"
    /\ phase' = [phase EXCEPT ![s] = "handshake"]
    /\ features' = [features EXCEPT ![s] = ports[s]]
    /\ UNCHANGED <<ports, thisCycle, nextCycle, left, silent, calm, hasty, outdated>>

\* _handle_openflow_ConnectionUp: the ports are those of the features reply,
\* in any order.
ConnectionUp(s) ==
    /\ phase[s] = "handshake"
    /\ phase' = [phase EXCEPT ![s] = "up"]
    /\ \E new \in SetToSeqs({s} \X features[s]) : Replace(OfSwitch(s), new)
    /\ SetTimer
    /\ silent' = [sp \in AllPorts |-> IF sp[1] = s THEN 0 ELSE silent[sp]]
    /\ outdated' = outdated \cup { sp \in OfSwitch(s) : (sp[2] \in features[s]) # (sp[2] \in ports[s]) }
    /\ UNCHANGED <<ports, features>>

\* _handle_openflow_ConnectionDown.
ConnectionDown(s) ==
    /\ phase[s] # "none"
    /\ phase' = [phase EXCEPT ![s] = "none"]
    /\ Replace(OfSwitch(s), <<>>)
    /\ SetTimer
    /\ outdated' = outdated \ OfSwitch(s)
    /\ UNCHANGED <<ports, features, silent>>

\* A port is added or deleted; _handle_openflow_PortStatus hears of it as soon
\* as the switch has a session, in its handshake too.  A port that is only
\* modified is neither, and nothing happens.
PortStatus(s, p) ==
    /\ ports' = [ports EXCEPT ![s] = IF p \in @ THEN @ \ {p} ELSE @ \cup {p}]
    /\ IF phase[s] = "none" THEN UNCHANGED <<thisCycle, nextCycle, left, calm, hasty>>
       ELSE /\ Replace({<<s, p>>}, IF p \in ports[s] THEN <<>> ELSE << <<s, p>> >>)
            /\ SetTimer
    /\ silent' = [silent EXCEPT ![<<s, p>>] = 0]
    /\ outdated' = outdated \ {<<s, p>>}
    /\ UNCHANGED <<phase, features>>

\* _timer_handler: the head of this cycle is sent and goes to the next; the
\* next cycle begins when this one is empty.  Both lists, one after the
\* other, just turn.
TimerHandler ==
    /\ Due
    /\ \E num \in Chunks(Packets) :
         LET ring == thisCycle \o nextCycle
             turn == SubSeq(ring, num + 1, Packets) \o SubSeq(ring, 1, num)
             rest == (Len(thisCycle) - num) + (IF num > Len(thisCycle) THEN Packets ELSE 0)
         IN  /\ thisCycle' = SubSeq(turn, 1, rest)
             /\ nextCycle' = SubSeq(turn, rest + 1, Packets)
             /\ silent' = [sp \in AllPorts |->
                  IF \E i \in 1..num : ring[i] = sp THEN 0 ELSE silent[sp]]
    /\ left' = Interval(Packets)
    /\ UNCHANGED <<phase, ports, features, calm, hasty, outdated>>

Tick ==
    /\ ~ Due
    /\ left' = IF left = 0 THEN 0 ELSE left - 1
    /\ silent' = [sp \in AllPorts |-> IF sp \in Live THEN Min({silent[sp] + 1, Patience}) ELSE 0]
    /\ calm' = Min({calm + 1, Patience})
    /\ UNCHANGED <<phase, ports, features, thisCycle, nextCycle, hasty, outdated>>

Next ==
    \/ TimerHandler \/ Tick
    \/ \E s \in Switches :
         \/ FeaturesReply(s) \/ ConnectionUp(s) \/ ConnectionDown(s)
         \/ \E p \in PortsOf[s] : PortStatus(s, p)

Spec == Init /\ [][Next]_vars

-----------------------------------------------------------------------------
\* The two lists hold each port of each connected switch once, and no other
\* ("Track changes to switch ports"), whatever ports come and go in which
\* order, during handshakes too.  A switch in its handshake may have some
\* already; a port that changed during it, and was reported, is what the older
\* features reply says until it changes again.
EveryPortInCycle ==
    LET ring == thisCycle \o nextCycle
    IN  /\ IsInjective(ring)
        /\ Live \ outdated \subseteq ToSet(ring)
        /\ \A i \in DOMAIN ring :
             ring[i] \in Live \cup outdated \/ phase[ring[i][1]] = "handshake"

\* As long as ports change when every packet was sent, and the packets divide
\* evenly, no port the features reply was right about is silent for the link
\* timeout, two cycles, and no link expires that is up.
NoLinkStarves ==
    ~ hasty => \A sp \in Live \ outdated : silent[sp] <= 2 * CycleTime
=============================================================================
