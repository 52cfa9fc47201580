----------------------------- MODULE PathProofs -----------------------------
(***************************************************************************)
(* The rules of the paths the controller installs, in a deployment of any  *)
(* size.  While every switch is connected, each hop of a path is told a    *)
(* rule out of a port that leads to the next hop (Covers): the controller  *)
(* knows hosts and links where they are.                                   *)
(*                                                                         *)
(* When the network is quiet, the rules of a flow that is marked installed *)
(* carry it to its destination (Delivered).  A rule is sent, read and      *)
(* taken away in steps that cross each other, so the invariant speaks of   *)
(* the rule a switch will end with once it has read its queue: every       *)
(* installed flow is carried by such rules, or a message that will take    *)
(* one of them, or the report that one is gone, is on its way.             *)
(*                                                                         *)
(* Where links last, a packet that is sent back to the table of a switch   *)
(* finds its rule there (OutsMatch): frames and reports are only where     *)
(* rules, written or still to be read, have led them.                      *)
(***************************************************************************)
EXTENDS DeploymentProofs, MCLine

-----------------------------------------------------------------------------
(* Where messages, frames and rules come from.                             *)

\* m is somewhere in the queue q.
Has(q, m) == \E i \in 1 .. Len(q) : q[i] = m

LEMMA HasAppended ==
    ASSUME NEW S, NEW q \in Seq(S), NEW r \in Seq(S), NEW m, Has(q \o r, m)
    PROVE  Has(q, m) \/ Has(r, m)
<1> DEFINE s == q \o r
<1>1. /\ Len(s) = Len(q) + Len(r) /\ Len(q) \in Nat /\ Len(r) \in Nat
      /\ \A i \in 1 .. Len(q) : s[i] = q[i]
      /\ \A i \in Len(q) + 1 .. Len(s) : s[i] = r[i - Len(q)]
  OBVIOUS
<1>2. PICK i \in 1 .. Len(s) : s[i] = m
  BY DEF Has
<1> HIDE DEF s
<1>3. CASE i \in 1 .. Len(q)
  BY <1>1, <1>2, <1>3 DEF Has
<1>4. CASE i \notin 1 .. Len(q)
  <2>1. i \in Len(q) + 1 .. Len(s) /\ i - Len(q) \in 1 .. Len(r)
    BY <1>1, <1>2, <1>4
  <2>2. QED BY <1>1, <1>2, <2>1 DEF Has
<1>5. QED BY <1>3, <1>4

LEMMA HasTail ==
    ASSUME NEW S, NEW q \in Seq(S), q # <<>>
    PROVE  Has(q, Head(q)) /\ \A m : Has(Tail(q), m) => Has(q, m)
<1> DEFINE r == Tail(q)
<1>1. /\ Len(q) \in Nat \ {0} /\ Len(r) = Len(q) - 1 /\ Head(q) = q[1]
      /\ \A i \in 1 .. Len(r) : r[i] = q[i + 1]
  OBVIOUS
<1> HIDE DEF r
<1>2. Has(q, Head(q))
  BY <1>1 DEF Has
<1>3. ASSUME NEW m, Has(r, m) PROVE Has(q, m)
  <2>1. PICK i \in 1 .. Len(r) : r[i] = m
    BY <1>3 DEF Has
  <2>2. i + 1 \in 1 .. Len(q) /\ q[i + 1] = m
    BY <1>1, <2>1
  <2>3. QED BY <2>2 DEF Has
<1>4. QED BY <1>2, <1>3 DEF r

LEMMA HasOne ==
    ASSUME NEW m, NEW k, Has(<<k>>, m)
    PROVE  m = k
BY DEF Has

LEMMA HasNone == \A m : ~ Has(<<>>, m)
BY DEF Has

\* What a switch reports joins what it reported before.
LEMMA ReportedNew ==
    ASSUME TypeOK, NEW s, NEW q \in Seq(Reports), Report(s, q), NEW c \in Conns,
           NEW m, Has(fromSwitch'[c], m)
    PROVE  Has(fromSwitch[c], m) \/ (c = session[s] /\ Has(q, m))
<1>1. fromSwitch \in [Conns -> Seq(Reports)]
  BY DEF TypeOK, PltTypeOK
<1>2. CASE c = session[s]
  <2>1. fromSwitch'[c] = fromSwitch[c] \o q
    BY <1>1, <1>2 DEF Report
  <2>2. QED BY <1>1, <1>2, <2>1, HasAppended
<1>3. CASE c # session[s]
  <2>1. fromSwitch'[c] = fromSwitch[c]
    BY <1>1, <1>3 DEF Report
  <2>2. QED BY <2>1
<1>4. QED BY <1>2, <1>3

\* The reports of deleted rules: each of a rule that was there.
LEMMA DeletedReports ==
    ASSUME TypeOK, NEW s \in Switches, NEW fs \in SUBSET Flows, DeleteRules(s, fs)
    PROVE  \E q \in Seq(Reports) :
             /\ Report(s, q)
             /\ \A m : Has(q, m) => m.type = "flow_removed" /\ \E f \in fs : table[s][f] # NoPort
             /\ \A f \in fs : table[s][f] # NoPort => Has(q, [type |-> "flow_removed", flow |-> f])
<1> DEFINE gone == { f \in fs : table[s][f] # NoPort }
           n == Cardinality(gone)
<1>1. IsFiniteSet(gone)
  BY FS_Subset, FlowAssumption
<1>2. PICK order \in SetToSeqs(gone) :
        Report(s, [i \in DOMAIN order |->
                     [type |-> "flow_removed", flow |-> order[i]]])
  BY DEF DeleteRules
<1> DEFINE q == [i \in DOMAIN order |-> [type |-> "flow_removed", flow |-> order[i]]]
<1>3. n \in Nat /\ order \in [1 .. n -> gone] /\ \A i, j \in 1 .. n : i # j => order[i] # order[j]
  BY <1>1, FS_CardinalityType DEF SetToSeqs
<1>4. q \in [1 .. n -> Reports] /\ \A i \in 1 .. n : q[i] = [type |-> "flow_removed", flow |-> order[i]]
  <2>1. \A i \in DOMAIN order : q[i] \in Reports
    BY <1>3 DEF Reports
  <2>2. QED BY <1>3, <2>1
<1>5. Report(s, q)
  BY <1>2
<1> HIDE DEF q
<1>6. q \in Seq(Reports)
  BY <1>3, <1>4, FunctionIsSeq
<1>7. Len(q) = n
  BY <1>3, <1>4
<1>8. ASSUME NEW f \in gone PROVE \E i \in 1 .. n : order[i] = f
  <2>1. SUFFICES ASSUME \A i \in 1 .. n : order[i] # f PROVE FALSE
    OBVIOUS
  <2> HIDE DEF gone
  <2>2. IsFiniteSet(gone \ {f}) /\ Cardinality(gone \ {f}) = n - 1
    BY <1>1, FS_RemoveElement
  <2>3. order \in [1 .. n -> gone \ {f}]
    BY <1>3, <2>1
  <2>4. IsFiniteSet(1 .. n) /\ Cardinality(1 .. n) = n
    BY <1>3, FS_Interval
  <2>5. \E i, j \in 1 .. n : i # j /\ order[i] = order[j]
    <3> HIDE DEF n
    <3>1. n - 1 < n
      BY <1>3
    <3>2. QED BY <2>2, <2>3, <2>4, <3>1, FS_PigeonHole
  <2>6. QED BY <1>3, <2>5
<1>9. \A m : Has(q, m) => m.type = "flow_removed" /\ \E f \in fs : table[s][f] # NoPort
  <2>1. \A i \in 1 .. n : order[i] \in fs /\ table[s][order[i]] # NoPort
    BY <1>3
  <2>2. QED BY <1>4, <1>7, <2>1 DEF Has
<1>10. \A f \in fs : table[s][f] # NoPort => Has(q, [type |-> "flow_removed", flow |-> f])
  BY <1>4, <1>7, <1>8 DEF Has
<1>11. QED BY <1>5, <1>6, <1>9, <1>10

\* Reading from a session only shortens what it holds.
LEMMA ConsumedOld ==
    ASSUME TypeOK, NEW c \in Conns, NEW t, Reading(c, t), Consume(c), NEW d \in Conns,
           NEW m, Has(fromSwitch'[d], m)
    PROVE  Has(fromSwitch[d], m)
<1>1. fromSwitch \in [Conns -> Seq(Reports)] /\ fromSwitch[c] # <<>>
  BY DEF TypeOK, PltTypeOK, Reading
<1>2. CASE d = c
  <2>1. fromSwitch'[d] = Tail(fromSwitch[d])
    BY <1>1, <1>2 DEF Consume
  <2>2. QED BY <1>1, <1>2, <2>1, HasTail
<1>3. CASE d # c
  BY <1>1, <1>3 DEF Consume
<1>4. QED BY <1>2, <1>3

\* A switch reads a message that deletes rules, and has one.
TakesRules(c) ==
    /\ \E t \in {"clear", "del_port", "del_flow"} : Receives(c, t)
    /\ \E f \in Flows : table[Dpid[c]][f] # NoPort

\* What the step has a switch report on session c: a frame it had no rule for,
\* the barrier it was asked for, rules it deleted.
Reported(c, m) ==
    \/ m.type \in {"features", "lldp", "eof"}
    \/ m.type = "packet_in" /\ m.frame \in frames /\ session[m.frame.sw] = c
    \/ m.type = "barrier" /\ SwitchAnswersBarrier(c)
    \/ m.type = "flow_removed" /\ \E d \in Conns : TakesRules(d)

LEMMA ReportSource ==
    ASSUME TypeOK, [Next]_vars, NEW c \in Conns, NEW m, Has(fromSwitch'[c], m)
    PROVE  Has(fromSwitch[c], m) \/ Reported(c, m)
<1> DEFINE Source == Has(fromSwitch[c], m) \/ Reported(c, m)
<1>0. fromSwitch \in [Conns -> Seq(Reports)]
  BY DEF TypeOK, PltTypeOK
<1>1. ASSUME NEW d \in Conns, Read(d) PROVE Source
  <2>1. CASE ReadEof(d)
    <3>1. fromSwitch' = [fromSwitch EXCEPT ![d] = <<>>]
      BY <2>1 DEF ReadEof
    <3>2. QED BY <1>0, <3>1, HasNone
  <2>2. CASE ~ ReadEof(d)
    <3>1. \E t : Reading(d, t) /\ Consume(d)
      BY <1>1, <2>2 DEF Read, ReadFeatures, ReadBarrier, ReadFlowRemoved, LldpIgnored,
                        LinkDetected, ReadPacketIn, HostJoins, HostMoves
    <3>2. QED BY <3>1, ConsumedOld
  <2>3. QED BY <2>1, <2>2
<1>2. CASE Dispatch \/ Timer
  <2>1. fromSwitch' = fromSwitch
    BY <1>2 DEF Dispatch, RaiseLinkRemoved, PopLinks, DispatchConnectionDown, DispatchPacketIn,
                Timer, Timeout, ExpireLinks, HostExpires
  <2>2. QED BY <2>1
<1>3. ASSUME NEW d \in Conns, SwitchReceives(d) PROVE Source
  <2>0. Dpid[d] \in Switches
    BY SwitchAssumption
  <2>1. CASE SwitchClears(d) \/ SwitchDeletesByPort(d) \/ SwitchDeletesByFlow(d)
    <3>1. \E fs \in SUBSET Flows : DeleteRules(Dpid[d], fs)
      <4>1. CASE SwitchDeletesByFlow(d)
        <5>1. Head(toSwitch[d]).flow \in Flows
          BY <4>1, ReceivesTyped, MessageContents DEF SwitchDeletesByFlow
        <5>2. QED BY <4>1, <5>1 DEF SwitchDeletesByFlow
      <4>2. QED BY <2>1, <4>1 DEF SwitchClears, SwitchDeletesByPort
    <3>2. PICK q \in Seq(Reports) :
            /\ Report(Dpid[d], q)
            /\ \A k : Has(q, k) => k.type = "flow_removed" /\ \E f \in Flows : table[Dpid[d]][f] # NoPort
      BY <2>0, <3>1, DeletedReports
    <3>3. \E t \in {"clear", "del_port", "del_flow"} : Receives(d, t)
      BY <2>1 DEF SwitchClears, SwitchDeletesByPort, SwitchDeletesByFlow
    <3>4. Has(fromSwitch[c], m) \/ Has(q, m)
      BY <3>2, ReportedNew
    <3>5. QED BY <3>2, <3>3, <3>4 DEF Reported, TakesRules
  <2>2. CASE SwitchAnswersBarrier(d)
    <3>1. Report(Dpid[d], <<[type |-> "barrier"]>>) /\ <<[type |-> "barrier"]>> \in Seq(Reports)
          /\ session[Dpid[d]] = d
      BY <2>2 DEF SwitchAnswersBarrier, Reports, Receives, Online
    <3>2. Has(fromSwitch[c], m) \/ (c = d /\ Has(<<[type |-> "barrier"]>>, m))
      BY <3>1, ReportedNew
    <3>3. QED BY <2>2, <3>2, HasOne DEF Reported
  <2>3. CASE SwitchAddsRule(d) \/ SwitchResubmits(d)
    BY <2>3 DEF SwitchAddsRule, SwitchResubmits
  <2>4. QED BY <1>3, <2>1, <2>2, <2>3 DEF SwitchReceives
<1>4. ASSUME NEW fr \in frames, SwitchMisses(fr) PROVE Source
  <2> DEFINE r == [type |-> "packet_in", frame |-> fr]
  <2>1. <<r>> \in Seq(Reports)
    BY DEF Reports, TypeOK, DepTypeOK
  <2>2. CASE Report(fr.sw, <<r>>)
    <3>1. Has(fromSwitch[c], m) \/ (c = session[fr.sw] /\ Has(<<r>>, m))
      BY <2>1, <2>2, ReportedNew
    <3>2. QED BY <3>1, HasOne DEF Reported
  <2>3. QED BY <1>4, <2>2 DEF SwitchMisses
<1>5. ASSUME NEW d \in Conns, SwitchConnects(d) PROVE Source
  <2>1. fromSwitch' = [fromSwitch EXCEPT ![d] = <<[type |-> "features"]>>]
    BY <1>5 DEF SwitchConnects
  <2>2. QED BY <1>0, <2>1, HasOne DEF Reported
<1>6. ASSUME NEW s \in Switches, SwitchDisconnects(s) PROVE Source
  <2> DEFINE d == session[s]
             eof == [type |-> "eof"]
  <2>1. d \in Conns
    BY <1>6 DEF SwitchDisconnects, TypeOK, DepTypeOK
  <2>2. PICK q \in {fromSwitch[d], <<>>} : fromSwitch' = [fromSwitch EXCEPT ![d] = Append(q, eof)]
    BY <1>6 DEF SwitchDisconnects
  <2>3. CASE c = d
    <3>1. eof \in Reports
      BY DEF Reports
    <3> HIDE DEF eof
    <3>2. q \in Seq(Reports) /\ <<eof>> \in Seq(Reports) /\ Append(q, eof) = q \o <<eof>>
      <4>1. fromSwitch[d] \in Seq(Reports) /\ <<>> \in Seq(Reports)
        BY <1>0, <2>1
      <4>2. q \in Seq(Reports)
        BY <4>1
      <4>3. QED BY <3>1, <4>2
    <3>3. fromSwitch'[c] = q \o <<eof>>
      BY <1>0, <2>2, <2>3, <3>2
    <3>4. Has(q, m) \/ Has(<<eof>>, m)
      BY <3>2, <3>3, HasAppended
    <3>5. QED BY <2>3, <3>4, HasOne, HasNone DEF eof, Reported
  <2>4. CASE c # d
    BY <1>0, <2>2, <2>4
  <2>5. QED BY <2>3, <2>4
<1>7. ASSUME NEW l \in Links, LldpArrives(l) PROVE Source
  <2> DEFINE r == [type |-> "lldp", link |-> l]
  <2>1. Report(l.dpid2, <<r>>) /\ <<r>> \in Seq(Reports)
    BY <1>7 DEF LldpArrives, Reports
  <2>2. Has(fromSwitch[c], m) \/ Has(<<r>>, m)
    BY <2>1, ReportedNew
  <2>3. QED BY <2>2, HasOne DEF Reported
<1>8. ASSUME \/ \E d \in Conns : WrittenInVain(d)
             \/ \E fr \in frames : SwitchForwards(fr)
             \/ \E h \in Hosts, pkt \in Payloads : HostSends(h, pkt)
             \/ UNCHANGED vars
      PROVE  Source
  BY <1>8 DEF WrittenInVain, SwitchForwards, HostSends, pltVars, vars
<1>9. QED
  BY <1>1, <1>2, <1>3, <1>4, <1>5, <1>6, <1>7, <1>8 DEF Next, Thread, Switch, Environment

LEMMA PacketInSource ==
    ASSUME TypeOK, [Next]_vars, NEW c \in Conns, NEW m, m.type = "packet_in",
           Has(fromSwitch'[c], m)
    PROVE  Has(fromSwitch[c], m) \/ (m.frame \in frames /\ session[m.frame.sw] = c)
BY ReportSource DEF Reported

\* What is sent joins what was written before.
LEMMA SentNew ==
    ASSUME TypeOK, NEW out \in [Conns -> Seq(Messages)], Send(out), NEW c \in Conns,
           NEW m, Has(toSwitch'[c], m)
    PROVE  Has(toSwitch[c], m) \/ Has(out[c], m)
<1>1. toSwitch[c] \in Seq(Messages) /\ out[c] \in Seq(Messages)
  BY DEF TypeOK, ConnTypeOK
<1>2. toSwitch'[c] = toSwitch[c] \/ toSwitch'[c] = toSwitch[c] \o out[c]
  BY DEF Send
<1>3. QED BY <1>1, <1>2, HasAppended

LEMMA SentOne ==
    ASSUME TypeOK, NEW d \in Conns, NEW k \in Messages, Send(OnlyTo(d, k)), NEW c \in Conns,
           NEW m, Has(toSwitch'[c], m)
    PROVE  Has(toSwitch[c], m) \/ (c = d /\ m = k)
<1>1. Has(toSwitch[c], m) \/ Has(OnlyTo(d, k)[c], m)
  BY OnlyToTyped, SentNew
<1>2. OnlyTo(d, k)[c] = IF c = d THEN <<k>> ELSE <<>>
  BY DEF OnlyTo, Silence
<1>3. QED BY <1>1, <1>2, HasOne, HasNone

\* The rules of a path are rules of its flow.
LEMMA RulesAreAdds ==
    ASSUME CtlTypeOK, NEW f \in Flows, NEW path, NEW c \in Conns, NEW m,
           Has(RulesOf(f, path)[c], m)
    PROVE  m.type = "add" /\ m.flow = f
<1>1. RulesOf(f, path)[c] # <<>>
  BY HasNone
<1>2. \E p : RulesOf(f, path)[c] = <<AddRule(f, p)>>
  BY <1>1 DEF RulesOf
<1>3. \E p : m = AddRule(f, p)
  BY <1>2, HasOne
<1>4. QED BY <1>3 DEF AddRule

\* What a PacketIn has the controller write.
LEMMA PacketInWrites ==
    ASSUME TypeOK, NEW d \in Conns, NEW fr \in Frames, HandlePacketIn(d, fr), NEW c \in Conns,
           NEW m, Has(toSwitch'[c], m)
    PROVE  \/ Has(toSwitch[c], m)
           \/ c = d /\ fr.pkt \in Flows /\ m = PacketOut(fr)
           \/ InstallPath(d, fr) /\ m.type = "add" /\ m.flow = fr.pkt
<1>1. CASE IgnorePacket(fr) \/ NoPathFound(fr)
  BY <1>1 DEF IgnorePacket, NoPathFound
<1>2. CASE ForwardInstalled(d, fr)
  <2>1. PacketOut(fr) \in Messages /\ Send(OnlyTo(d, PacketOut(fr))) /\ fr.pkt \in Flows
    BY <1>2, MessagesTyped DEF ForwardInstalled
  <2>2. QED BY <2>1, SentOne
<1>3. CASE InstallPath(d, fr)
  <2> DEFINE f == fr.pkt
             path == PathsOf(f)[ChosenIndex(f, PathsOf(f)) + 1]
             rules == RulesOf(f, path)
             both == [rules EXCEPT ![d] = Append(@, PacketOut(fr))]
  <2>1. f \in Flows /\ (Send(both) \/ Send(rules))
    BY <1>3 DEF InstallPath
  <2>2. rules \in [Conns -> Seq(Messages)]
    BY <2>1, RulesTyped DEF TypeOK
  <2>3. PacketOut(fr) \in Messages
    BY MessagesTyped
  <2> DEFINE more == Append(rules[d], PacketOut(fr))
  <2>4. \A e \in Conns : both[e] = IF e = d THEN more ELSE rules[e]
    <3> HIDE DEF rules
    <3>1. QED BY <2>2
  <2>5. more = rules[d] \o <<PacketOut(fr)>> /\ more \in Seq(Messages) /\ <<PacketOut(fr)>> \in Seq(Messages)
    <3> HIDE DEF rules
    <3>1. rules[d] \in Seq(Messages)
      BY <2>2
    <3>2. QED BY <2>3, <3>1
  <2>6. both \in [Conns -> Seq(Messages)]
    <3> HIDE DEF rules, more
    <3>1. DOMAIN both = Conns /\ both = [e \in Conns |-> both[e]]
      BY <2>2
    <3> HIDE DEF both
    <3>2. QED BY <2>2, <2>4, <2>5, <3>1
  <2>7. Has(toSwitch[c], m) \/ Has(rules[c], m) \/ Has(both[c], m)
    <3> HIDE DEF rules, both
    <3>1. QED BY <2>1, <2>2, <2>6, SentNew
  <2>8. Has(toSwitch[c], m) \/ Has(rules[c], m) \/ (c = d /\ m = PacketOut(fr))
    <3> HIDE DEF rules, both, more
    <3>1. CASE Has(both[c], m) /\ c = d
      <4>1. Has(rules[d] \o <<PacketOut(fr)>>, m)
        BY <2>4, <2>5, <3>1
      <4>2. Has(rules[d], m) \/ Has(<<PacketOut(fr)>>, m)
        BY <2>2, <2>5, <4>1, HasAppended
      <4>3. QED BY <3>1, <4>2, HasOne
    <3>2. QED BY <2>4, <2>7, <3>1
  <2>9. Has(rules[c], m) => m.type = "add" /\ m.flow = f
    BY <2>1, RulesAreAdds DEF TypeOK
  <2> HIDE DEF rules
  <2>10. QED BY <1>3, <2>1, <2>8, <2>9
<1>4. QED BY <1>1, <1>2, <1>3 DEF HandlePacketIn

\* The step handles a PacketIn by writing m on session c: the packet, or a rule
\* of its path.
WrittenForPacketIn(c, m) ==
    \E d \in Conns, fr \in Frames :
      /\ <<d, fr>> \in todo.packet
      /\ UNCHANGED <<tracked, conState>>
      /\ \/ c = d /\ fr.pkt \in Flows /\ m = PacketOut(fr)
         \/ InstallPath(d, fr) /\ m.type = "add" /\ m.flow = fr.pkt

\* What else the controller writes: the handshake, and the messages that take
\* rules away.
WrittenElse(c, m) ==
    \/ ReadFeatures(c) /\ m.type \in {"clear", "barrier"}
    \/ m.type = "del_flow" /\ \E d \in Conns : ReadFlowRemoved(d)
    \/ m.type = "del_port" /\ RaiseLinkRemoved

LEMMA WriteSource ==
    ASSUME TypeOK, [Next]_vars, NEW c \in Conns, NEW m, Has(toSwitch'[c], m)
    PROVE  Has(toSwitch[c], m) \/ WrittenForPacketIn(c, m) \/ WrittenElse(c, m)
<1> DEFINE Source == Has(toSwitch[c], m) \/ WrittenForPacketIn(c, m) \/ WrittenElse(c, m)
<1>0. toSwitch \in [Conns -> Seq(Messages)]
  BY DEF TypeOK, ConnTypeOK
<1>1. ASSUME NEW d \in Conns, Read(d) PROVE Source
  <2>1. CASE ReadFeatures(d)
    <3> DEFINE out == [Silence EXCEPT ![d] = <<ClearRules, BarrierRequest>>]
    <3>1. Send(out) /\ out \in [Conns -> Seq(Messages)]
      BY <2>1, HandshakeTyped DEF ReadFeatures, FeaturesReply
    <3>2. Has(toSwitch[c], m) \/ Has(out[c], m)
      <4> HIDE DEF out
      <4>1. QED BY <3>1, SentNew
    <3>3. out[c] = IF c = d THEN <<ClearRules, BarrierRequest>> ELSE <<>>
      BY DEF Silence
    <3>4. Has(<<ClearRules, BarrierRequest>>, m) => m.type \in {"clear", "barrier"}
      BY DEF Has, ClearRules, BarrierRequest
    <3> HIDE DEF out
    <3>5. QED BY <2>1, <3>2, <3>3, <3>4, HasNone DEF WrittenElse
  <2>2. CASE ReadFlowRemoved(d)
    <3> DEFINE g == Head(fromSwitch[d]).flow
               out == [e \in Conns |-> IF \E s \in Switches : switches[s] = e
                                       THEN <<DeleteByFlow(g)>> ELSE <<>>]
    <3>1. g \in Flows
      BY <2>2, ReadingTyped, ReportContents DEF ReadFlowRemoved, TypeOK
    <3>2. out \in [Conns -> Seq(Messages)] /\ Send(out)
      <4>1. DeleteByFlow(g) \in Messages
        BY <3>1, MessagesTyped
      <4> HIDE DEF g
      <4>2. QED BY <2>2, <4>1 DEF ReadFlowRemoved, HandleFlowRemoved, g
    <3>3. Has(toSwitch[c], m) \/ Has(out[c], m)
      <4> HIDE DEF out
      <4>1. QED BY <3>2, SentNew
    <3>4. Has(<<DeleteByFlow(g)>>, m) => m.type = "del_flow"
      BY HasOne DEF DeleteByFlow
    <3>5. QED BY <2>2, <3>3, <3>4, HasNone DEF WrittenElse
  <2>3. CASE ReadEof(d)
    <3>1. toSwitch' = [toSwitch EXCEPT ![d] = <<>>]
      BY <2>3 DEF ReadEof, Disconnect
    <3>2. QED BY <1>0, <3>1, HasNone
  <2>4. CASE \/ ReadBarrier(d) \/ LldpIgnored(d) \/ LinkDetected(d)
             \/ ReadPacketIn(d) \/ HostJoins(d) \/ HostMoves(d)
    BY <2>4 DEF ReadBarrier, FinishConnecting, LldpIgnored, LinkDetected, ReadPacketIn,
                HostJoins, HostMoves, conVars
  <2>5. QED BY <1>1, <2>1, <2>2, <2>3, <2>4 DEF Read
<1>2. CASE Dispatch
  <2>1. CASE RaiseLinkRemoved
    <3>1. PICK l \in todo.removed : HandleLinkRemoved(l)
      BY <2>1 DEF RaiseLinkRemoved
    <3>2. l \in Links /\ l.dpid1 \in Switches /\ l.dpid2 \in Switches
      BY LinkEnds DEF TypeOK, PltTypeOK, Calls
    <3>3. toSwitch' = toSwitch \/ \E d \in Conns, p \in Ports : Send(OnlyTo(d, DeleteByPort(p)))
      <4> DEFINE d == IF <<l.dpid1, l.dpid2>> \in edges THEN switches[l.dpid1] ELSE NoCon
                 p == IF d = NoCon THEN NoPort ELSE neighbour[d][l.dpid2]
      <4>1. d \in Conns \cup {NoCon}
        BY <3>2 DEF TypeOK, CtlTypeOK
      <4>2. p = NoPort \/ (d \in Conns /\ p \in Ports)
        <5> HIDE DEF d
        <5>1. CASE d \in Conns
          BY <3>2, <5>1 DEF TypeOK, CtlTypeOK
        <5>2. QED BY <4>1, <5>1
      <4>3. toSwitch' = toSwitch \/ (p # NoPort /\ Send(OnlyTo(d, DeleteByPort(p))))
        BY <3>1 DEF HandleLinkRemoved
      <4> HIDE DEF d, p
      <4>4. QED BY <4>2, <4>3
    <3>4. ASSUME NEW d \in Conns, NEW p \in Ports, Send(OnlyTo(d, DeleteByPort(p)))
          PROVE  Source
      <4>1. DeleteByPort(p) \in Messages
        BY MessagesTyped
      <4>2. Has(toSwitch[c], m) \/ m = DeleteByPort(p)
        BY <3>4, <4>1, SentOne
      <4>3. QED BY <2>1, <4>2 DEF DeleteByPort, WrittenElse
    <3>5. QED BY <3>3, <3>4
  <2>2. CASE PopLinks \/ DispatchConnectionDown
    BY <2>2 DEF PopLinks, DispatchConnectionDown, conVars
  <2>3. CASE DispatchPacketIn
    <3>1. PICK call \in todo.packet : HandlePacketIn(call[1], call[2])
      BY <2>3 DEF DispatchPacketIn
    <3>2. call[1] \in Conns /\ call[2] \in Frames /\ call = <<call[1], call[2]>>
      BY DEF TypeOK, PltTypeOK, Calls
    <3>3. UNCHANGED <<tracked, conState>>
      BY <2>3 DEF DispatchPacketIn
    <3> DEFINE d == call[1]
               fr == call[2]
    <3>4. \/ Has(toSwitch[c], m)
          \/ c = d /\ fr.pkt \in Flows /\ m = PacketOut(fr)
          \/ InstallPath(d, fr) /\ m.type = "add" /\ m.flow = fr.pkt
      BY <3>1, <3>2, PacketInWrites
    <3> HIDE DEF d, fr
    <3>5. d \in Conns /\ fr \in Frames /\ <<d, fr>> \in todo.packet
      BY <3>2 DEF d, fr
    <3>6. QED BY <3>3, <3>4, <3>5 DEF WrittenForPacketIn
  <2>4. QED BY <1>2, <2>1, <2>2, <2>3 DEF Dispatch
<1>3. CASE Timer
  BY <1>3 DEF Timer, Timeout, ExpireLinks, HostExpires, conVars
<1>4. ASSUME NEW d \in Conns, NEW t, Receives(d, t) PROVE Has(toSwitch[c], m)
  <2>1. toSwitch' = [toSwitch EXCEPT ![d] = Tail(toSwitch[d])] /\ toSwitch[d] # <<>>
    BY <1>0, <1>4 DEF Receives
  <2>2. toSwitch'[c] = toSwitch[c] \/ (c = d /\ toSwitch'[c] = Tail(toSwitch[c]))
    BY <1>0, <2>1
  <2>3. QED BY <1>0, <2>1, <2>2, HasTail
<1>5. ASSUME NEW d, toSwitch' = [toSwitch EXCEPT ![d] = <<>>] PROVE Has(toSwitch[c], m)
  BY <1>0, <1>5, HasNone
<1>6. CASE Switch
  BY <1>4, <1>5, <1>6
     DEF Switch, SwitchReceives, SwitchClears, SwitchAnswersBarrier, SwitchAddsRule,
         SwitchResubmits, SwitchDeletesByPort, SwitchDeletesByFlow, WrittenInVain,
         SwitchForwards, SwitchMisses, conVars
<1>7. CASE Environment
  BY <1>5, <1>7
     DEF Environment, SwitchConnects, SwitchDisconnects, LldpArrives, HostSends, conVars
<1>8. CASE UNCHANGED vars
  BY <1>8 DEF vars, conVars
<1>9. QED BY <1>1, <1>2, <1>3, <1>6, <1>7, <1>8 DEF Next, Thread

\* Rules and packets on their way to a switch are the doing of a PacketIn.
LEMMA MessageSource ==
    ASSUME TypeOK, [Next]_vars, NEW c \in Conns, NEW m, m.type \in {"add", "packet_out"},
           Has(toSwitch'[c], m)
    PROVE  Has(toSwitch[c], m) \/ WrittenForPacketIn(c, m)
BY WriteSource DEF WrittenElse

\* A session holds what its first message is.
LEMMA HeadHeld ==
    ASSUME TypeOK, NEW c \in Conns, NEW t, Receives(c, t)
    PROVE  Has(toSwitch[c], Head(toSwitch[c])) /\ Head(toSwitch[c]).type = t
<1>1. toSwitch[c] \in Seq(Messages) /\ toSwitch[c] # <<>>
  BY DEF TypeOK, ConnTypeOK, Receives
<1>2. QED BY <1>1, HasTail DEF Receives

LEMMA HeadReported ==
    ASSUME TypeOK, NEW c \in Conns, NEW t, Reading(c, t)
    PROVE  Has(fromSwitch[c], Head(fromSwitch[c])) /\ Head(fromSwitch[c]).type = t
<1>1. fromSwitch[c] \in Seq(Reports) /\ fromSwitch[c] # <<>>
  BY DEF TypeOK, PltTypeOK, Reading
<1>2. QED BY <1>1, HasTail DEF Reading

\* A rule forwards g over the link l, where it arrives as fr.
Carries(g, l, fr) ==
    /\ g.pkt = fr.pkt /\ RuleFor(g) # NoPort
    /\ l.dpid1 = g.sw /\ l.port1 = RuleFor(g)
    /\ fr.sw = l.dpid2 /\ fr.port = l.port2

\* A frame is one the host sent, one sent back, or one a rule forwarded.
LEMMA FrameSource ==
    ASSUME TypeOK, [Next]_vars, NEW fr \in frames'
    PROVE  \/ fr \in frames
           \/ fr.sw = Attach[Sender(fr.pkt)].sw /\ fr.port = Attach[Sender(fr.pkt)].port
           \/ \E c \in Conns : \E m : Has(toSwitch[c], m) /\ m.type = "packet_out" /\ m.frame = fr
           \/ \E g \in frames, l \in Links : Carries(g, l, fr)
<1>1. ASSUME NEW h \in Hosts, NEW pkt \in Payloads, HostSends(h, pkt)
      PROVE  fr \in frames \/ (fr.sw = Attach[Sender(fr.pkt)].sw
                               /\ fr.port = Attach[Sender(fr.pkt)].port)
  BY <1>1 DEF HostSends
<1>2. ASSUME NEW c \in Conns, SwitchReceives(c)
      PROVE  fr \in frames \/ (\E m : Has(toSwitch[c], m) /\ m.type = "packet_out" /\ m.frame = fr)
  <2>1. CASE SwitchResubmits(c)
    <3>1. Receives(c, "packet_out") /\ frames' = frames \cup {Head(toSwitch[c]).frame}
      BY <2>1 DEF SwitchResubmits
    <3>2. QED BY <3>1, HeadHeld
  <2>2. QED BY <1>2, <2>1 DEF SwitchReceives, SwitchClears, SwitchAnswersBarrier, SwitchAddsRule,
                            SwitchDeletesByPort, SwitchDeletesByFlow
<1>3. ASSUME NEW g \in frames, SwitchForwards(g)
      PROVE  fr \in frames \/ \E l \in Links : Carries(g, l, fr)
  <2> DEFINE next == { [pkt |-> g.pkt, sw |-> l.dpid2, port |-> l.port2] :
                         l \in { k \in Links : k.dpid1 = g.sw /\ k.port1 = RuleFor(g) } }
  <2>1. /\ RuleFor(g) # NoPort
        /\ frames' = (frames \ {g}) \cup (IF RuleFor(g) = g.port THEN {} ELSE next)
           \/ frames' = frames \ {g}
    BY <1>3 DEF SwitchForwards
  <2>2. ASSUME NEW k \in next PROVE \E l \in Links : Carries(g, l, k)
    BY <2>1 DEF Carries
  <2> HIDE DEF next
  <2>3. QED BY <2>1, <2>2
<1>4. ASSUME NEW g \in frames, SwitchMisses(g) PROVE fr \in frames
  BY <1>4 DEF SwitchMisses
<1>5. ASSUME \/ Thread \/ Timer \/ UNCHANGED vars \/ \E c \in Conns : WrittenInVain(c)
             \/ \E c \in Conns : SwitchConnects(c)
             \/ \E s \in Switches : SwitchDisconnects(s)
             \/ \E l \in Links : LldpArrives(l)
      PROVE  fr \in frames
  BY <1>5 DEF Thread, Timer, WrittenInVain, SwitchConnects, SwitchDisconnects, LldpArrives,
              depVars, vars
<1>6. QED BY <1>1, <1>2, <1>3, <1>4, <1>5 DEF Next, Switch, Environment

\* A rule was there, or its switch was told to add it.
LEMMA RuleSource ==
    ASSUME TypeOK, [Next]_vars, NEW s \in Switches, NEW f \in Flows, table'[s][f] # NoPort
    PROVE  \/ table[s][f] # NoPort
           \/ \E c \in Conns : \E m : Has(toSwitch[c], m) /\ m.type = "add" /\ m.flow = f
<1> DEFINE Source == \/ table[s][f] # NoPort
                     \/ \E c \in Conns : \E m : Has(toSwitch[c], m) /\ m.type = "add" /\ m.flow = f
<1>0. table \in [Switches -> [Flows -> Ports \cup {NoPort}]]
  BY DEF TypeOK, DepTypeOK
<1>1. ASSUME NEW c \in Conns, SwitchReceives(c) PROVE Source
  <2>1. Dpid[c] \in Switches
    BY SwitchAssumption
  <2>2. CASE s = Dpid[c]
    <3>1. Adds(Head(toSwitch[c]), f) \/ table'[s][f] = table[s][f]
      BY <1>1, <2>2, ReceivesRule
    <3>2. \E t : Receives(c, t)
      BY <1>1 DEF SwitchReceives, SwitchClears, SwitchAnswersBarrier, SwitchAddsRule,
                  SwitchResubmits, SwitchDeletesByPort, SwitchDeletesByFlow
    <3>3. QED BY <3>1, <3>2, HeadHeld DEF Adds
  <2>3. CASE s # Dpid[c]
    <3>1. table'[s] = table[s]
      BY <1>0, <1>1, <2>1, <2>3
         DEF SwitchReceives, SwitchClears, SwitchAnswersBarrier, SwitchAddsRule,
             SwitchResubmits, SwitchDeletesByPort, SwitchDeletesByFlow, DeleteRules
    <3>2. QED BY <3>1
  <2>4. QED BY <2>2, <2>3
<1>2. ASSUME NEW r \in Switches, SwitchDisconnects(r) PROVE Source
  <2>1. table' = table \/ table' = [table EXCEPT ![r] = NoRules]
    BY <1>2 DEF SwitchDisconnects
  <2>2. QED BY <1>0, <2>1 DEF NoRules
<1>3. ASSUME \/ Thread \/ Timer \/ UNCHANGED vars \/ \E c \in Conns : WrittenInVain(c)
             \/ \E fr \in frames : SwitchForwards(fr) \/ SwitchMisses(fr)
             \/ \E c \in Conns : SwitchConnects(c)
             \/ \E l \in Links : LldpArrives(l)
             \/ \E h \in Hosts, pkt \in Payloads : HostSends(h, pkt)
      PROVE  table' = table
  BY <1>3 DEF Thread, Timer, WrittenInVain, SwitchForwards, SwitchMisses, SwitchConnects,
              LldpArrives, HostSends, depVars, vars
<1>4. QED BY <1>1, <1>2, <1>3 DEF Next, Switch, Environment

\* A PacketIn to be handled was one to be read.
LEMMA CallSource ==
    ASSUME TypeOK, [Next]_vars, NEW call \in todo'.packet
    PROVE  \/ call \in todo.packet
           \/ \E c \in Conns : \E m : /\ Has(fromSwitch[c], m) /\ m.type = "packet_in"
                                  /\ call = <<c, m.frame>>
<1>0. Nothing.packet = {}
  BY DEF Nothing
<1>1. ASSUME NEW c \in Conns, Read(c)
      PROVE  \/ call \in todo.packet
             \/ \E m : /\ Has(fromSwitch[c], m) /\ m.type = "packet_in"
                       /\ call = <<c, m.frame>>
  <2>1. CASE ReadPacketIn(c) \/ HostJoins(c) \/ HostMoves(c)
    <3>1. Reading(c, "packet_in") /\ CallSwitchController(c)
      BY <2>1 DEF ReadPacketIn, HostJoins, HostMoves
    <3>2. \A x : [Nothing EXCEPT !.packet = {x}].packet = {x}
      BY DEF Nothing
    <3>3. call = <<c, Head(fromSwitch[c]).frame>>
      BY <1>0, <3>1, <3>2 DEF CallSwitchController
    <3>4. QED BY <3>1, <3>3, HeadReported
  <2>2. CASE ReadEof(c)
    <3>1. \A x, y, z : [Nothing EXCEPT !.removed = x, !.popped = y, !.down = z].packet = {}
      BY DEF Nothing
    <3>2. QED BY <1>0, <2>2, <3>1 DEF ReadEof
  <2>3. QED BY <1>1, <2>1, <2>2 DEF Read, ReadFeatures, ReadBarrier, ReadFlowRemoved,
                                  LldpIgnored, LinkDetected
<1>2. CASE Dispatch
  <2>1. /\ \A x : [todo EXCEPT !.removed = x].packet = todo.packet
        /\ \A x : [todo EXCEPT !.popped = x].packet = todo.packet
        /\ \A x : [todo EXCEPT !.down = x].packet = todo.packet
    BY DEF TypeOK, PltTypeOK, Calls
  <2>2. CASE RaiseLinkRemoved
    <3>1. \E l : todo' = [todo EXCEPT !.removed = @ \ {l}]
      BY <2>2 DEF RaiseLinkRemoved
    <3>2. QED BY <2>1, <3>1
  <2>3. CASE DispatchPacketIn
    BY <1>0, <2>3 DEF DispatchPacketIn
  <2>4. QED BY <1>2, <2>1, <2>2, <2>3 DEF Dispatch, PopLinks, DispatchConnectionDown
<1>3. CASE Timer
  <2>1. \A x, y : [Nothing EXCEPT !.removed = x, !.popped = y].packet = {}
    BY DEF Nothing
  <2>2. QED BY <1>3, <2>1 DEF Timer, Timeout, ExpireLinks, HostExpires
<1>4. CASE Switch \/ Environment \/ UNCHANGED vars
  BY <1>4, OutsideCalls
<1>5. QED BY <1>1, <1>2, <1>3, <1>4 DEF Next, Thread

-----------------------------------------------------------------------------
(* The ports of a path's hops.                                             *)

\* A port that a SwitchController holds for a neighbour leads there.
PortsLead ==
    \A c \in Conns, t \in Switches :
      neighbour[c][t] # NoPort => LeadsTo(Dpid[c], neighbour[c][t], t)

\* A switch that an edge leaves has a SwitchController, with the port.
EdgePorts ==
    \A s, t \in Switches : <<s, t>> \in edges =>
      switches[s] # NoCon /\ neighbour[switches[s]][t] # NoPort

\* The events that change what a SwitchController holds.
LEMMA NeighboursUntouched ==
    ASSUME TypeOK, [Next]_vars,
           \A c \in Conns : ~ ReadBarrier(c) /\ ~ LinkDetected(c), ~ RaiseLinkRemoved
    PROVE  /\ neighbour' = neighbour
           /\ \A s, t \in Switches : <<s, t>> \in edges' => <<s, t>> \in edges
<1>1. CASE Dispatch
  BY <1>1 DEF Dispatch, PopLinks, DispatchConnectionDown, HandleConnectionDown, EdgesWithout,
              DispatchPacketIn, HandlePacketIn, IgnorePacket, ForwardInstalled, NoPathFound,
              InstallPath, UntouchedByPacketIn, ctlVars
<1>2. ASSUME NEW c \in Conns, Read(c)
      PROVE  /\ neighbour' = neighbour
             /\ \A s, t \in Switches : <<s, t>> \in edges' => <<s, t>> \in edges
  <2>1. CASE ReadFeatures(c) \/ ReadFlowRemoved(c) \/ ReadEof(c) \/ LldpIgnored(c) \/ ReadPacketIn(c)
    BY <2>1 DEF ReadFeatures, ReadFlowRemoved, HandleFlowRemoved, ReadEof, LldpIgnored,
                ReadPacketIn, ctlVars
  <2>2. CASE HostJoins(c) \/ HostMoves(c)
    <3>1. PICK fr, s, p : fr = Head(fromSwitch[c]).frame /\ Reading(c, "packet_in")
                          /\ HandleHostSeen(Sender(fr.pkt), s, p)
      BY <2>2 DEF HostJoins, HostMoves
    <3>2. fr.pkt \in Payloads
      BY <3>1, ReadingTyped, ReportContents DEF TypeOK, Frames
    <3>3. Sender(fr.pkt) \in Hosts
      BY <3>2, SenderTyped
    <3>4. QED BY <3>1, <3>3, HostAssumption DEF HandleHostSeen
  <2>3. QED BY <1>2, <2>1, <2>2 DEF Read
<1>3. CASE Timer
  BY <1>3 DEF Timer, Timeout, ExpireLinks, HostExpires, HandleHostLeft, EdgesWithout, ctlVars
<1>4. CASE Switch \/ Environment \/ UNCHANGED vars
  BY <1>4, OutsideThread DEF ctlVars
<1>5. QED BY <1>1, <1>2, <1>3, <1>4 DEF Next, Thread

\* What the link's and the handshake's events do to them.
LEMMA DetectedEdge ==
    ASSUME TypeOK, NEW c \in Conns, LinkDetected(c)
    PROVE  \E l \in Links :
             /\ HandleLinkAdded(l) /\ l = Head(fromSwitch[c]).link
             /\ Reading(c, "lldp")
BY ReadingTyped, ReportContents DEF LinkDetected, Reading, TypeOK

LEMMA StepKeepsPorts ==
    ASSUME TypeOK, UpRegistered, PortsLead, [Next]_vars
    PROVE  PortsLead'
<1> USE DEF TypeOK, CtlTypeOK
<1>1. ASSUME NEW c \in Conns, ReadBarrier(c) PROVE PortsLead'
  <2>1. \/ neighbour' = neighbour
        \/ neighbour' = [neighbour EXCEPT ![c] = NoNeighbours]
    BY <1>1 DEF ReadBarrier, HandleConnectionUp
  <2>2. QED BY <2>1 DEF PortsLead, NoNeighbours
<1>2. ASSUME NEW c \in Conns, LinkDetected(c) PROVE PortsLead'
  <2>1. PICK l \in Links : HandleLinkAdded(l)
    BY <1>2, DetectedEdge
  <2> DEFINE d == switches[l.dpid1]
  <2>2. l.dpid1 \in Switches /\ l.dpid2 \in Switches /\ l.port1 \in Ports
    BY LinkEnds
  <2>3. CASE d = NoCon
    BY <2>1, <2>3 DEF HandleLinkAdded, PortsLead
  <2>4. CASE d # NoCon
    <3>1. d \in Conns /\ Dpid[d] = l.dpid1
      BY <2>2, <2>4 DEF UpRegistered
    <3>2. neighbour' = [neighbour EXCEPT ![d][l.dpid2] = l.port1]
      BY <2>1, <2>4 DEF HandleLinkAdded
    <3>3. LeadsTo(Dpid[d], l.port1, l.dpid2)
      BY <2>2, <3>1, HostAssumption DEF LeadsTo
    <3>4. QED BY <2>2, <3>1, <3>2, <3>3 DEF PortsLead
  <2>5. QED BY <2>3, <2>4
<1>3. CASE RaiseLinkRemoved
  <2>1. PICK l \in Links : HandleLinkRemoved(l)
    BY <1>3 DEF RaiseLinkRemoved, PltTypeOK, Calls
  <2>2. l.dpid1 \in Switches /\ l.dpid2 \in Switches
    BY LinkEnds
  <2>3. \/ neighbour' = neighbour
        \/ \E d : neighbour' = [neighbour EXCEPT ![d][l.dpid2] = NoPort]
    BY <2>1 DEF HandleLinkRemoved
  <2>4. \A c \in Conns, t \in Switches : neighbour'[c][t] \in {neighbour[c][t], NoPort}
    BY <2>2, <2>3
  <2>5. QED BY <2>4 DEF PortsLead
<1>4. CASE ~ RaiseLinkRemoved /\ \A c \in Conns : ~ ReadBarrier(c) /\ ~ LinkDetected(c)
  BY <1>4, NeighboursUntouched DEF PortsLead
<1>5. QED BY <1>1, <1>2, <1>3, <1>4

LEMMA StepKeepsEdgePorts ==
    ASSUME TypeOK, HandshakeInv, UpRegistered, SessionsLast, NothingEnds, EdgePorts, [Next]_vars
    PROVE  EdgePorts'
<1> USE DEF TypeOK, CtlTypeOK
<1>1. ASSUME NEW c \in Conns, ReadBarrier(c) PROVE EdgePorts'
  <2>1. /\ switches' = IF c \in connections THEN switches ELSE [switches EXCEPT ![Dpid[c]] = c]
        /\ neighbour' = IF c \in connections THEN neighbour
                        ELSE [neighbour EXCEPT ![c] = NoNeighbours]
        /\ edges' = edges /\ conState[c] = "connecting" /\ Reading(c, "barrier")
    BY <1>1 DEF ReadBarrier, HandleConnectionUp, FinishConnecting
  <2>2. Dpid[c] \in Switches
    BY SwitchAssumption
  <2>3. switches[Dpid[c]] = NoCon
    <3>1. SUFFICES ASSUME switches[Dpid[c]] # NoCon PROVE FALSE
      OBVIOUS
    <3> DEFINE d == switches[Dpid[c]]
    <3>2. d \in Conns /\ Dpid[d] = Dpid[c] /\ conState[d] \in Settled
      BY <2>2, <3>1 DEF UpRegistered, HandshakeInv, HandlesSettled
    <3>3. c \notin unused /\ d \notin unused
      BY <2>1, <3>2, ReadingOwned DEF HandshakeInv, SessionsOwned, Settled
    <3>4. QED BY <2>1, <3>2, <3>3, OnlineOne DEF SessionsLast, Settled
  <2>4. \A t \in Switches : <<Dpid[c], t>> \notin edges
    BY <2>2, <2>3 DEF EdgePorts
  <2>5. \A s \in Switches : switches[s] # NoCon => switches[s] # c
    BY <2>3 DEF UpRegistered
  <2>6. QED BY <2>1, <2>2, <2>4, <2>5 DEF EdgePorts
<1>2. ASSUME NEW c \in Conns, LinkDetected(c) PROVE EdgePorts'
  <2>1. PICK l \in Links : HandleLinkAdded(l) /\ l = Head(fromSwitch[c]).link
                           /\ Reading(c, "lldp")
    BY <1>2, DetectedEdge
  <2> DEFINE d == switches[l.dpid1]
  <2>2. l.dpid1 \in Switches /\ l.dpid2 \in Switches /\ l.port1 \in Ports /\ l.port1 # NoPort
    BY LinkEnds
  <2>3. d \in Conns
    BY <2>1, <2>2, ReadingHarmless DEF Reading, Harmless
  <2>4. d # NoCon
    BY <2>3, SwitchAssumption
  <2>5. /\ neighbour' = [neighbour EXCEPT ![d][l.dpid2] = l.port1]
        /\ edges' = edges \cup {<<l.dpid1, l.dpid2>>} /\ switches' = switches
    BY <2>1, <2>4 DEF HandleLinkAdded
  <2>6. QED BY <2>2, <2>3, <2>4, <2>5 DEF EdgePorts
<1>3. CASE RaiseLinkRemoved
  <2>1. PICK l \in Links : HandleLinkRemoved(l)
    BY <1>3 DEF RaiseLinkRemoved, PltTypeOK, Calls
  <2> DEFINE e == <<l.dpid1, l.dpid2>>
             d == switches[l.dpid1]
  <2>2. l.dpid1 \in Switches /\ l.dpid2 \in Switches
    BY LinkEnds
  <2>3. /\ edges' = edges \ {e} /\ switches' = switches
        /\ \/ neighbour' = neighbour
           \/ e \in edges /\ neighbour' = [neighbour EXCEPT ![d][l.dpid2] = NoPort]
    BY <2>1 DEF HandleLinkRemoved
  <2>4. ASSUME NEW s \in Switches, NEW t \in Switches, <<s, t>> \in edges', switches[s] = d, t = l.dpid2
        PROVE  FALSE
    BY <2>2, <2>3, <2>4 DEF UpRegistered, EdgePorts
  <2>5. QED BY <2>2, <2>3, <2>4 DEF EdgePorts
<1>4. CASE ~ RaiseLinkRemoved /\ \A c \in Conns : ~ ReadBarrier(c) /\ ~ LinkDetected(c)
  BY <1>4, NeighboursUntouched, ControllersUntouched DEF EdgePorts
<1>5. QED BY <1>1, <1>2, <1>3, <1>4

-----------------------------------------------------------------------------
(* Hosts are known where they are.                                         *)

Stranger(h) == tracked[h] = Nowhere

AtHome(fr) == /\ fr.sw = Attach[Sender(fr.pkt)].sw
              /\ fr.port = Attach[Sender(fr.pkt)].port

\* The frames of a host that was never seen are at its switch.
StrangersAtHome ==
    /\ \A fr \in frames : Stranger(Sender(fr.pkt)) => AtHome(fr)
    /\ \A c \in Conns : \A m : (Has(fromSwitch[c], m) /\ m.type = "packet_in") =>
         m.frame.sw = Dpid[c] /\ (Stranger(Sender(m.frame.pkt)) => AtHome(m.frame))
    /\ \A c \in Conns : \A m : (Has(toSwitch[c], m) /\ m.type = "packet_out") =>
         (Stranger(Sender(m.frame.pkt)) => AtHome(m.frame))
    /\ \A call \in todo.packet : Stranger(Sender(call[2].pkt)) => AtHome(call[2])

\* For no rule is on its way to carry them elsewhere.
StrangersStay ==
    /\ \A s \in Switches, f \in Flows : table[s][f] # NoPort => ~ Stranger(SrcHw[f])
    /\ \A c \in Conns : \A m : (Has(toSwitch[c], m) /\ m.type = "add") => ~ Stranger(SrcHw[m.flow])

\* So the controller finds a host where it is plugged.
HostsHome ==
    \A h \in Hosts :
      /\ hosts[h] # NoPort => hosts[h] = Attach[h].port
      /\ \A s \in GraphNodes : <<h, s>> \in edges \/ <<s, h>> \in edges => s = Attach[h].sw

HomeInv == StrangersAtHome /\ StrangersStay /\ HostsHome

\* The tracker forgets no host that is never silent.
LEMMA Remembered ==
    ASSUME TypeOK, SilentHosts = {}, [Next]_vars, NEW h \in Hosts, tracked[h] # Nowhere
    PROVE  tracked'[h] # Nowhere
<1>0. tracked \in [Hosts -> Location \cup {Nowhere}]
  BY DEF TypeOK, PltTypeOK
<1>1. ASSUME NEW c \in Conns, HostJoins(c) PROVE tracked'[h] # Nowhere
  <2>1. PICK fr : fr = Head(fromSwitch[c]).frame /\ Reading(c, "packet_in")
                  /\ tracked' = [tracked EXCEPT ![Sender(fr.pkt)] = [sw |-> Dpid[c], port |-> fr.port]]
    BY <1>1 DEF HostJoins
  <2>2. fr \in Frames
    BY <2>1, ReadingTyped, ReportContents DEF TypeOK
  <2>3. [sw |-> Dpid[c], port |-> fr.port] # Nowhere
    BY <2>2, PortsExist, SwitchAssumption DEF Frames, Location
  <2>4. QED BY <1>0, <2>1, <2>3
<1>2. ASSUME NEW c \in Conns, HostMoves(c) PROVE tracked'[h] # Nowhere
  <2>1. \E g : tracked' = [tracked EXCEPT ![g].sw = Dpid[c]]
    BY <1>2 DEF HostMoves
  <2>2. tracked[h] \in Location
    BY <1>0
  <2>3. tracked'[h] = tracked[h] \/ tracked'[h] = [tracked[h] EXCEPT !.sw = Dpid[c]]
    BY <1>0, <2>1
  <2>4. tracked'[h] \in Location
    BY <2>2, <2>3, SwitchAssumption DEF Location
  <2>5. QED BY <2>4, PortsExist
<1>3. ASSUME \A c \in Conns : ~ HostJoins(c) /\ ~ HostMoves(c) PROVE tracked' = tracked
  <2>1. ASSUME NEW c \in Conns, Read(c) PROVE tracked' = tracked
    BY <1>3, <2>1 DEF Read, ReadFeatures, ReadBarrier, ReadFlowRemoved, ReadEof, LldpIgnored,
                      LinkDetected, ReadPacketIn
  <2>2. CASE Dispatch
    BY <2>2 DEF Dispatch, RaiseLinkRemoved, PopLinks, DispatchConnectionDown, DispatchPacketIn
  <2>3. CASE Timer
    BY <2>3 DEF Timer, Timeout, ExpireLinks, HostExpires
  <2>4. CASE Switch \/ Environment \/ UNCHANGED vars
    BY <2>4, OutsideThread
  <2>5. QED BY <2>1, <2>2, <2>3, <2>4 DEF Next, Thread
<1>4. QED BY <1>1, <1>2, <1>3

LEMMA StepKeepsStrangersHome ==
    ASSUME TypeOK, HandshakeInv, SilentHosts = {}, StrangersAtHome, StrangersStay, [Next]_vars
    PROVE  StrangersAtHome'
<1>0. TypeOK'
  BY StepTyped
<1>1. \A pkt \in Payloads : Stranger(Sender(pkt))' => Stranger(Sender(pkt))
  <2>1. SUFFICES ASSUME NEW pkt \in Payloads, tracked[Sender(pkt)] # Nowhere
                 PROVE  tracked'[Sender(pkt)] # Nowhere
    BY DEF Stranger
  <2>2. QED BY <2>1, SenderTyped, Remembered
<1>2. ASSUME NEW fr \in frames', Stranger(Sender(fr.pkt))' PROVE AtHome(fr)
  <2>1. fr \in Frames /\ fr.pkt \in Payloads
    BY <1>0 DEF TypeOK, DepTypeOK, Frames
  <2>2. Stranger(Sender(fr.pkt))
    BY <1>1, <1>2, <2>1
  <2>3. ASSUME NEW g \in frames, NEW l \in Links, Carries(g, l, fr) PROVE FALSE
    <3>1. g \in Frames /\ g.pkt \in Flows /\ table[g.sw][g.pkt] # NoPort
      BY <2>3 DEF TypeOK, DepTypeOK, RuleFor, Carries
    <3>2. QED BY <2>2, <2>3, <3>1 DEF StrangersStay, Sender, Frames, Carries
  <2>4. QED BY <2>2, <2>3, FrameSource DEF StrangersAtHome, AtHome
<1>3. ASSUME NEW c \in Conns, NEW m, Has(fromSwitch'[c], m), m.type = "packet_in"
      PROVE  m.frame.sw = Dpid[c] /\ (Stranger(Sender(m.frame.pkt))' => AtHome(m.frame))
  <2>1. m.frame \in Frames
    <3>1. fromSwitch'[c] \in Seq(Reports)
      BY <1>0 DEF TypeOK, PltTypeOK
    <3>2. m \in Reports
      BY <1>3, <3>1 DEF Has
    <3>3. QED BY <1>3, <3>2, ReportContents
  <2>2. CASE Has(fromSwitch[c], m)
    BY <1>1, <1>3, <2>1, <2>2 DEF StrangersAtHome, Frames
  <2>3. CASE m.frame \in frames /\ session[m.frame.sw] = c
    <3>1. Dpid[c] = m.frame.sw
      BY <2>1, <2>3, SwitchAssumption DEF HandshakeInv, SessionsOwned, Frames
    <3>2. QED BY <1>1, <2>1, <2>3, <3>1 DEF StrangersAtHome, Frames
  <2>4. QED BY <1>3, <2>2, <2>3, PacketInSource
<1>4. ASSUME NEW c \in Conns, NEW m, Has(toSwitch'[c], m), m.type = "packet_out",
             Stranger(Sender(m.frame.pkt))'
      PROVE  AtHome(m.frame)
  <2>1. m.frame \in Frames
    <3>1. toSwitch'[c] \in Seq(Messages)
      BY <1>0 DEF TypeOK, ConnTypeOK
    <3>2. m \in Messages
      BY <1>4, <3>1 DEF Has
    <3>3. QED BY <1>4, <3>2, MessageContents
  <2>2. Stranger(Sender(m.frame.pkt))
    BY <1>1, <1>4, <2>1 DEF Frames
  <2>3. CASE Has(toSwitch[c], m)
    BY <1>4, <2>2, <2>3 DEF StrangersAtHome
  <2>4. ASSUME NEW d \in Conns, NEW fr \in Frames, <<d, fr>> \in todo.packet, m = PacketOut(fr)
        PROVE  AtHome(m.frame)
    BY <2>2, <2>4 DEF StrangersAtHome, PacketOut
  <2>5. Has(toSwitch[c], m) \/ WrittenForPacketIn(c, m)
    BY <1>4, MessageSource
  <2>6. QED BY <1>4, <2>3, <2>4, <2>5 DEF WrittenForPacketIn
<1>5. ASSUME NEW call \in todo'.packet, Stranger(Sender(call[2].pkt))' PROVE AtHome(call[2])
  <2>1. call[2].pkt \in Payloads
    BY <1>0 DEF TypeOK, PltTypeOK, Calls, Frames
  <2>2. QED BY <1>1, <1>5, <2>1, CallSource DEF StrangersAtHome
<1>6. QED BY <1>2, <1>3, <1>4, <1>5 DEF StrangersAtHome, AtHome

LEMMA StepKeepsStrangersStill ==
    ASSUME TypeOK, HostViewsAgree, SilentHosts = {}, StrangersStay, [Next]_vars
    PROVE  StrangersStay'
<1>0. TypeOK'
  BY StepTyped
<1>1. \A f \in Flows : ~ Stranger(SrcHw[f]) => ~ Stranger(SrcHw[f])'
  BY Remembered, FlowAssumption DEF Stranger
<1>2. ASSUME NEW s \in Switches, NEW f \in Flows, table'[s][f] # NoPort
      PROVE  ~ Stranger(SrcHw[f])'
  BY <1>1, <1>2, RuleSource DEF StrangersStay
<1>3. ASSUME NEW c \in Conns, NEW m, Has(toSwitch'[c], m), m.type = "add"
      PROVE  ~ Stranger(SrcHw[m.flow])'
  <2>1. m.flow \in Flows
    <3>1. toSwitch'[c] \in Seq(Messages)
      BY <1>0 DEF TypeOK, ConnTypeOK
    <3>2. m \in Messages
      BY <1>3, <3>1 DEF Has
    <3>3. QED BY <1>3, <3>2, MessageContents
  <2>2. CASE Has(toSwitch[c], m)
    BY <1>1, <1>3, <2>1, <2>2 DEF StrangersStay
  <2>3. ASSUME NEW d \in Conns, NEW fr \in Frames, InstallPath(d, fr), m.flow = fr.pkt
        PROVE  ~ Stranger(SrcHw[m.flow])
    <3>1. SrcHw[m.flow] \in nodes
      BY <2>1, <2>3, PathsExist DEF InstallPath, ShortestPaths
    <3>2. QED BY <2>1, <3>1, FlowAssumption DEF HostViewsAgree, Stranger
  <2>4. Has(toSwitch[c], m) \/ WrittenForPacketIn(c, m)
    BY <1>3, MessageSource
  <2>5. CASE WrittenForPacketIn(c, m)
    <3>1. PICK d \in Conns, fr \in Frames :
            UNCHANGED tracked /\ (m = PacketOut(fr) \/ (InstallPath(d, fr) /\ m.flow = fr.pkt))
      BY <2>5 DEF WrittenForPacketIn
    <3>2. m # PacketOut(fr)
      BY <1>3 DEF PacketOut
    <3>3. QED BY <2>3, <3>1, <3>2 DEF Stranger
  <2>6. QED BY <2>2, <2>4, <2>5
<1>4. QED BY <1>2, <1>3 DEF StrangersStay

\* A host that joins is where it is plugged.
JoinsAtHome ==
    \A c \in Conns : HostJoins(c) =>
      AtHome(Head(fromSwitch[c]).frame) /\ Head(fromSwitch[c]).frame.sw = Dpid[c]

LEMMA StrangersJoinAtHome ==
    ASSUME TypeOK, StrangersAtHome
    PROVE  JoinsAtHome
<1> SUFFICES ASSUME NEW c \in Conns, HostJoins(c)
             PROVE  AtHome(Head(fromSwitch[c]).frame) /\ Head(fromSwitch[c]).frame.sw = Dpid[c]
  BY DEF JoinsAtHome
<1>1. PICK fr : /\ fr = Head(fromSwitch[c]).frame /\ Reading(c, "packet_in")
                /\ tracked[Sender(fr.pkt)] = Nowhere
  BY DEF HostJoins
<1>2. QED BY <1>1, HeadReported DEF StrangersAtHome, Stranger

LEMMA StepKeepsHostsHome ==
    ASSUME TypeOK, HostViewsAgree, JoinsAtHome, HostsHome, [Next]_vars
    PROVE  HostsHome'
<1> DEFINE Old == /\ \A h \in Hosts : hosts'[h] = hosts[h] \/ hosts'[h] = NoPort
                  /\ \A h \in Hosts, s \in GraphNodes :
                       /\ <<h, s>> \in edges' => <<h, s>> \in edges
                       /\ <<s, h>> \in edges' => <<s, h>> \in edges
<1>0. hosts \in [Hosts -> Ports \cup {NoPort}]
  BY DEF TypeOK, CtlTypeOK
<1>1. Old => HostsHome'
  BY DEF HostsHome
<1>2. ASSUME NEW c \in Conns, HostJoins(c) PROVE HostsHome'
  <2>1. PICK fr : /\ fr = Head(fromSwitch[c]).frame /\ Reading(c, "packet_in")
                  /\ tracked[Sender(fr.pkt)] = Nowhere
                  /\ HandleHostSeen(Sender(fr.pkt), Dpid[c], fr.port)
    BY <1>2 DEF HostJoins
  <2>2. fr \in Frames /\ fr.pkt \in Payloads
    BY <2>1, ReadingTyped, ReportContents DEF TypeOK, Frames
  <2> DEFINE j == Sender(fr.pkt)
  <2>3. j \in Hosts
    BY <2>2, SenderTyped
  <2>4. Dpid[c] = Attach[j].sw /\ fr.port = Attach[j].port
    BY <1>2, <2>1 DEF JoinsAtHome, AtHome
  <2>5. Dpid[c] \in Switches /\ Switches \cap Hosts = {}
    BY SwitchAssumption, HostAssumption
  <2>6. /\ edges' \subseteq edges \cup {<<j, Dpid[c]>>, <<Dpid[c], j>>}
        /\ hosts' = hosts \/ hosts' = [hosts EXCEPT ![j] = fr.port]
    BY <2>1 DEF HandleHostSeen
  <2> HIDE DEF j
  <2>7. QED BY <1>0, <2>3, <2>4, <2>5, <2>6 DEF HostsHome, GraphNodes
<1>3. ASSUME NEW c \in Conns, HostMoves(c) PROVE Old
  <2>1. PICK fr, s, p : /\ fr = Head(fromSwitch[c]).frame /\ Reading(c, "packet_in")
                        /\ tracked[Sender(fr.pkt)] # Nowhere
                        /\ HandleHostSeen(Sender(fr.pkt), s, p)
    BY <1>3 DEF HostMoves
  <2>2. fr.pkt \in Payloads
    BY <2>1, ReadingTyped, ReportContents DEF TypeOK, Frames
  <2>3. hosts[Sender(fr.pkt)] # NoPort /\ Sender(fr.pkt) \in nodes
    BY <2>1, <2>2, SenderTyped DEF HostViewsAgree
  <2>4. QED BY <2>1, <2>3 DEF HandleHostSeen
<1>4. ASSUME NEW c \in Conns, Read(c), ~ HostJoins(c), ~ HostMoves(c) PROVE Old
  <2>1. CASE LinkDetected(c)
    <3>1. PICK l \in Links : HandleLinkAdded(l)
      BY <2>1, DetectedEdge
    <3>2. l.dpid1 \in Switches /\ l.dpid2 \in Switches
      BY LinkEnds
    <3>3. edges' = edges \cup {<<l.dpid1, l.dpid2>>} /\ hosts' = hosts
      BY <3>1 DEF HandleLinkAdded
    <3>4. QED BY <3>2, <3>3, HostAssumption
  <2>2. ~ LinkDetected(c) => UNCHANGED <<hosts, edges>>
    BY <1>4 DEF Read, ReadFeatures, ReadBarrier, HandleConnectionUp,
                ReadFlowRemoved, HandleFlowRemoved, ReadEof, LldpIgnored, ReadPacketIn, ctlVars
  <2>3. QED BY <2>1, <2>2
<1>5. ASSUME Dispatch PROVE Old
  <2>1. hosts' = hosts /\ edges' \subseteq edges
    BY <1>5 DEF Dispatch, RaiseLinkRemoved, HandleLinkRemoved, PopLinks, DispatchConnectionDown,
                HandleConnectionDown, EdgesWithout, DispatchPacketIn, HandlePacketIn, IgnorePacket,
                ForwardInstalled, NoPathFound, InstallPath, UntouchedByPacketIn, ctlVars
  <2>2. QED BY <2>1
<1>6. ASSUME Timer PROVE Old
  <2>1. /\ edges' \subseteq edges
        /\ hosts' = hosts \/ \E h : hosts' = [hosts EXCEPT ![h] = NoPort]
    BY <1>6 DEF Timer, Timeout, ExpireLinks, HostExpires, HandleHostLeft, EdgesWithout, ctlVars
  <2>2. QED BY <1>0, <2>1
<1>7. ASSUME Switch \/ Environment \/ UNCHANGED vars PROVE Old
  BY <1>7, OutsideThread DEF ctlVars
<1>8. QED BY <1>1, <1>2, <1>3, <1>4, <1>5, <1>6, <1>7 DEF Next, Thread

-----------------------------------------------------------------------------
(* A rule for every hop.                                                   *)

\* A host has one neighbour, so a path passes through none.
LEMMA InnerSwitches ==
    ASSUME HostsHome, NEW src, NEW n \in Nat, NEW path, IsPath(path, edges, src, n),
           NEW i \in 2 .. n
    PROVE  path[i] \in Switches
<1>1. i - 1 \in 1 .. n /\ i \in 1 .. n /\ i - 1 \in 1 .. n + 1 /\ i + 1 \in 1 .. n + 1 /\ i \in 1 .. n + 1
      /\ (i - 1) + 1 = i
  OBVIOUS
<1>2. <<path[i - 1], path[i]>> \in edges /\ <<path[i], path[i + 1]>> \in edges
  BY <1>1 DEF IsPath
<1>3. path[i - 1] \in GraphNodes /\ path[i] \in GraphNodes /\ path[i + 1] \in GraphNodes
  BY <1>1 DEF IsPath
<1>4. path[i - 1] # path[i + 1]
  <2>1. i - 1 # i + 1
    OBVIOUS
  <2>2. QED BY <1>1, <2>1 DEF IsPath
<1>5. path[i] \notin Hosts
  BY <1>2, <1>3, <1>4 DEF HostsHome
<1>6. QED BY <1>3, <1>5 DEF GraphNodes

\* The state in which the paths of f are installed.
PathsKnown ==
    /\ TypeOK /\ HandshakeInv /\ HostViewsAgree /\ UpRegistered
    /\ PortsLead /\ EdgePorts /\ HostsHome

\* While every switch is connected, the port of a hop leads to the next one.
LEMMA HopLeads ==
    ASSUME PathsKnown, AllUp, NEW f \in Flows, DstHw[f] \in nodes,
           NEW src, NEW n \in Nat, NEW path, IsPath(path, edges, src, n), path[n + 1] = DstHw[f],
           NEW i \in 2 .. n
    PROVE  /\ path[i] \in Switches /\ switches[path[i]] \in Conns /\ Dpid[switches[path[i]]] = path[i]
           /\ conState[switches[path[i]]] = "connected"
           /\ i \in Hops(path)
           /\ OutPort(f, path, i) \in Ports
           /\ LeadsTo(path[i], OutPort(f, path, i), path[i + 1])
<1> USE DEF PathsKnown
<1> DEFINE s == path[i]
           d == switches[s]
           next == path[i + 1]
           p == OutPort(f, path, i)
<1>1. s \in Switches
  BY InnerSwitches
<1>2. d \in Conns /\ Dpid[d] = s /\ conState[d] = "connected"
  <2>1. session[s] \in Conns /\ conState[session[s]] = "connected" /\ Dpid[session[s]] = s
    BY <1>1 DEF AllUp, Connected, HandshakeInv, SessionsOwned, TypeOK, DepTypeOK
  <2>2. switches[Dpid[session[s]]] = session[s]
    BY <2>1, UpIsRegistered DEF AllUp
  <2>3. QED BY <2>1, <2>2
<1>3. i \in Hops(path) /\ i < Len(path)
  BY <1>1, <1>2, SwitchAssumption DEF Hops, IsPath
<1>4. <<s, next>> \in edges /\ next \in GraphNodes
  <2>1. i \in 1 .. n /\ i + 1 \in 1 .. n + 1
    OBVIOUS
  <2>2. QED BY <2>1 DEF IsPath
<1>5. CASE next \in Switches
  <2>1. neighbour[d][next] # NoPort /\ LeadsTo(s, neighbour[d][next], next)
    BY <1>1, <1>2, <1>4, <1>5 DEF EdgePorts, PortsLead
  <2>2. p = neighbour[d][next]
    BY <1>3, <1>5, <2>1 DEF OutPort
  <2>3. neighbour[d][next] \in Ports
    BY <1>2, <1>5, <2>1 DEF TypeOK, CtlTypeOK
  <2> HIDE DEF p, d, s, next
  <2>4. QED BY <1>1, <1>2, <1>3, <2>1, <2>2, <2>3 DEF p, d, s, next
<1>6. CASE next \in Hosts
  <2>1. next = DstHw[f]
    <3>1. i + 1 \notin 2 .. n
      BY <1>6, InnerSwitches, HostAssumption
    <3>2. i = n
      BY <3>1
    <3>3. QED BY <3>2
  <2>2. next \notin Switches
    BY <1>6, HostAssumption
  <2>3. p = hosts[next]
    BY <1>3, <2>1, <2>2 DEF OutPort
  <2>4. hosts[next] # NoPort /\ hosts[next] \in Ports
    BY <1>6, <2>1 DEF HostViewsAgree, TypeOK, CtlTypeOK
  <2>5. hosts[next] = Attach[next].port /\ s = Attach[next].sw
    <3>1. s \in GraphNodes
      BY <1>1 DEF GraphNodes
    <3>2. QED BY <1>4, <1>6, <2>4, <3>1 DEF HostsHome
  <2>6. Attach[next] = [sw |-> s, port |-> hosts[next]]
    BY <1>6, <2>5, HostAssumption
  <2> HIDE DEF p, d, s, next
  <2>7. LeadsTo(s, p, next)
    BY <1>6, <2>3, <2>6 DEF LeadsTo
  <2>8. QED BY <1>1, <1>2, <1>3, <2>3, <2>4, <2>7 DEF p, d, s, next
<1>7. QED BY <1>4, <1>5, <1>6 DEF GraphNodes

\* The one rule sent on the session of a hop is that hop's.
LEMMA HopRule ==
    ASSUME PathsKnown, AllUp, NEW f \in Flows, PathsOf(f) # <<>>, DstHw[f] \in nodes,
           NEW src, NEW n \in Nat, NEW path, IsPath(path, edges, src, n), path[n + 1] = DstHw[f],
           NEW i \in 2 .. n
    PROVE  RulesOf(f, path)[switches[path[i]]] = <<AddRule(f, OutPort(f, path, i))>>
<1>a. /\ path[i] \in Switches /\ switches[path[i]] \in Conns /\ Dpid[switches[path[i]]] = path[i]
      /\ conState[switches[path[i]]] = "connected"
      /\ i \in Hops(path)
      /\ OutPort(f, path, i) \in Ports
      /\ LeadsTo(path[i], OutPort(f, path, i), path[i + 1])
  BY HopLeads
<1> DEFINE d == switches[path[i]]
<1>1. d \in Conns /\ Dpid[d] = path[i] /\ i \in Hops(path)
  BY <1>a
<1>2. Updated(f, path) = Hops(path)
  BY PathUpdated DEF PathsKnown
<1> DEFINE j == CHOOSE k \in Updated(f, path) : switches[path[k]] = d
<1>3. j \in Hops(path) /\ switches[path[j]] = d
  BY <1>1, <1>2
<1>4. path[j] = path[i]
  BY <1>1, <1>3 DEF PathsKnown, UpRegistered, Hops
<1>5. j \in 1 .. n + 1 /\ i \in 1 .. n + 1
  BY <1>3 DEF Hops, IsPath
<1>6. j = i
  BY <1>4, <1>5 DEF IsPath
<1>7. RulesOf(f, path)[d] = <<AddRule(f, OutPort(f, path, j))>>
  BY <1>1, <1>2 DEF RulesOf
<1>8. QED BY <1>6, <1>7

\* The path _find_path chooses, and what validate_and_install sends for it.
ChosenPath(f) == PathsOf(f)[ChosenIndex(f, PathsOf(f)) + 1]

Sends(d, fr, out) ==
    LET rules == RulesOf(fr.pkt, ChosenPath(fr.pkt))
    IN  /\ rules \in [Conns -> Seq(Messages)]
        /\ out \in [Conns -> Seq(Messages)]
        /\ Send(out)
        /\ \A c \in Conns : out[c] = IF c = d THEN rules[c] \o <<PacketOut(fr)>> ELSE rules[c]

LEMMA InstallSends ==
    ASSUME TypeOK, HostViewsAgree, NEW d \in Conns, NEW fr \in Frames, InstallPath(d, fr)
    PROVE  \E out : Sends(d, fr, out)
<1> DEFINE f == fr.pkt
           path == PathsOf(f)[ChosenIndex(f, PathsOf(f)) + 1]
           rules == RulesOf(f, path)
           out == [rules EXCEPT ![d] = Append(@, PacketOut(fr))]
<1>1. f \in Flows /\ Updated(f, path) = Hops(path)
  BY PathUpdated DEF InstallPath
<1>2. Send(out)
  BY <1>1 DEF InstallPath
<1>3. rules \in [Conns -> Seq(Messages)]
  BY <1>1, RulesTyped DEF TypeOK
<1>4. PacketOut(fr) \in Messages
  BY MessagesTyped
<1>5. /\ \A c \in Conns : out[c] = IF c = d THEN rules[c] \o <<PacketOut(fr)>> ELSE rules[c]
      /\ out \in [Conns -> Seq(Messages)]
  <2> HIDE DEF rules
  <2>1. rules[d] \in Seq(Messages)
    BY <1>3
  <2>2. /\ Append(rules[d], PacketOut(fr)) = rules[d] \o <<PacketOut(fr)>>
        /\ Append(rules[d], PacketOut(fr)) \in Seq(Messages)
    BY <1>4, <2>1
  <2>3. QED BY <1>3, <2>2
<1>6. rules = RulesOf(fr.pkt, ChosenPath(fr.pkt))
  BY DEF ChosenPath
<1> HIDE DEF out, rules
<1>7. QED BY <1>2, <1>3, <1>5, <1>6 DEF Sends

\* The path _find_path chooses is a shortest one.
LEMMA ChosenIsShortest ==
    ASSUME TypeOK, FiniteNetwork, NEW f \in Flows, PathsOf(f) # <<>>
    PROVE  ChosenPath(f) \in ShortestPaths(nodes, edges, SrcHw[f], DstHw[f])
<1> DEFINE last == ecmp[<<SrcHw[f], DstHw[f]>>]
           total == Len(PathsOf(f))
           k == ChosenIndex(f, PathsOf(f))
<1>1. last \in Nat \cup {NoIndex}
  BY FlowAssumption DEF TypeOK, CtlTypeOK
<1>2. /\ total \in Nat \ {0}
      /\ \A i \in 1 .. total : PathsOf(f)[i] \in ShortestPaths(nodes, edges, SrcHw[f], DstHw[f])
  BY PathsListed DEF TypeOK
<1>3. k \in 0 .. total - 1
  <2> HIDE DEF last, total
  <2>1. NextIndex(last, total) \in 0 .. total - 1
    BY <1>1, <1>2, IndexInRange
  <2>2. QED BY <2>1 DEF ChosenIndex, last, total
<1>4. k + 1 \in 1 .. total
  <2> HIDE DEF total, k
  <2>1. QED BY <1>2, <1>3
<1> HIDE DEF total
<1>5. QED BY <1>2, <1>4 DEF ChosenPath

\* d is the session of the i-th switch of path, and is sent the rule for f out
\* of p, a port that leads to the next hop; the packet may follow.
HopSent(f, path, i, d, p) ==
    /\ path[i] \in Switches /\ Dpid[d] = path[i] /\ Online(d)
    /\ LeadsTo(path[i], p, path[i + 1])
    /\ AddRule(f, p) \in Messages
    /\ \E fr \in Frames : \E r :
         /\ toSwitch'[d] = toSwitch[d] \o r
         /\ r = <<AddRule(f, p)>> \/ r = <<AddRule(f, p)>> \o <<PacketOut(fr)>>

LEMMA InstallHops ==
    ASSUME PathsKnown, AllUp, FiniteNetwork, NEW c \in Conns, NEW fr \in Frames, InstallPath(c, fr)
    PROVE  \E n \in Nat, path \in ShortestPaths(nodes, edges, SrcHw[fr.pkt], DstHw[fr.pkt]) :
             /\ path = ChosenPath(fr.pkt)
             /\ IsPath(path, edges, SrcHw[fr.pkt], n) /\ path[n + 1] = DstHw[fr.pkt]
             /\ \A i \in 2 .. n : \E d \in Conns, p \in Ports : HopSent(fr.pkt, path, i, d, p)
<1> DEFINE f == fr.pkt
           path == ChosenPath(f)
           rules == RulesOf(f, path)
<1>1. f \in Flows /\ PathsOf(f) # <<>>
  BY DEF InstallPath
<1>2. path \in ShortestPaths(nodes, edges, SrcHw[f], DstHw[f])
  BY <1>1, ChosenIsShortest DEF PathsKnown
<1>3. PICK sent : Sends(c, fr, sent)
  BY InstallSends DEF PathsKnown
<1> HIDE DEF path
<1>4. PICK n \in Nat : IsPath(path, edges, SrcHw[f], n) /\ path[n + 1] = DstHw[f]
  BY <1>2, ShortestArePaths DEF PathsKnown, TypeOK
<1>5. DstHw[f] \in nodes
  BY <1>2 DEF ShortestPaths
<1>6. ASSUME NEW i \in 2 .. n
      PROVE  \E d \in Conns, p \in Ports : HopSent(f, path, i, d, p)
  <2> DEFINE d == switches[path[i]]
             p == OutPort(f, path, i)
  <2>1. /\ path[i] \in Switches /\ d \in Conns /\ Dpid[d] = path[i] /\ conState[d] = "connected"
        /\ p \in Ports /\ LeadsTo(path[i], p, path[i + 1])
    <3> HIDE DEF f
    <3>1. f \in Flows /\ DstHw[f] \in nodes /\ IsPath(path, edges, SrcHw[f], n)
          /\ path[n + 1] = DstHw[f]
      BY <1>1, <1>4, <1>5
    <3>2. QED BY <1>4, <3>1, HopLeads
  <2>2. rules[d] = <<AddRule(f, p)>>
    BY <1>1, <1>4, <1>5, HopRule
  <2>3. Online(d)
    <3>1. session[path[i]] \in Conns /\ conState[session[path[i]]] = "connected"
          /\ Dpid[session[path[i]]] = path[i]
      BY <2>1 DEF AllUp, Connected, PathsKnown, HandshakeInv, SessionsOwned, TypeOK, DepTypeOK
    <3>2. switches[Dpid[session[path[i]]]] = session[path[i]]
      BY <3>1, UpIsRegistered DEF AllUp, PathsKnown
    <3>3. QED BY <2>1, <3>1, <3>2 DEF Online
  <2>4. AddRule(f, p) \in Messages
    BY <1>1, <2>1, MessagesTyped
  <2>5. toSwitch'[d] = toSwitch[d] \o sent[d]
    BY <1>3, <2>1 DEF Sends, Send
  <2>6. sent[d] = rules[d] \/ sent[d] = rules[d] \o <<PacketOut(fr)>>
    BY <1>3, <2>1 DEF Sends, path
  <2> HIDE DEF d, p, rules, f
  <2>7. HopSent(f, path, i, d, p)
    BY <2>1, <2>2, <2>3, <2>4, <2>5, <2>6 DEF HopSent
  <2>8. QED BY <2>1, <2>7
<1>7. path = ChosenPath(f)
  BY DEF path
<1>8. QED BY <1>2, <1>4, <1>6, <1>7

\* The first message added to a queue is found behind it.
LEMMA AddedFirst ==
    ASSUME NEW M, NEW a \in M, NEW b \in M, NEW q \in Seq(M),
           NEW r, r = <<a>> \/ r = <<a>> \o <<b>>
    PROVE  Len(q) + 1 \in Len(q) + 1 .. Len(q \o r) /\ (q \o r)[Len(q) + 1] = a
<1> DEFINE t == <<a>>
<1>1. t \in Seq(M) /\ Len(t) = 1 /\ t[1] = a
  OBVIOUS
<1>2. \A s \in Seq(M) : /\ s \o <<b>> \in Seq(M) /\ Len(s \o <<b>>) = Len(s) + 1
                        /\ \A i \in 1 .. Len(s) : (s \o <<b>>)[i] = s[i]
  OBVIOUS
<1>3. r = t \/ r = t \o <<b>>
  OBVIOUS
<1> HIDE DEF t
<1>4. r \in Seq(M) /\ Len(r) >= 1 /\ r[1] = a
  BY <1>1, <1>2, <1>3
<1>5. QED BY <1>4

LEMMA InstallCovers ==
    ASSUME PathsKnown, AllUp, FiniteNetwork, NEW c \in Conns, NEW fr \in Frames, InstallPath(c, fr)
    PROVE  Covered(fr.pkt)
<1> DEFINE f == fr.pkt
<1>1. PICK n \in Nat, path \in ShortestPaths(nodes, edges, SrcHw[f], DstHw[f]) :
        /\ IsPath(path, edges, SrcHw[f], n)
        /\ \A i \in 2 .. n : \E d \in Conns, p \in Ports : HopSent(f, path, i, d, p)
  BY InstallHops
<1>2. ASSUME NEW i \in 2 .. n
      PROVE  \E d \in Conns, p \in Ports :
               Dpid[d] = path[i] /\ AddRule(f, p) \in Written(d) /\ LeadsTo(path[i], p, path[i + 1])
  <2>1. PICK d \in Conns, p \in Ports : HopSent(f, path, i, d, p)
    BY <1>1
  <2>2. PICK g \in Frames : \E r : /\ toSwitch'[d] = toSwitch[d] \o r
                                   /\ r = <<AddRule(f, p)>> \/ r = <<AddRule(f, p)>> \o <<PacketOut(g)>>
    BY <2>1 DEF HopSent
  <2>3. PICK r : /\ toSwitch'[d] = toSwitch[d] \o r
                 /\ r = <<AddRule(f, p)>> \/ r = <<AddRule(f, p)>> \o <<PacketOut(g)>>
    BY <2>2
  <2>4. AddRule(f, p) \in Messages /\ PacketOut(g) \in Messages /\ toSwitch[d] \in Seq(Messages)
    BY <2>1, MessagesTyped DEF HopSent, PathsKnown, TypeOK, ConnTypeOK
  <2> DEFINE q == toSwitch[d]
             a == AddRule(f, p)
             b == PacketOut(g)
  <2>5. a \in Messages /\ b \in Messages /\ q \in Seq(Messages) /\ (r = <<a>> \/ r = <<a>> \o <<b>>)
    BY <2>3, <2>4
  <2>6. toSwitch'[d] = q \o r
    BY <2>3
  <2> HIDE DEF q, a, b
  <2>7. Len(q) + 1 \in Len(q) + 1 .. Len(q \o r) /\ (q \o r)[Len(q) + 1] = a
    BY <2>5, AddedFirst
  <2>8. a \in Written(d)
    BY <2>6, <2>7 DEF Written, q
  <2>9. QED BY <2>1, <2>8 DEF HopSent, a
<1>3. Len(path) - 1 = n
  BY <1>1 DEF IsPath
<1>4. QED BY <1>1, <1>2, <1>3 DEF Covered

-----------------------------------------------------------------------------
\* The controller knows the places of ports and links ...
LEMMA PortsHold == Spec => [](PortsLead /\ (SessionsLast => EdgePorts))
<1>1. Init => PortsLead /\ (SessionsLast => EdgePorts)
  BY DEF Init, CtlInit, PortsLead, EdgePorts, NoNeighbours
<1>2. TypeOK /\ UpRegistered /\ PortsLead /\ [Next]_vars => PortsLead'
  BY StepKeepsPorts
<1>3. TypeOK /\ HandshakeInv /\ UpRegistered /\ (SessionsLast => NothingEnds)
        /\ (SessionsLast => EdgePorts) /\ [Next]_vars => (SessionsLast => EdgePorts)'
  BY NoneLost, StepKeepsEdgePorts DEF HandshakeInv
<1>4. QED
  BY <1>1, <1>2, <1>3, TypeCorrect, HandshakeHolds, RegisteredHolds, NothingEndsHolds, PTL DEF Spec

\* ... and of hosts.
LEMMA PlacesHold == SilentHosts = {} /\ Spec => []HomeInv
<1>1. SUFFICES ASSUME SilentHosts = {} PROVE Spec => []HomeInv
  OBVIOUS
<1>2. Init => HomeInv
  <2> SUFFICES ASSUME Init PROVE HomeInv
    OBVIOUS
  <2>1. HostsHome
    BY DEF Init, CtlInit, HostsHome
  <2>2. StrangersAtHome /\ StrangersStay
    BY HasNone DEF Init, ConnInit, PltInit, Nothing, NoRules, StrangersAtHome, StrangersStay
  <2>3. QED BY <2>1, <2>2 DEF HomeInv
<1>3. TypeOK /\ HandshakeInv /\ HostViewsAgree /\ HomeInv /\ [Next]_vars => HomeInv'
  BY <1>1, StepKeepsStrangersHome, StepKeepsStrangersStill, StrangersJoinAtHome,
     StepKeepsHostsHome DEF HomeInv
<1>4. QED
  BY <1>2, <1>3, TypeCorrect, HandshakeHolds, HostsAgree, PTL DEF Spec

\* While every switch is connected, installing a flow writes to each switch
\* of its path a rule out of a port that leads to the next hop: the links
\* that discovery tells of, and the places where the tracker finds the hosts,
\* are those of the network.
THEOREM Covers == (OneId /\ FiniteNetwork /\ SilentHosts = {} /\ Spec) => InstallsCoverPath
<1>1. SUFFICES ASSUME OneId, FiniteNetwork, SilentHosts = {} PROVE Spec => InstallsCoverPath
  OBVIOUS
<1>2. TypeOK /\ HandshakeInv /\ HostViewsAgree /\ UpRegistered
        /\ HomeInv /\ PortsLead /\ (SessionsLast => EdgePorts) /\ [Next]_vars
        => [\A f \in Flows : (NewlyInstalled(f) /\ AllUp) => Covered(f)]_vars
  <2> SUFFICES ASSUME TypeOK, HandshakeInv, HostViewsAgree, UpRegistered, HomeInv, PortsLead,
                      SessionsLast => EdgePorts, [Next]_vars
               PROVE  \A f \in Flows : (NewlyInstalled(f) /\ AllUp) => Covered(f)
    OBVIOUS
  <2> SUFFICES ASSUME NEW f \in Flows, NewlyInstalled(f), AllUp PROVE Covered(f)
    OBVIOUS
  <2>1. PICK c \in Conns, fr \in Frames : fr.pkt = f /\ InstallPath(c, fr)
    BY <1>1, InstalledByPath
  <2>2. PathsKnown
    BY DEF PathsKnown, HomeInv, AllUp
  <2>3. QED BY <1>1, <2>1, <2>2, InstallCovers
<1>3. SilentHosts = {}
  BY <1>1
<1>4. QED
  BY <1>2, <1>3, PlacesHold, PortsHold, TypeCorrect, HandshakeHolds, HostsAgree, RegisteredHolds, PTL
     DEF Spec, InstallsCoverPath

-----------------------------------------------------------------------------
(* The rule a switch will end with.                                        *)

\* Messages that take the rule of f away if its port is p.
Removes(m, f, p) == Drops(m, f) \/ (m.type = "del_port" /\ m.port = p)

\* When a switch whose rule for f has this port has read q up to message i,
\* the rule has port p.
RuleAt(q, port, f, p, i) ==
    \E j \in 0 .. i - 1 :
      /\ (j = 0 /\ port = p) \/ (j > 0 /\ q[j] = AddRule(f, p))
      /\ \A k \in j + 1 .. i - 1 : ~ Removes(q[k], f, p) /\ ~ Adds(q[k], f)

\* It has at the end of q; it is taken away by a message of q.
Ends(q, port, f, p) == RuleAt(q, port, f, p, Len(q) + 1)
Loses(q, port, f) ==
    \E p \in Ports, i \in 1 .. Len(q) : RuleAt(q, port, f, p, i) /\ Removes(q[i], f, p)

\* Messages that follow do not change what was lost ...
LEMMA LosesAppend ==
    ASSUME NEW q \in Seq(Messages), NEW r \in Seq(Messages), NEW port, NEW f, Loses(q, port, f)
    PROVE  Loses(q \o r, port, f)
<1> DEFINE s == q \o r
<1>1. /\ Len(s) = Len(q) + Len(r) /\ Len(q) \in Nat /\ Len(r) \in Nat
      /\ \A i \in 1 .. Len(q) : s[i] = q[i]
  OBVIOUS
<1> HIDE DEF s
<1>2. PICK p \in Ports, i \in 1 .. Len(q) : RuleAt(q, port, f, p, i) /\ Removes(q[i], f, p)
  BY DEF Loses
<1>3. i \in 1 .. Len(s) /\ s[i] = q[i] /\ \A k \in 1 .. i - 1 : s[k] = q[k]
  BY <1>1
<1>4. RuleAt(s, port, f, p, i)
  <2>1. PICK j \in 0 .. i - 1 :
          /\ (j = 0 /\ port = p) \/ (j > 0 /\ q[j] = AddRule(f, p))
          /\ \A k \in j + 1 .. i - 1 : ~ Removes(q[k], f, p) /\ ~ Adds(q[k], f)
    BY <1>2 DEF RuleAt
  <2>2. j > 0 => s[j] = q[j]
    BY <1>3
  <2>3. \A k \in j + 1 .. i - 1 : s[k] = q[k]
    BY <1>3
  <2>4. QED BY <2>1, <2>2, <2>3 DEF RuleAt
<1>5. QED BY <1>2, <1>3, <1>4 DEF Loses, s

\* ... and the first one that removes the rule loses it.
LEMMA EndsAppend ==
    ASSUME NEW q \in Seq(Messages), NEW r \in Seq(Messages), NEW port, NEW f, NEW p \in Ports,
           Ends(q, port, f, p), \A i \in 1 .. Len(r) : ~ Adds(r[i], f)
    PROVE  Ends(q \o r, port, f, p) \/ Loses(q \o r, port, f)
<1> DEFINE s == q \o r
           L == { i \in 1 .. Len(r) : Removes(r[i], f, p) }
<1>1. /\ Len(s) = Len(q) + Len(r) /\ Len(q) \in Nat /\ Len(r) \in Nat
      /\ \A i \in 1 .. Len(q) : s[i] = q[i]
      /\ \A i \in Len(q) + 1 .. Len(s) : s[i] = r[i - Len(q)] /\ i - Len(q) \in 1 .. Len(r)
  <2>1. /\ Len(s) = Len(q) + Len(r) /\ Len(q) \in Nat /\ Len(r) \in Nat
        /\ \A i \in 1 .. Len(q) : s[i] = q[i]
    OBVIOUS
  <2>2. \A i \in Len(q) + 1 .. Len(s) : s[i] = r[i - Len(q)]
    OBVIOUS
  <2> HIDE DEF s
  <2>3. QED BY <2>1, <2>2
<1> HIDE DEF s
<1>2. PICK j \in 0 .. Len(q) :
        /\ (j = 0 /\ port = p) \/ (j > 0 /\ q[j] = AddRule(f, p))
        /\ \A k \in j + 1 .. Len(q) : ~ Removes(q[k], f, p) /\ ~ Adds(q[k], f)
  <2>1. (Len(q) + 1) - 1 = Len(q)
    BY <1>1
  <2>2. QED BY <2>1 DEF Ends, RuleAt
<1>3. (j = 0 /\ port = p) \/ (j > 0 /\ s[j] = AddRule(f, p))
  BY <1>1, <1>2
<1>4. ASSUME NEW n \in 0 .. Len(r), \A i \in 1 .. n : ~ Removes(r[i], f, p)
      PROVE  RuleAt(s, port, f, p, Len(q) + n + 1)
  <2>1. ASSUME NEW k \in j + 1 .. Len(q) + n
        PROVE  ~ Removes(s[k], f, p) /\ ~ Adds(s[k], f)
    <3>1. CASE k \in 1 .. Len(q)
      BY <1>1, <1>2, <3>1
    <3>2. CASE k \notin 1 .. Len(q)
      <4>1. k \in Len(q) + 1 .. Len(s) /\ k - Len(q) \in 1 .. n
        BY <1>1, <1>2, <3>2
      <4>2. s[k] = r[k - Len(q)] /\ k - Len(q) \in 1 .. Len(r)
        BY <1>1, <4>1
      <4>3. QED BY <1>4, <4>1, <4>2
    <3>3. QED BY <3>1, <3>2
  <2>2. (Len(q) + n + 1) - 1 = Len(q) + n /\ j \in 0 .. Len(q) + n
    BY <1>1
  <2>3. QED BY <1>3, <2>1, <2>2 DEF RuleAt
<1>5. CASE L = {}
  <2>1. RuleAt(s, port, f, p, Len(q) + Len(r) + 1)
    BY <1>1, <1>4, <1>5
  <2>2. QED BY <1>1, <2>1 DEF Ends, s
<1>6. CASE L # {}
  <2>1. PICK i \in L : \A m \in L : i <= m
    <3>1. L \in SUBSET Nat
      OBVIOUS
    <3> HIDE DEF L
    <3>2. QED BY <1>6, <3>1, Least
  <2>2. i \in 1 .. Len(r) /\ Removes(r[i], f, p)
    BY <2>1
  <2>3. i - 1 \in 0 .. Len(r) /\ \A k \in 1 .. i - 1 : ~ Removes(r[k], f, p)
    BY <1>1, <2>1, <2>2
  <2>4. RuleAt(s, port, f, p, Len(q) + (i - 1) + 1)
    BY <1>4, <2>3
  <2>5. Len(q) + (i - 1) + 1 = Len(q) + i /\ Len(q) + i \in 1 .. Len(s)
        /\ Len(q) + i \in Len(q) + 1 .. Len(s) /\ (Len(q) + i) - Len(q) = i
    BY <1>1, <2>2
  <2>6. s[Len(q) + i] = r[i]
    BY <1>1, <2>5
  <2>7. QED BY <2>2, <2>4, <2>5, <2>6 DEF Loses, s
<1>7. QED BY <1>5, <1>6

\* A rule that is added is there, as nothing that follows removes it.
LEMMA EndsAdded ==
    ASSUME NEW q \in Seq(Messages), NEW r, NEW fr, NEW port, NEW f, NEW p,
           AddRule(f, p) \in Messages, PacketOut(fr) \in Messages,
           r = <<AddRule(f, p)>> \/ r = <<AddRule(f, p)>> \o <<PacketOut(fr)>>
    PROVE  Ends(q \o r, port, f, p)
<1> DEFINE a == AddRule(f, p)
           b == PacketOut(fr)
           t == <<a>>
           s == q \o r
           n == Len(q) + 1
<1>1. ~ Removes(b, f, p) /\ ~ Adds(b, f)
  BY DEF PacketOut, Removes, Drops, Adds
<1>2. a \in Messages /\ b \in Messages /\ (r = t \/ r = t \o <<b>>)
  OBVIOUS
<1> HIDE DEF a, b
<1>3. t \in Seq(Messages) /\ Len(t) = 1 /\ t[1] = a
  BY <1>2
<1>4. t \o <<b>> \in Seq(Messages) /\ Len(t \o <<b>>) = 2 /\ (t \o <<b>>)[1] = a /\ (t \o <<b>>)[2] = b
  BY <1>2
<1> HIDE DEF t
<1>5. r \in Seq(Messages) /\ r[1] = a /\ (Len(r) = 1 \/ (Len(r) = 2 /\ r[2] = b))
  BY <1>2, <1>3, <1>4
<1>6. /\ Len(s) = Len(q) + Len(r) /\ Len(q) \in Nat
      /\ \A i \in Len(q) + 1 .. Len(s) : s[i] = r[i - Len(q)]
  BY <1>5
<1> HIDE DEF s
<1>7. n \in 0 .. Len(s) /\ n > 0 /\ s[n] = a
  BY <1>5, <1>6
<1>8. ASSUME NEW k \in n + 1 .. Len(s) PROVE s[k] = b
  <2>1. Len(r) = 2 /\ k - Len(q) = 2
    BY <1>5, <1>6
  <2>2. QED BY <1>5, <1>6, <2>1
<1>9. (Len(s) + 1) - 1 = Len(s)
  BY <1>5, <1>6
<1>10. QED BY <1>1, <1>7, <1>8, <1>9 DEF Ends, RuleAt, s, a

\* What the switch does with a message keeps what was to come.
LEMMA RuleAtTail ==
    ASSUME NEW q \in Seq(Messages), q # <<>>, NEW port, NEW new, NEW f, NEW p, NEW i \in 2 .. Len(q) + 1,
           RuleAt(q, port, f, p, i),
           \A x : Head(q) = AddRule(f, x) => new = x,
           port = p /\ ~ Removes(Head(q), f, p) /\ ~ Adds(Head(q), f) => new = port
    PROVE  RuleAt(Tail(q), new, f, p, i - 1)
<1> DEFINE r == Tail(q)
<1>1. /\ Len(q) \in Nat \ {0} /\ Head(q) = q[1]
      /\ \A k \in 1 .. Len(q) - 1 : r[k] = q[k + 1]
  OBVIOUS
<1> HIDE DEF r
<1>2. PICK j \in 0 .. i - 1 :
        /\ (j = 0 /\ port = p) \/ (j > 0 /\ q[j] = AddRule(f, p))
        /\ \A k \in j + 1 .. i - 1 : ~ Removes(q[k], f, p) /\ ~ Adds(q[k], f)
  BY DEF RuleAt
<1>3. \A k \in 1 .. i - 2 : r[k] = q[k + 1]
  BY <1>1
<1>4. CASE j <= 1
  <2>1. new = p
    <3>1. CASE j = 0
      <4>1. 1 \in j + 1 .. i - 1
        BY <3>1
      <4>2. QED BY <1>1, <1>2, <3>1, <4>1
    <3>2. CASE j = 1
      BY <1>1, <1>2, <3>2
    <3>3. QED BY <1>4, <3>1, <3>2
  <2>2. ASSUME NEW k \in 0 + 1 .. (i - 1) - 1 PROVE ~ Removes(r[k], f, p) /\ ~ Adds(r[k], f)
    <3>1. k + 1 \in j + 1 .. i - 1 /\ r[k] = q[k + 1]
      BY <1>3, <1>4
    <3>2. QED BY <1>2, <3>1
  <2>3. 0 \in 0 .. (i - 1) - 1
    OBVIOUS
  <2>4. QED BY <2>1, <2>2, <2>3 DEF RuleAt, r
<1>5. CASE j > 1
  <2>1. j - 1 \in 0 .. (i - 1) - 1 /\ j - 1 > 0 /\ r[j - 1] = AddRule(f, p)
    BY <1>2, <1>3, <1>5
  <2>2. ASSUME NEW k \in (j - 1) + 1 .. (i - 1) - 1 PROVE ~ Removes(r[k], f, p) /\ ~ Adds(r[k], f)
    <3>1. k + 1 \in j + 1 .. i - 1 /\ r[k] = q[k + 1]
      BY <1>3, <1>5
    <3>2. QED BY <1>2, <3>1
  <2>3. QED BY <2>1, <2>2 DEF RuleAt, r
<1>6. QED BY <1>4, <1>5

LEMMA EndsTail ==
    ASSUME NEW q \in Seq(Messages), q # <<>>, NEW port, NEW new, NEW f, NEW p,
           Ends(q, port, f, p),
           \A x : Head(q) = AddRule(f, x) => new = x,
           port = p /\ ~ Removes(Head(q), f, p) /\ ~ Adds(Head(q), f) => new = port
    PROVE  Ends(Tail(q), new, f, p)
<1>1. Len(q) \in Nat \ {0} /\ Len(Tail(q)) = Len(q) - 1
  OBVIOUS
<1>2. Len(q) + 1 \in 2 .. Len(q) + 1 /\ (Len(q) + 1) - 1 = Len(Tail(q)) + 1
  BY <1>1
<1>3. RuleAt(Tail(q), new, f, p, (Len(q) + 1) - 1)
  BY <1>2, RuleAtTail DEF Ends
<1>4. QED BY <1>2, <1>3 DEF Ends

\* If the message itself takes the rule away, the switch has it till then.
LEMMA LosesTail ==
    ASSUME NEW q \in Seq(Messages), q # <<>>, NEW port, NEW new, NEW f, Loses(q, port, f),
           \A x : Head(q) = AddRule(f, x) => new = x,
           ~ Removes(Head(q), f, port) /\ ~ Adds(Head(q), f) => new = port
    PROVE  Loses(Tail(q), new, f) \/ (port \in Ports /\ Removes(Head(q), f, port))
<1> DEFINE r == Tail(q)
<1>1. /\ Len(q) \in Nat \ {0} /\ Head(q) = q[1] /\ Len(r) = Len(q) - 1
      /\ \A k \in 1 .. Len(q) - 1 : r[k] = q[k + 1]
  OBVIOUS
<1>2. PICK p \in Ports, i \in 1 .. Len(q) : RuleAt(q, port, f, p, i) /\ Removes(q[i], f, p)
  BY DEF Loses
<1>3. CASE i = 1
  <2>1. port = p
    BY <1>2, <1>3 DEF RuleAt
  <2>2. QED BY <1>1, <1>2, <1>3, <2>1
<1>4. CASE i # 1
  <2>1. i \in 2 .. Len(q) + 1
    BY <1>1, <1>4
  <2>2. RuleAt(r, new, f, p, i - 1)
    BY <1>2, <2>1, RuleAtTail
  <2> HIDE DEF r
  <2>3. i - 1 \in 1 .. Len(r) /\ r[i - 1] = q[i]
    BY <1>1, <2>1, <1>2, <1>4
  <2>4. QED BY <1>2, <2>2, <2>3 DEF Loses, r
<1>5. QED BY <1>3, <1>4

-----------------------------------------------------------------------------
(* Sessions that last, and traffic once all switches are up.               *)

\* No switch loses its session, and hosts send once every switch is connected.
Steady == LossySwitches = {} /\ ~ EarlyTraffic

EveryUp == \A s \in Switches : Connected(s)

\* A frame is somewhere.
Traffic ==
    \/ frames # {} \/ todo.packet # {}
    \/ \E c \in Conns : \E m : Has(fromSwitch[c], m) /\ m.type = "packet_in"
    \/ \E c \in Conns : \E m : Has(toSwitch[c], m) /\ m.type = "packet_out"

TrafficUp == SessionsLast /\ (Traffic => EveryUp)

\* Sessions are opened, and none is lost.
LEMMA LinesKept ==
    ASSUME Steady, [Next]_vars, \A c \in Conns : ~ SwitchConnects(c)
    PROVE  UNCHANGED <<session, unused>>
<1>1. \A s \in Switches : ~ SwitchDisconnects(s)
  BY DEF Steady, SwitchDisconnects
<1>2. QED
  BY <1>1 DEF Next, Thread, Timer, Switch, Environment, SwitchReceives, SwitchClears,
              SwitchAnswersBarrier, SwitchAddsRule, SwitchDeletesByPort, SwitchDeletesByFlow,
              SwitchResubmits, Receives, WrittenInVain, SwitchForwards, SwitchMisses,
              LldpArrives, HostSends, vars, depVars

LEMMA StepKeepsOnline ==
    ASSUME TypeOK, Steady, [Next]_vars, NEW c \in Conns, Online(c)
    PROVE  Online(c)'
<1>1. ASSUME NEW d \in Conns, SwitchConnects(d) PROVE Online(c)'
  <2>1. session[Dpid[d]] = NoCon /\ session' = [session EXCEPT ![Dpid[d]] = d]
    BY <1>1 DEF SwitchConnects
  <2>2. c # NoCon /\ Dpid[c] \in Switches /\ session[Dpid[c]] = c
    BY SwitchAssumption DEF Online
  <2>3. Dpid[c] # Dpid[d]
    BY <2>1, <2>2
  <2>4. QED BY <2>1, <2>2, <2>3 DEF Online, TypeOK, DepTypeOK
<1>2. CASE \A d \in Conns : ~ SwitchConnects(d)
  BY <1>2, LinesKept DEF Online
<1>3. QED BY <1>1, <1>2

LEMMA StepLosesNoSession ==
    ASSUME TypeOK, Steady, SessionsLast, [Next]_vars
    PROVE  SessionsLast'
<1> SUFFICES ASSUME NEW c \in Conns, c \notin unused' PROVE Online(c)'
  BY DEF SessionsLast
<1>1. CASE c \notin unused
  BY <1>1, StepKeepsOnline DEF SessionsLast
<1>2. CASE c \in unused
  <2>1. PICK d \in Conns : SwitchConnects(d)
    BY <1>2, LinesKept
  <2>2. d = c
    BY <1>2, <2>1 DEF SwitchConnects
  <2>3. QED BY <2>1, <2>2, SwitchAssumption DEF SwitchConnects, Online, TypeOK, DepTypeOK
<1>3. QED BY <1>1, <1>2

LEMMA StepKeepsUp ==
    ASSUME TypeOK, Steady, HandshakeInv, NothingEnds, EveryUp, [Next]_vars
    PROVE  EveryUp'
<1> SUFFICES ASSUME NEW s \in Switches PROVE Connected(s)'
  BY DEF EveryUp
<1>1. PICK c \in Conns : session[s] = c /\ c # NoCon /\ conState[c] = "connected" /\ Dpid[c] = s
  BY DEF EveryUp, Connected, HandshakeInv, SessionsOwned, TypeOK, DepTypeOK
<1>2. session'[s] = c
  <2>1. Online(c)
    BY <1>1 DEF Online
  <2>2. Online(c)'
    BY <1>1, <2>1, StepKeepsOnline
  <2>3. QED BY <1>1, <2>2 DEF Online
<1>3. conState'[c] = "connected"
  <2>1. ASSUME NEW d \in Conns, ReadFeatures(d) PROVE conState'[c] = "connected"
    <3>1. conState[d] = "new" /\ conState' = [conState EXCEPT ![d] = "connecting"]
      BY <2>1 DEF ReadFeatures, FeaturesReply
    <3>2. QED BY <1>1, <3>1 DEF TypeOK, ConnTypeOK
  <2>2. ASSUME NEW d \in Conns, ReadBarrier(d) PROVE conState'[c] = "connected"
    <3>1. conState' = [conState EXCEPT ![d] = "connected"]
      BY <2>2 DEF ReadBarrier, FinishConnecting
    <3>2. QED BY <1>1, <3>1 DEF TypeOK, ConnTypeOK
  <2>3. \A d \in Conns : ~ ReadEof(d)
    BY ReadingHarmless DEF ReadEof, Reading, Harmless
  <2>4. CASE \A d \in Conns : ~ ReadFeatures(d) /\ ~ ReadBarrier(d)
    BY <1>1, <2>3, <2>4, SessionsUntouched
  <2>5. QED BY <2>1, <2>2, <2>4
<1>4. QED BY <1>1, <1>2, <1>3 DEF Connected

\* Frames come from frames, and the first of them from hosts.
LEMMA FramesFrom ==
    ASSUME TypeOK, Steady, [Next]_vars, frames' # {}
    PROVE  Traffic \/ EveryUp
<1>1. ASSUME NEW h \in Hosts, NEW pkt \in Payloads, HostSends(h, pkt) PROVE EveryUp
  BY <1>1 DEF HostSends, Steady, EveryUp
<1>2. ASSUME NEW c \in Conns, SwitchResubmits(c) PROVE Traffic
  BY <1>2, HeadHeld DEF SwitchResubmits, Traffic
<1>3. ASSUME NEW fr \in frames PROVE Traffic
  BY DEF Traffic
<1>4. ASSUME \/ Thread \/ Timer \/ UNCHANGED vars \/ \E c \in Conns : WrittenInVain(c)
             \/ \E c \in Conns : SwitchReceives(c) /\ ~ SwitchResubmits(c)
             \/ \E c \in Conns : SwitchConnects(c)
             \/ \E s \in Switches : SwitchDisconnects(s)
             \/ \E l \in Links : LldpArrives(l)
      PROVE  frames' = frames
  BY <1>4 DEF Thread, Timer, WrittenInVain, SwitchConnects, SwitchDisconnects, LldpArrives,
              SwitchReceives, SwitchClears, SwitchAnswersBarrier, SwitchAddsRule,
              SwitchDeletesByPort, SwitchDeletesByFlow, depVars, vars
<1>5. QED BY <1>1, <1>2, <1>3, <1>4 DEF Next, Switch, Environment

LEMMA TrafficFrom ==
    ASSUME TypeOK, Steady, [Next]_vars, Traffic'
    PROVE  Traffic \/ EveryUp
<1>1. CASE frames' # {}
  BY <1>1, FramesFrom
<1>2. CASE todo'.packet # {}
  BY <1>2, CallSource DEF Traffic
<1>3. ASSUME NEW c \in Conns, NEW m, Has(fromSwitch'[c], m), m.type = "packet_in"
      PROVE  Traffic
  BY <1>3, PacketInSource DEF Traffic
<1>4. ASSUME NEW c \in Conns, NEW m, Has(toSwitch'[c], m), m.type = "packet_out"
      PROVE  Traffic
  <2>1. Has(toSwitch[c], m) \/ WrittenForPacketIn(c, m)
    BY <1>4, MessageSource
  <2>2. WrittenForPacketIn(c, m) => todo.packet # {}
    BY DEF WrittenForPacketIn
  <2>3. QED BY <1>4, <2>1, <2>2 DEF Traffic
<1>5. \/ frames' # {} \/ todo'.packet # {}
      \/ \E c \in Conns : \E m : Has(fromSwitch'[c], m) /\ m.type = "packet_in"
      \/ \E c \in Conns : \E m : Has(toSwitch'[c], m) /\ m.type = "packet_out"
  BY DEF Traffic, Has
<1>6. QED BY <1>1, <1>2, <1>3, <1>4, <1>5

LEMMA StepKeepsTraffic ==
    ASSUME TypeOK, Steady, HandshakeInv, NothingEnds, TrafficUp, [Next]_vars
    PROVE  TrafficUp'
<1>1. SessionsLast'
  BY StepLosesNoSession DEF TrafficUp
<1>2. Traffic' => EveryUp'
  BY TrafficFrom, StepKeepsUp DEF TrafficUp
<1>3. QED BY <1>1, <1>2 DEF TrafficUp

LEMMA TrafficHolds == Steady /\ Spec => []TrafficUp
<1>1. SUFFICES ASSUME Steady PROVE Spec => []TrafficUp
  OBVIOUS
<1>2. Init => TrafficUp
  <2> SUFFICES ASSUME Init PROVE TrafficUp
    OBVIOUS
  <2>1. SessionsLast
    BY DEF Init, SessionsLast
  <2>2. ~ Traffic
    BY HasNone DEF Init, ConnInit, PltInit, Nothing, Traffic
  <2>3. QED BY <2>1, <2>2 DEF TrafficUp
<1>3. TypeOK /\ HandshakeInv /\ (SessionsLast => NothingEnds) /\ TrafficUp /\ [Next]_vars => TrafficUp'
  BY <1>1, StepKeepsTraffic DEF TrafficUp
<1>4. QED BY <1>2, <1>3, TypeCorrect, HandshakeHolds, NothingEndsHolds, PTL DEF Spec

-----------------------------------------------------------------------------
(* The rules that are to come, and the reports of those lost.              *)

\* The report that the rule of f is gone.
Lost(f) == [type |-> "flow_removed", flow |-> f]

\* What a switch has told or is told ends with the flow forgotten ...
Doom(c, f) == Has(fromSwitch[c], Lost(f)) \/ Loses(toSwitch[c], table[Dpid[c]][f], f)

\* ... or with its rule out of port p.
Held(c, f, p) == Ends(toSwitch[c], table[Dpid[c]][f], f, p)

Kept(c, f) ==
    /\ Doom(c, f) => Doom(c, f)'
    /\ \A p \in Ports : Held(c, f, p) => Held(c, f, p)' \/ Doom(c, f)'

LEMMA HasBoth ==
    ASSUME NEW S, NEW q \in Seq(S), NEW r \in Seq(S), NEW m, Has(q, m) \/ Has(r, m)
    PROVE  Has(q \o r, m)
<1> DEFINE s == q \o r
<1>1. /\ Len(s) = Len(q) + Len(r) /\ Len(q) \in Nat /\ Len(r) \in Nat
      /\ \A i \in 1 .. Len(q) : s[i] = q[i]
      /\ \A i \in Len(q) + 1 .. Len(s) : s[i] = r[i - Len(q)]
  OBVIOUS
<1> HIDE DEF s
<1>2. CASE Has(q, m)
  <2>1. PICK i \in 1 .. Len(q) : q[i] = m
    BY <1>2 DEF Has
  <2>2. i \in 1 .. Len(s) /\ s[i] = m
    BY <1>1, <2>1
  <2>3. QED BY <2>2 DEF Has, s
<1>3. CASE Has(r, m)
  <2>1. PICK i \in 1 .. Len(r) : r[i] = m
    BY <1>3 DEF Has
  <2>2. Len(q) + i \in Len(q) + 1 .. Len(s) /\ (Len(q) + i) - Len(q) = i /\ Len(q) + i \in 1 .. Len(s)
    BY <1>1, <2>1
  <2>3. s[Len(q) + i] = m
    BY <1>1, <2>1, <2>2
  <2>4. QED BY <2>2, <2>3 DEF Has, s
<1>4. QED BY <1>2, <1>3

LEMMA HasRest ==
    ASSUME NEW S, NEW q \in Seq(S), q # <<>>, NEW m, Has(q, m), m # Head(q)
    PROVE  Has(Tail(q), m)
<1> DEFINE r == Tail(q)
<1>1. /\ Len(q) \in Nat \ {0} /\ Len(r) = Len(q) - 1 /\ Head(q) = q[1]
      /\ \A i \in 1 .. Len(r) : r[i] = q[i + 1]
  OBVIOUS
<1> HIDE DEF r
<1>2. PICK i \in 1 .. Len(q) : q[i] = m
  BY DEF Has
<1>3. i - 1 \in 1 .. Len(r) /\ r[i - 1] = m
  BY <1>1, <1>2
<1>4. QED BY <1>3 DEF Has, r

LEMMA ReportedStay ==
    ASSUME TypeOK, NEW s, NEW q \in Seq(Reports), Report(s, q), NEW c \in Conns,
           NEW m, Has(fromSwitch[c], m) \/ (c = session[s] /\ Has(q, m))
    PROVE  Has(fromSwitch'[c], m)
<1>1. fromSwitch \in [Conns -> Seq(Reports)]
  BY DEF TypeOK, PltTypeOK
<1>2. CASE c = session[s]
  <2>1. fromSwitch'[c] = fromSwitch[c] \o q
    BY <1>1, <1>2 DEF Report
  <2>2. QED BY <1>1, <1>2, <2>1, HasBoth
<1>3. CASE c # session[s]
  <2>1. fromSwitch'[c] = fromSwitch[c]
    BY <1>1, <1>3 DEF Report
  <2>2. QED BY <1>3, <2>1
<1>4. QED BY <1>2, <1>3

\* Reports of a switch wait until the controller reads them.
LEMMA SwitchKeepsReports ==
    ASSUME TypeOK, Switch, NEW c \in Conns, NEW m, Has(fromSwitch[c], m)
    PROVE  Has(fromSwitch'[c], m)
<1>1. ASSUME NEW d \in Conns, SwitchReceives(d) PROVE Has(fromSwitch'[c], m)
  <2>0. Dpid[d] \in Switches
    BY SwitchAssumption
  <2>1. CASE SwitchClears(d) \/ SwitchDeletesByPort(d) \/ SwitchDeletesByFlow(d)
    <3>1. \E fs \in SUBSET Flows : DeleteRules(Dpid[d], fs)
      <4>1. CASE SwitchDeletesByFlow(d)
        <5>1. Head(toSwitch[d]).flow \in Flows
          BY <4>1, ReceivesTyped, MessageContents DEF SwitchDeletesByFlow
        <5>2. QED BY <4>1, <5>1 DEF SwitchDeletesByFlow
      <4>2. QED BY <2>1, <4>1 DEF SwitchClears, SwitchDeletesByPort
    <3>2. PICK q \in Seq(Reports) : Report(Dpid[d], q)
      BY <2>0, <3>1, DeletedReports
    <3>3. QED BY <3>2, ReportedStay
  <2>2. CASE SwitchAnswersBarrier(d)
    <3>1. Report(Dpid[d], <<[type |-> "barrier"]>>) /\ <<[type |-> "barrier"]>> \in Seq(Reports)
      BY <2>2 DEF SwitchAnswersBarrier, Reports
    <3>2. QED BY <3>1, ReportedStay
  <2>3. CASE SwitchAddsRule(d) \/ SwitchResubmits(d)
    BY <2>3 DEF SwitchAddsRule, SwitchResubmits
  <2>4. QED BY <1>1, <2>1, <2>2, <2>3 DEF SwitchReceives
<1>2. ASSUME NEW fr \in frames, SwitchMisses(fr) PROVE Has(fromSwitch'[c], m)
  <2> DEFINE r == [type |-> "packet_in", frame |-> fr]
  <2>1. <<r>> \in Seq(Reports)
    BY DEF Reports, TypeOK, DepTypeOK
  <2>2. QED BY <1>2, <2>1, ReportedStay DEF SwitchMisses
<1>3. ASSUME NEW fr \in frames, SwitchForwards(fr) PROVE Has(fromSwitch'[c], m)
  BY <1>3 DEF SwitchForwards, pltVars
<1>4. ASSUME NEW d \in Conns, WrittenInVain(d) PROVE Has(fromSwitch'[c], m)
  BY <1>4 DEF WrittenInVain, pltVars
<1>5. QED BY <1>1, <1>2, <1>3, <1>4 DEF Switch

LEMMA EnvironmentKeepsReports ==
    ASSUME TypeOK, Steady, Environment, NEW c \in Conns, Online(c), NEW m, Has(fromSwitch[c], m)
    PROVE  Has(fromSwitch'[c], m)
<1>1. ASSUME NEW d \in Conns, SwitchConnects(d) PROVE Has(fromSwitch'[c], m)
  <2>1. session[Dpid[d]] = NoCon /\ fromSwitch' = [fromSwitch EXCEPT ![d] = <<[type |-> "features"]>>]
    BY <1>1 DEF SwitchConnects
  <2>2. c # d
    BY <2>1, SwitchAssumption DEF Online
  <2>3. QED BY <2>1, <2>2 DEF TypeOK, PltTypeOK
<1>2. ASSUME NEW l \in Links, LldpArrives(l) PROVE Has(fromSwitch'[c], m)
  <2>1. Report(l.dpid2, <<[type |-> "lldp", link |-> l]>>)
    BY <1>2 DEF LldpArrives
  <2>2. <<[type |-> "lldp", link |-> l]>> \in Seq(Reports)
    BY DEF Reports
  <2>3. QED BY <2>1, <2>2, ReportedStay
<1>3. ASSUME NEW h \in Hosts, NEW pkt \in Payloads, HostSends(h, pkt) PROVE Has(fromSwitch'[c], m)
  BY <1>3 DEF HostSends, pltVars
<1>4. QED BY <1>1, <1>2, <1>3 DEF Environment, Steady, SwitchDisconnects

\* The controller that reads of a lost rule forgets the flow.
LEMMA LossStays ==
    ASSUME TypeOK, Steady, NothingEnds, [Next]_vars, NEW c \in Conns, Online(c), NEW f \in Flows,
           Installed(f)', Has(fromSwitch[c], Lost(f))
    PROVE  Has(fromSwitch'[c], Lost(f))
<1>0. fromSwitch \in [Conns -> Seq(Reports)]
  BY DEF TypeOK, PltTypeOK
<1>1. ASSUME NEW d \in Conns, Read(d) PROVE Has(fromSwitch'[c], Lost(f))
  <2>1. PICK t : Reading(d, t) /\ Consume(d) /\ (t = "flow_removed" => ReadFlowRemoved(d))
    <3>1. ~ ReadEof(d)
      BY ReadingHarmless DEF ReadEof, Reading, Harmless
    <3>2. QED BY <1>1, <3>1 DEF Read, ReadFeatures, ReadBarrier, ReadFlowRemoved, LldpIgnored,
                          LinkDetected, ReadPacketIn, HostJoins, HostMoves
  <2>2. Head(fromSwitch[d]).type = t /\ fromSwitch[d] # <<>>
        /\ fromSwitch' = [fromSwitch EXCEPT ![d] = Tail(fromSwitch[d])]
    BY <1>0, <2>1 DEF Reading, Consume
  <2>3. CASE c # d
    BY <1>0, <2>2, <2>3
  <2>4. CASE c = d
    <3>1. Head(fromSwitch[c]) # Lost(f)
      <4>1. SUFFICES ASSUME Head(fromSwitch[c]) = Lost(f) PROVE FALSE
        OBVIOUS
      <4>2. HandleFlowRemoved(f)
        BY <2>1, <2>2, <2>4, <4>1 DEF Lost, ReadFlowRemoved
      <4>3. flows'[FlowId[f]] = "absent"
        BY <4>2, FlowAssumption DEF HandleFlowRemoved, TypeOK, CtlTypeOK
      <4>4. QED BY <4>3 DEF Installed
    <3>2. fromSwitch'[c] = Tail(fromSwitch[c])
      BY <1>0, <2>2, <2>4
    <3>3. QED BY <1>0, <2>2, <2>4, <3>1, <3>2, HasRest
  <2>5. QED BY <2>3, <2>4
<1>2. CASE Dispatch \/ Timer \/ UNCHANGED vars
  <2>1. fromSwitch' = fromSwitch
    BY <1>2 DEF Dispatch, RaiseLinkRemoved, PopLinks, DispatchConnectionDown, DispatchPacketIn,
                Timer, Timeout, ExpireLinks, HostExpires, vars, pltVars
  <2>2. QED BY <2>1
<1>3. QED BY <1>1, <1>2, SwitchKeepsReports, EnvironmentKeepsReports DEF Next, Thread

-----------------------------------------------------------------------------
(* What a step writes.                                                     *)

\* Messages that add a rule or send a packet back, and those that add one for f.
Keeping == { m \in Messages : m.type \in {"add", "packet_out"} }
Adding(f) == { m \in Messages : Adds(m, f) }

\* The step writes to c no message of M.
Spared(c, M) ==
    \E r \in Seq(Messages) :
      toSwitch'[c] = toSwitch[c] \o r /\ \A i \in 1 .. Len(r) : r[i] \notin M

LEMMA SilentSpared ==
    ASSUME TypeOK, NEW c \in Conns, NEW M, toSwitch'[c] = toSwitch[c]
    PROVE  Spared(c, M)
<1> DEFINE r == <<>>
<1>1. toSwitch[c] \in Seq(Messages) /\ r \in Seq(Messages) /\ Len(r) = 0
  BY DEF TypeOK, ConnTypeOK
<1>2. toSwitch'[c] = toSwitch[c] \o r
  BY <1>1
<1> HIDE DEF r
<1>3. \A i \in 1 .. Len(r) : r[i] \notin M
  BY <1>1
<1>4. QED BY <1>1, <1>2, <1>3 DEF Spared

LEMMA SendSpared ==
    ASSUME TypeOK, NoneClosed, NEW out \in [Conns -> Seq(Messages)], Send(out),
           NEW c \in Conns, NEW M, \A m : Has(out[c], m) => m \notin M
    PROVE  Spared(c, M)
<1>1. toSwitch'[c] = toSwitch[c] \o out[c] /\ out[c] \in Seq(Messages)
  BY DEF Send, NoneClosed
<1>2. \A i \in 1 .. Len(out[c]) : out[c][i] \notin M
  BY DEF Has
<1>3. QED BY <1>1, <1>2 DEF Spared

LEMMA OnlyToSpared ==
    ASSUME TypeOK, NoneClosed, NEW d \in Conns, NEW k \in Messages, Send(OnlyTo(d, k)),
           NEW c \in Conns, NEW M, k \notin M
    PROVE  Spared(c, M)
<1>1. OnlyTo(d, k)[c] = IF c = d THEN <<k>> ELSE <<>>
  BY DEF OnlyTo, Silence
<1>2. \A m : Has(OnlyTo(d, k)[c], m) => m = k
  BY <1>1, HasOne, HasNone
<1>3. QED BY <1>2, OnlyToTyped, SendSpared

\* A PacketIn writes no rule of a flow that is installed.
LEMMA PacketInAddsNone ==
    ASSUME TypeOK, HostViewsAgree, NoneClosed, NEW d \in Conns, NEW fr \in Frames,
           HandlePacketIn(d, fr), NEW c \in Conns, NEW f \in Flows, Installed(f)
    PROVE  Spared(c, Adding(f))
<1>1. CASE IgnorePacket(fr) \/ NoPathFound(fr)
  BY <1>1, SilentSpared DEF IgnorePacket, NoPathFound
<1>2. CASE ForwardInstalled(d, fr)
  <2>1. PacketOut(fr) \in Messages /\ Send(OnlyTo(d, PacketOut(fr))) /\ PacketOut(fr) \notin Adding(f)
    BY <1>2, MessagesTyped DEF ForwardInstalled, PacketOut, Adding, Adds
  <2>2. QED BY <2>1, OnlyToSpared
<1>3. CASE InstallPath(d, fr)
  <2> DEFINE rules == RulesOf(fr.pkt, ChosenPath(fr.pkt))
             p == <<PacketOut(fr)>>
  <2>1. fr.pkt \in Flows /\ fr.pkt # f
    BY <1>3 DEF InstallPath, Installed
  <2>2. PICK out : Sends(d, fr, out)
    BY <1>3, InstallSends
  <2>3. \A m : Has(rules[c], m) => m.type = "add" /\ m.flow = fr.pkt
    BY <2>1, RulesAreAdds DEF TypeOK
  <2>4. PacketOut(fr) \in Messages /\ p \in Seq(Messages) /\ \A m : Has(p, m) => m = PacketOut(fr)
    BY MessagesTyped, HasOne
  <2>5. /\ rules[c] \in Seq(Messages) /\ (out[c] = rules[c] \/ out[c] = rules[c] \o p)
        /\ out \in [Conns -> Seq(Messages)] /\ Send(out)
    BY <2>2 DEF Sends
  <2> HIDE DEF rules, p
  <2>6. \A m : Has(out[c], m) => Has(rules[c], m) \/ m = PacketOut(fr)
    BY <2>4, <2>5, HasAppended
  <2>7. \A m : Has(out[c], m) => m \notin Adding(f)
    BY <2>1, <2>3, <2>6 DEF Adding, Adds, PacketOut
  <2>8. QED BY <2>5, <2>7, SendSpared
<1>4. QED BY <1>1, <1>2, <1>3 DEF HandlePacketIn

LEMMA LinkRemovedSendsNone ==
    ASSUME TypeOK, NoneClosed, NEW l \in Links, HandleLinkRemoved(l), NEW c \in Conns
    PROVE  Spared(c, Keeping)
<1> DEFINE d == IF <<l.dpid1, l.dpid2>> \in edges THEN switches[l.dpid1] ELSE NoCon
           p == IF d = NoCon THEN NoPort ELSE neighbour[d][l.dpid2]
<1>1. l.dpid1 \in Switches /\ l.dpid2 \in Switches
  BY LinkEnds
<1>2. d \in Conns \cup {NoCon}
  BY <1>1 DEF TypeOK, CtlTypeOK
<1>3. p = NoPort \/ (d \in Conns /\ p \in Ports)
  <2> HIDE DEF d
  <2>1. CASE d \in Conns
    BY <1>1, <2>1 DEF TypeOK, CtlTypeOK
  <2>2. QED BY <1>2, <2>1
<1>4. toSwitch' = toSwitch \/ (p # NoPort /\ Send(OnlyTo(d, DeleteByPort(p))))
  BY DEF HandleLinkRemoved
<1> HIDE DEF d, p
<1>5. DeleteByPort(p) \notin Keeping /\ (p \in Ports => DeleteByPort(p) \in Messages)
  BY MessagesTyped DEF DeleteByPort, Keeping
<1>6. QED BY <1>3, <1>4, <1>5, SilentSpared, OnlyToSpared

LEMMA ReadSendsNone ==
    ASSUME TypeOK, NoneClosed, NothingEnds, NEW d \in Conns, Read(d), NEW c \in Conns
    PROVE  Spared(c, Keeping)
<1>1. CASE ReadFeatures(d)
  <2> DEFINE out == [Silence EXCEPT ![d] = <<ClearRules, BarrierRequest>>]
  <2>1. Send(out) /\ out \in [Conns -> Seq(Messages)]
    BY <1>1, HandshakeTyped DEF ReadFeatures, FeaturesReply
  <2>2. out[c] = IF c = d THEN <<ClearRules, BarrierRequest>> ELSE <<>>
    BY DEF Silence
  <2>3. \A m : Has(<<ClearRules, BarrierRequest>>, m) => m \notin Keeping
    BY DEF Has, ClearRules, BarrierRequest, Keeping
  <2> HIDE DEF out
  <2>4. \A m : Has(out[c], m) => m \notin Keeping
    BY <2>2, <2>3, HasNone
  <2>5. QED BY <2>1, <2>4, SendSpared
<1>2. CASE ReadFlowRemoved(d)
  <2> DEFINE g == Head(fromSwitch[d]).flow
             out == [e \in Conns |-> IF \E s \in Switches : switches[s] = e
                                     THEN <<DeleteByFlow(g)>> ELSE <<>>]
  <2>1. g \in Flows
    BY <1>2, ReadingTyped, ReportContents DEF ReadFlowRemoved, TypeOK
  <2>2. out \in [Conns -> Seq(Messages)] /\ Send(out)
    <3>1. DeleteByFlow(g) \in Messages
      BY <2>1, MessagesTyped
    <3> HIDE DEF g
    <3>2. QED BY <1>2, <3>1 DEF ReadFlowRemoved, HandleFlowRemoved, g
  <2>3. \A m : Has(<<DeleteByFlow(g)>>, m) => m \notin Keeping
    BY HasOne DEF DeleteByFlow, Keeping
  <2>4. \A m : Has(out[c], m) => m \notin Keeping
    BY <2>3, HasNone
  <2> HIDE DEF out
  <2>5. QED BY <2>2, <2>4, SendSpared
<1>3. CASE ReadEof(d)
  BY <1>3, ReadingHarmless DEF ReadEof, Reading, Harmless
<1>4. CASE \/ ReadBarrier(d) \/ LldpIgnored(d) \/ LinkDetected(d)
           \/ ReadPacketIn(d) \/ HostJoins(d) \/ HostMoves(d)
  <2>1. toSwitch' = toSwitch
    BY <1>4 DEF ReadBarrier, FinishConnecting, LldpIgnored, LinkDetected, ReadPacketIn,
                HostJoins, HostMoves, conVars
  <2>2. QED BY <2>1, SilentSpared
<1>5. QED BY <1>1, <1>2, <1>3, <1>4 DEF Read

\* A PacketIn is handled.
PacketInHandled ==
    \E d \in Conns, fr \in Frames : <<d, fr>> \in todo.packet /\ HandlePacketIn(d, fr)

\* A step that is not of the switch of c leaves its rules, and adds to its queue
\* no rule and no packet, but for a PacketIn.
LEMMA OthersSpare ==
    ASSUME TypeOK, Steady, HandshakeInv, NoneClosed, NothingEnds, [Next]_vars,
           NEW c \in Conns, Online(c), ~ SwitchReceives(c)
    PROVE  /\ Spared(c, Keeping) \/ PacketInHandled
           /\ table'[Dpid[c]] = table[Dpid[c]]
<1>1. CASE Thread
  <2>1. table' = table
    BY <1>1 DEF Thread, depVars
  <2>2. ASSUME Dispatch PROVE Spared(c, Keeping) \/ PacketInHandled
    <3>1. CASE RaiseLinkRemoved
      <4>1. PICK l \in todo.removed : HandleLinkRemoved(l)
        BY <3>1 DEF RaiseLinkRemoved
      <4>2. l \in Links
        BY DEF TypeOK, PltTypeOK, Calls
      <4>3. QED BY <4>1, <4>2, LinkRemovedSendsNone
    <3>2. CASE PopLinks \/ DispatchConnectionDown
      BY <3>2, SilentSpared DEF PopLinks, DispatchConnectionDown, conVars
    <3>3. CASE DispatchPacketIn
      <4>1. PICK call \in todo.packet : HandlePacketIn(call[1], call[2])
        BY <3>3 DEF DispatchPacketIn
      <4>2. call[1] \in Conns /\ call[2] \in Frames /\ call = <<call[1], call[2]>>
        BY DEF TypeOK, PltTypeOK, Calls
      <4>3. QED BY <4>1, <4>2 DEF PacketInHandled
    <3>4. QED BY <2>2, <3>1, <3>2, <3>3 DEF Dispatch
  <2>3. QED BY <1>1, <2>1, <2>2, ReadSendsNone DEF Thread
<1>2. CASE Timer \/ UNCHANGED vars
  BY <1>2, SilentSpared DEF Timer, Timeout, ExpireLinks, HostExpires, conVars, depVars, vars
<1>3. CASE Environment
  <2>1. toSwitch' = toSwitch /\ table' = table
    BY <1>3 DEF Environment, SwitchConnects, SwitchDisconnects, Steady, LldpArrives, HostSends,
                conVars, depVars
  <2>2. QED BY <2>1, SilentSpared
<1>4. ASSUME NEW d \in Conns, SwitchReceives(d)
      PROVE  toSwitch'[c] = toSwitch[c] /\ table'[Dpid[c]] = table[Dpid[c]]
  <2>1. Online(d) /\ toSwitch' = [toSwitch EXCEPT ![d] = Tail(@)]
    BY <1>4 DEF SwitchReceives, SwitchClears, SwitchAnswersBarrier, SwitchAddsRule, SwitchResubmits,
                SwitchDeletesByPort, SwitchDeletesByFlow, Receives
  <2>2. d # c /\ Dpid[d] # Dpid[c] /\ Dpid[c] \in Switches /\ Dpid[d] \in Switches
    BY <1>4, <2>1, OnlineOne, SwitchAssumption
  <2>3. table'[Dpid[c]] = table[Dpid[c]]
    BY <1>4, <2>2 DEF SwitchReceives, SwitchClears, SwitchAnswersBarrier, SwitchAddsRule,
                      SwitchResubmits, SwitchDeletesByPort, SwitchDeletesByFlow, DeleteRules,
                      TypeOK, DepTypeOK
  <2>4. QED BY <2>1, <2>2, <2>3 DEF TypeOK, ConnTypeOK
<1>5. ASSUME NEW d \in Conns, WrittenInVain(d)
      PROVE  toSwitch'[c] = toSwitch[c] /\ table'[Dpid[c]] = table[Dpid[c]]
  <2>1. d # c /\ toSwitch' = [toSwitch EXCEPT ![d] = <<>>] /\ table' = table
    BY <1>5 DEF WrittenInVain, depVars
  <2>2. QED BY <2>1 DEF TypeOK, ConnTypeOK
<1>6. ASSUME NEW fr \in frames, SwitchForwards(fr) \/ SwitchMisses(fr)
      PROVE  toSwitch'[c] = toSwitch[c] /\ table'[Dpid[c]] = table[Dpid[c]]
  BY <1>6 DEF SwitchForwards, SwitchMisses, conVars
<1>7. CASE Switch
  BY <1>4, <1>5, <1>6, <1>7, SilentSpared DEF Switch
<1>8. QED BY <1>1, <1>2, <1>3, <1>7 DEF Next

LEMMA InstalledSpared ==
    ASSUME TypeOK, Steady, HandshakeInv, HostViewsAgree, NoneClosed, NothingEnds, [Next]_vars,
           NEW c \in Conns, Online(c), ~ SwitchReceives(c), NEW f \in Flows, Installed(f)
    PROVE  Spared(c, Adding(f)) /\ table'[Dpid[c]] = table[Dpid[c]]
<1>1. Adding(f) \subseteq Keeping
  BY DEF Adding, Keeping, Adds
<1>2. Spared(c, Keeping) => Spared(c, Adding(f))
  BY <1>1 DEF Spared
<1>3. PacketInHandled => Spared(c, Adding(f))
  BY PacketInAddsNone DEF PacketInHandled
<1>4. QED BY <1>2, <1>3, OthersSpare

LEMMA GrowthKeeps ==
    ASSUME TypeOK, NEW c \in Conns, NEW f \in Flows, Spared(c, Adding(f)),
           table'[Dpid[c]] = table[Dpid[c]],
           Has(fromSwitch[c], Lost(f)) => Has(fromSwitch'[c], Lost(f))
    PROVE  Kept(c, f)
<1> DEFINE q == toSwitch[c]
           port == table[Dpid[c]][f]
<1>1. q \in Seq(Messages)
  BY DEF TypeOK, ConnTypeOK
<1>2. PICK r \in Seq(Messages) : toSwitch'[c] = q \o r /\ \A i \in 1 .. Len(r) : ~ Adds(r[i], f)
  <2>1. PICK r \in Seq(Messages) : /\ toSwitch'[c] = q \o r
                                   /\ \A i \in 1 .. Len(r) : r[i] \notin Adding(f)
    BY DEF Spared
  <2>2. \A i \in 1 .. Len(r) : r[i] \in Messages
    OBVIOUS
  <2>3. \A i \in 1 .. Len(r) : ~ Adds(r[i], f)
    BY <2>1, <2>2 DEF Adding
  <2>4. QED BY <2>1, <2>3
<1>3. table'[Dpid[c]][f] = port
  OBVIOUS
<1> HIDE DEF q, port
<1>4. Loses(q, port, f) => Loses(q \o r, port, f)
  BY <1>1, LosesAppend
<1>5. \A p \in Ports : Ends(q, port, f, p) => Ends(q \o r, port, f, p) \/ Loses(q \o r, port, f)
  BY <1>1, <1>2, EndsAppend
<1>6. /\ Doom(c, f)' <=> Has(fromSwitch'[c], Lost(f)) \/ Loses(q \o r, port, f)
      /\ \A p \in Ports : Held(c, f, p)' <=> Ends(q \o r, port, f, p)
  BY <1>2, <1>3 DEF Doom, Held, Loses, Ends, RuleAt, Has
<1>7. /\ Doom(c, f) <=> Has(fromSwitch[c], Lost(f)) \/ Loses(q, port, f)
      /\ \A p \in Ports : Held(c, f, p) <=> Ends(q, port, f, p)
  BY DEF Doom, Held, q, port
<1>8. QED BY <1>4, <1>5, <1>6, <1>7 DEF Kept

\* What the message read does to the rule of f, and to its reports.
LEMMA ReceivesPort ==
    ASSUME TypeOK, NEW c \in Conns, SwitchReceives(c), NEW f \in Flows
    PROVE  LET m   == Head(toSwitch[c])
               old == table[Dpid[c]][f]
               new == table'[Dpid[c]][f]
           IN  /\ \A x : m = AddRule(f, x) => new = x
               /\ ~ Removes(m, f, old) /\ ~ Adds(m, f) => new = old
               /\ old \in Ports /\ Removes(m, f, old) => Has(fromSwitch'[c], Lost(f))
<1> DEFINE m == Head(toSwitch[c])
           s == Dpid[c]
           old == table[s][f]
           new == table'[s][f]
           Goal == /\ \A x : m = AddRule(f, x) => new = x
                   /\ ~ Removes(m, f, old) /\ ~ Adds(m, f) => new = old
                   /\ old \in Ports /\ Removes(m, f, old) => Has(fromSwitch'[c], Lost(f))
<1>1. s \in Switches /\ table \in [Switches -> [Flows -> Ports \cup {NoPort}]] /\ session[s] = c
  BY SwitchAssumption DEF TypeOK, DepTypeOK, SwitchReceives, SwitchClears, SwitchAnswersBarrier,
     SwitchAddsRule, SwitchResubmits, SwitchDeletesByPort, SwitchDeletesByFlow, Receives, Online
<1>2. ASSUME NEW fs \in SUBSET Flows, DeleteRules(s, fs), m.type # "add",
             Removes(m, f, old) => f \in fs, f \in fs => Removes(m, f, old)
      PROVE  Goal
  <2>1. new = IF f \in fs THEN NoPort ELSE old
    BY <1>1, <1>2 DEF DeleteRules
  <2>2. PICK q \in Seq(Reports) :
          /\ Report(s, q)
          /\ \A g \in fs : table[s][g] # NoPort => Has(q, [type |-> "flow_removed", flow |-> g])
    BY <1>1, <1>2, DeletedReports
  <2>3. ASSUME old \in Ports, Removes(m, f, old) PROVE Has(fromSwitch'[c], Lost(f))
    <3>1. Has(q, Lost(f))
      BY <1>2, <2>2, <2>3, PortsExist DEF Lost
    <3>2. QED BY <1>1, <2>2, <3>1, ReportedStay
  <2>4. \A x : m # AddRule(f, x)
    BY <1>2 DEF AddRule
  <2>5. QED BY <1>2, <2>1, <2>3, <2>4
<1>3. CASE SwitchClears(c)
  <2>1. m.type = "clear" /\ DeleteRules(s, Flows)
    BY <1>3 DEF SwitchClears, Receives
  <2>2. QED BY <1>2, <2>1 DEF Removes, Drops
<1>4. CASE SwitchAnswersBarrier(c) \/ SwitchResubmits(c)
  <2>1. m.type \in {"barrier", "packet_out"} /\ table' = table
    BY <1>4 DEF SwitchAnswersBarrier, SwitchResubmits, Receives
  <2>2. QED BY <2>1 DEF Removes, Drops, AddRule
<1>5. CASE SwitchAddsRule(c)
  <2>1. m.type = "add" /\ table' = [table EXCEPT ![s][m.flow] = m.port]
    BY <1>5 DEF SwitchAddsRule, Receives
  <2>2. new = IF f = m.flow THEN m.port ELSE old
    BY <1>1, <2>1
  <2>3. \A x : m = AddRule(f, x) => m.flow = f /\ m.port = x
    BY DEF AddRule
  <2>4. ~ Removes(m, f, old) /\ (~ Adds(m, f) => f # m.flow)
    BY <2>1 DEF Removes, Drops, Adds
  <2> HIDE DEF new, old, m
  <2>5. Goal
    BY <2>2, <2>3, <2>4
  <2>6. QED BY <2>5 DEF new, old, m
<1>6. CASE SwitchDeletesByPort(c)
  <2>1. m.type = "del_port" /\ DeleteRules(s, { g \in Flows : table[s][g] = m.port })
    BY <1>6 DEF SwitchDeletesByPort, Receives
  <2>2. QED BY <1>2, <2>1 DEF Removes, Drops
<1>7. CASE SwitchDeletesByFlow(c)
  <2>1. m.type = "del_flow" /\ DeleteRules(s, {m.flow}) /\ m.flow \in Flows
    BY <1>7, ReceivesTyped, MessageContents DEF SwitchDeletesByFlow, Receives
  <2>2. QED BY <1>2, <2>1 DEF Removes, Drops
<1>8. QED BY <1>3, <1>4, <1>5, <1>6, <1>7 DEF SwitchReceives

LEMMA ReceiveKeeps ==
    ASSUME TypeOK, NEW c \in Conns, SwitchReceives(c), NEW f \in Flows
    PROVE  Kept(c, f)
<1> DEFINE q == toSwitch[c]
           port == table[Dpid[c]][f]
           new == table'[Dpid[c]][f]
<1>1. q \in Seq(Messages) /\ q # <<>> /\ toSwitch'[c] = Tail(q)
  BY DEF TypeOK, ConnTypeOK, SwitchReceives, SwitchClears, SwitchAnswersBarrier, SwitchAddsRule,
         SwitchResubmits, SwitchDeletesByPort, SwitchDeletesByFlow, Receives
<1>2. /\ \A x : Head(q) = AddRule(f, x) => new = x
      /\ ~ Removes(Head(q), f, port) /\ ~ Adds(Head(q), f) => new = port
      /\ port \in Ports /\ Removes(Head(q), f, port) => Has(fromSwitch'[c], Lost(f))
  BY ReceivesPort
<1>3. Has(fromSwitch[c], Lost(f)) => Has(fromSwitch'[c], Lost(f))
  <2>1. Switch
    BY DEF Switch
  <2>2. QED BY <2>1, SwitchKeepsReports
<1>4. /\ Doom(c, f)' <=> Has(fromSwitch'[c], Lost(f)) \/ Loses(Tail(q), new, f)
      /\ \A p \in Ports : Held(c, f, p)' <=> Ends(Tail(q), new, f, p)
  BY <1>1 DEF Doom, Held, Loses, Ends, RuleAt, Has
<1>5. /\ Doom(c, f) <=> Has(fromSwitch[c], Lost(f)) \/ Loses(q, port, f)
      /\ \A p \in Ports : Held(c, f, p) <=> Ends(q, port, f, p)
  BY DEF Doom, Held
<1> HIDE DEF q, port, new
<1>6. Loses(q, port, f) => Loses(Tail(q), new, f) \/ Has(fromSwitch'[c], Lost(f))
  BY <1>1, <1>2, LosesTail
<1>7. ASSUME NEW p \in Ports, Ends(q, port, f, p) PROVE Ends(Tail(q), new, f, p)
  BY <1>1, <1>2, <1>7, EndsTail
<1>8. QED BY <1>3, <1>4, <1>5, <1>6, <1>7 DEF Kept

\* As long as a flow stays installed, a step keeps the rules that are to come,
\* or the loss that will end it.
LEMMA StepKeeps ==
    ASSUME TypeOK, Steady, HandshakeInv, HostViewsAgree, NoneClosed, NothingEnds, [Next]_vars,
           NEW c \in Conns, Online(c), NEW f \in Flows, Installed(f), Installed(f)'
    PROVE  Kept(c, f)
<1>1. CASE SwitchReceives(c)
  BY <1>1, ReceiveKeeps
<1>2. CASE ~ SwitchReceives(c)
  BY <1>2, InstalledSpared, LossStays, GrowthKeeps
<1>3. QED BY <1>1, <1>2

-----------------------------------------------------------------------------
(* Installed flows are carried, or a rule of theirs is lost.               *)

\* A way from the source of f to its destination, and its ports; the switches
\* are path[2] to path[n].
Route(f, n, path, out) ==
    /\ n \in Nat /\ n >= 2
    /\ path[2] = Attach[SrcHw[f]].sw /\ path[n + 1] = DstHw[f]
    /\ \A i \in 2 .. n : path[i] \in Switches /\ out[i] \in Ports /\ LeadsTo(path[i], out[i], path[i + 1])
    /\ \A i, j \in 2 .. n : path[i] = path[j] => i = j

\* A flow is carried all the way, once the switches have read their messages,
\* or the controller will hear that a rule of it is lost.
Carried(f) ==
    \E n, path, out :
      /\ Route(f, n, path, out)
      /\ \A i \in 2 .. n : \E c \in Conns : Online(c) /\ Dpid[c] = path[i] /\ Held(c, f, out[i])

Doomed(f) == \E c \in Conns : Online(c) /\ Doom(c, f)

DeliveryInv == \A f \in Flows : Installed(f) => Carried(f) \/ Doomed(f)

\* No flow is from a host to itself.
TwoEnds == \A f \in Flows : SrcHw[f] # DstHw[f]

\* Its path starts at the switch of the source, and passes through one.
LEMMA PathStarts ==
    ASSUME HostsHome, TwoEnds, NEW f \in Flows, NEW n \in Nat, NEW path,
           IsPath(path, edges, SrcHw[f], n), path[n + 1] = DstHw[f]
    PROVE  n >= 2 /\ path[2] = Attach[SrcHw[f]].sw
<1>1. SrcHw[f] \in Hosts /\ DstHw[f] \in Hosts /\ SrcHw[f] # DstHw[f]
      /\ Attach[SrcHw[f]].sw \in Switches
  BY FlowAssumption, HostAssumption DEF TwoEnds
<1>2. n # 0 /\ 1 \in 1 .. n /\ 2 \in 1 .. n + 1
  <2>1. n # 0
    BY <1>1 DEF IsPath
  <2>2. QED BY <2>1
<1>3. path[2] = Attach[SrcHw[f]].sw
  <2>1. <<SrcHw[f], path[2]>> \in edges /\ path[2] \in GraphNodes
    BY <1>2 DEF IsPath
  <2>2. QED BY <1>1, <2>1 DEF HostsHome
<1>4. n # 1
  BY <1>1, <1>3, HostAssumption
<1>5. QED BY <1>2, <1>3, <1>4

LEMMA InstalledIsCarried ==
    ASSUME PathsKnown, AllUp, FiniteNetwork, TwoEnds, NEW c \in Conns, NEW fr \in Frames,
           InstallPath(c, fr), UNCHANGED depVars, NEW f, f = fr.pkt
    PROVE  Carried(f)'
<1>0. PICK n \in Nat : \E path :
        /\ IsPath(path, edges, SrcHw[f], n) /\ path[n + 1] = DstHw[f]
        /\ \A i \in 2 .. n : \E d \in Conns, p \in Ports : HopSent(f, path, i, d, p)
  BY InstallHops
<1>1. PICK path :
        /\ IsPath(path, edges, SrcHw[f], n) /\ path[n + 1] = DstHw[f]
        /\ \A i \in 2 .. n : \E d \in Conns, p \in Ports : HopSent(f, path, i, d, p)
  BY <1>0
<1>2. n >= 2 /\ path[2] = Attach[SrcHw[f]].sw
  BY <1>1, PathStarts DEF InstallPath, PathsKnown
<1>3. PICK out : \A i \in 2 .. n : out[i] \in Ports /\ \E d \in Conns : HopSent(f, path, i, d, out[i])
  <2> DEFINE At(i, p) == \E d \in Conns : HopSent(f, path, i, d, p)
             o == [i \in 2 .. n |-> CHOOSE p \in Ports : At(i, p)]
  <2>1. \A i \in 2 .. n : \E p \in Ports : At(i, p)
    BY <1>1
  <2> HIDE DEF At
  <2>2. \A i \in 2 .. n : o[i] \in Ports /\ At(i, o[i])
    BY <2>1
  <2> HIDE DEF o
  <2>3. QED BY <2>2 DEF At
<1>4. Route(f, n, path, out)
  <2>1. \A i, j \in 2 .. n : path[i] = path[j] => i = j
    <3>1. \A i \in 2 .. n : i \in 1 .. n + 1
      OBVIOUS
    <3>2. QED BY <1>1, <3>1 DEF IsPath
  <2>2. \A i \in 2 .. n : path[i] \in Switches /\ out[i] \in Ports /\ LeadsTo(path[i], out[i], path[i + 1])
    BY <1>3 DEF HopSent
  <2>3. QED BY <1>1, <1>2, <2>1, <2>2 DEF Route
<1>5. ASSUME NEW i \in 2 .. n
      PROVE  \E d \in Conns : Online(d)' /\ Dpid[d] = path[i] /\ Held(d, f, out[i])'
  <2>1. PICK d \in Conns : HopSent(f, path, i, d, out[i])
    BY <1>3
  <2>2. Online(d)' /\ Dpid[d] = path[i]
    BY <2>1 DEF HopSent, Online, depVars
  <2>3. PICK p : p = out[i]
    OBVIOUS
  <2>4. PICK g \in Frames : \E r : /\ toSwitch'[d] = toSwitch[d] \o r
                                   /\ r = <<AddRule(f, p)>> \/ r = <<AddRule(f, p)>> \o <<PacketOut(g)>>
    BY <2>1, <2>3 DEF HopSent
  <2>5. PICK r : /\ toSwitch'[d] = toSwitch[d] \o r
                 /\ r = <<AddRule(f, p)>> \/ r = <<AddRule(f, p)>> \o <<PacketOut(g)>>
    BY <2>4
  <2>6. AddRule(f, p) \in Messages /\ PacketOut(g) \in Messages /\ toSwitch[d] \in Seq(Messages)
    BY <2>1, <2>3, MessagesTyped DEF HopSent, PathsKnown, TypeOK, ConnTypeOK
  <2>7. Ends(toSwitch[d] \o r, table[Dpid[d]][f], f, p)
    BY <2>5, <2>6, EndsAdded
  <2>8. Ends(toSwitch'[d], table'[Dpid[d]][f], f, p)
    BY <2>5, <2>7 DEF depVars
  <2>9. Held(d, f, p)'
    BY <2>8 DEF Held, Ends, RuleAt
  <2>10. Held(d, f, out[i])'
    BY <2>3, <2>9
  <2>11. QED BY <2>2, <2>10
<1>6. QED BY <1>4, <1>5 DEF Carried, Route

\* What the flows' rules need to know of the rest of the system.
Known ==
    /\ TypeOK /\ HandshakeInv /\ HostViewsAgree /\ UpRegistered /\ PortsLead
    /\ (SessionsLast => NothingEnds) /\ (SessionsLast => EdgePorts)
    /\ RuleInv /\ TrafficUp

LEMMA StepKeepsDelivery ==
    ASSUME Known, HostsHome, Steady, OneId, FiniteNetwork, TwoEnds, DeliveryInv, [Next]_vars
    PROVE  DeliveryInv'
<1> USE DEF Known
<1> SUFFICES ASSUME NEW f \in Flows, Installed(f)' PROVE Carried(f)' \/ Doomed(f)'
  BY DEF DeliveryInv
<1>0. SessionsLast /\ NothingEnds /\ NoneClosed
  BY DEF TrafficUp, RuleInv
<1>1. ASSUME Installed(f), NEW c \in Conns, Online(c) PROVE Kept(c, f) /\ Online(c)'
  BY <1>0, <1>1, StepKeeps, StepKeepsOnline
<1>2. CASE Installed(f)
  <2>1. CASE Doomed(f)
    BY <1>1, <1>2, <2>1 DEF Doomed, Kept
  <2>2. CASE Carried(f)
    <3>1. PICK n, path, out :
            /\ Route(f, n, path, out)
            /\ \A i \in 2 .. n : \E c \in Conns : Online(c) /\ Dpid[c] = path[i] /\ Held(c, f, out[i])
      BY <2>2 DEF Carried
    <3>2. ASSUME NEW i \in 2 .. n
          PROVE  \/ Doomed(f)'
                 \/ \E c \in Conns : Online(c)' /\ Dpid[c] = path[i] /\ Held(c, f, out[i])'
      <4>1. PICK c \in Conns : Online(c) /\ Dpid[c] = path[i] /\ Held(c, f, out[i])
        BY <3>1
      <4>2. out[i] \in Ports
        BY <3>1 DEF Route
      <4>3. Online(c)' /\ (Held(c, f, out[i])' \/ Doom(c, f)')
        BY <1>1, <1>2, <4>1, <4>2 DEF Kept
      <4>4. QED BY <4>1, <4>3 DEF Doomed
    <3>3. Route(f, n, path, out)'
      BY <3>1 DEF Route
    <3>4. QED BY <3>2, <3>3 DEF Carried
  <2>3. QED BY <1>2, <2>1, <2>2 DEF DeliveryInv
<1>3. CASE ~ Installed(f)
  <2>1. PICK c \in Conns, fr \in Frames :
          fr.pkt = f /\ <<c, fr>> \in todo.packet /\ InstallPath(c, fr) /\ UNCHANGED depVars
    BY <1>3, InstalledByPath DEF NewlyInstalled
  <2>2. AllUp /\ PathsKnown
    BY <1>0, <2>1 DEF TrafficUp, Traffic, EveryUp, AllUp, PathsKnown
  <2>3. QED BY <2>1, <2>2, InstalledIsCarried
<1>4. QED BY <1>2, <1>3

-----------------------------------------------------------------------------
(* What the tables do with a frame.                                        *)

\* A port of a switch has one cable: to a host, or to the switch that a link
\* out of it leads to and that any link into it comes from.
Cabled ==
    /\ \A k, l \in Links : (k.dpid2 = l.dpid1 /\ k.port2 = l.port1) => k.dpid1 = l.dpid2
    /\ \A h \in Hosts, l \in Links : Attach[h] # [sw |-> l.dpid1, port |-> l.port1]

\* The rules for f at the other end of a link send the frame on over it.
Forwards(f, at, l) ==
    /\ l.dpid1 = at.sw
    /\ l.port1 = table[at.sw][f]
    /\ l.port1 # at.port

FarEnd(l) == [sw |-> l.dpid2, port |-> l.port2]

\* Where the frames of f at the locations of A can be a hop later.
Onward(f, A) == { FarEnd(l) : l \in { k \in Links : \E at \in A : Forwards(f, at, k) } }

\* g is a way of n hops from the source of f.
Chain(f, n, g) ==
    /\ g \in [0 .. n -> Location] /\ g[0] = Attach[SrcHw[f]]
    /\ \A i \in 0 .. n - 1 : g[i + 1] \in Onward(f, {g[i]})

\* The locations that a frame of f can be at are the ends of such ways.
LEMMA ReachedByHops ==
    ASSUME NEW f \in Flows
    PROVE  \E At : /\ At = [n \in Nat |-> IF n = 0 THEN {Attach[SrcHw[f]]} ELSE Onward(f, At[n - 1])]
                   /\ Reached(f) = UNION { At[n] : n \in 0 .. Cardinality(Switches) }
<1> DEFINE F(V) == [n \in Nat |-> IF n = 0 THEN {Attach[SrcHw[f]]} ELSE Onward(f, V[n - 1])]
           Places(n) == { at \in Location : \E g : Chain(f, n, g) /\ g[n] = at }
           W == [n \in Nat |-> Places(n)]
           At == CHOOSE V : V = F(V)
<1>0. Attach[SrcHw[f]] \in Location
  BY FlowAssumption, HostAssumption DEF Location
<1>1. ASSUME NEW n \in Nat PROVE W[n] = IF n = 0 THEN {Attach[SrcHw[f]]} ELSE Onward(f, W[n - 1])
  <2>1. CASE n = 0
    <3> DEFINE g == [i \in 0 .. 0 |-> Attach[SrcHw[f]]]
    <3>1. Chain(f, 0, g) /\ g[0] = Attach[SrcHw[f]]
      BY <1>0 DEF Chain
    <3> HIDE DEF g
    <3>2. Places(0) = {Attach[SrcHw[f]]}
      BY <1>0, <3>1 DEF Chain
    <3>3. QED BY <2>1, <3>2
  <2>2. CASE n # 0
    <3>1. n - 1 \in Nat /\ (n - 1) + 1 = n
      BY <2>2
    <3>2. ASSUME NEW at \in Places(n) PROVE at \in Onward(f, Places(n - 1))
      <4>1. PICK g : Chain(f, n, g) /\ g[n] = at
        OBVIOUS
      <4> DEFINE b == [i \in 0 .. n - 1 |-> g[i]]
      <4>2. Chain(f, n - 1, b) /\ b[n - 1] = g[n - 1] /\ g[n - 1] \in Location
        <5>1. \A i \in 0 .. n - 1 : b[i] = g[i] /\ g[i] \in Location
          BY <3>1, <4>1 DEF Chain
        <5>2. \A i \in 0 .. (n - 1) - 1 : i \in 0 .. n - 1 /\ i + 1 \in 0 .. n - 1
          BY <3>1
        <5>3. b \in [0 .. n - 1 -> Location]
          BY <5>1
        <5> HIDE DEF b
        <5>4. 0 \in 0 .. n - 1 /\ n - 1 \in 0 .. n - 1
          BY <3>1
        <5>5. QED BY <4>1, <5>1, <5>2, <5>3, <5>4 DEF Chain
      <4> HIDE DEF b
      <4>3. g[n - 1] \in Places(n - 1)
        BY <4>2
      <4>4. at \in Onward(f, {g[n - 1]})
        <5>1. n - 1 \in 0 .. n - 1
          BY <3>1
        <5>2. QED BY <3>1, <4>1, <5>1 DEF Chain
      <4> HIDE DEF Places
      <4>5. QED BY <4>3, <4>4 DEF Onward
    <3>3. ASSUME NEW at \in Onward(f, Places(n - 1)) PROVE at \in Places(n)
      <4>1. PICK l \in Links : at = FarEnd(l) /\ \E x \in Places(n - 1) : Forwards(f, x, l)
        BY DEF Onward
      <4>2. PICK x \in Places(n - 1) : Forwards(f, x, l)
        BY <4>1
      <4>3. PICK b : Chain(f, n - 1, b) /\ b[n - 1] = x
        BY <4>2
      <4>4. at \in Location /\ at \in Onward(f, {x})
        BY <4>1, <4>2, LinkAssumption DEF Onward, FarEnd, Location
      <4> DEFINE g == [i \in 0 .. n |-> IF i = n THEN at ELSE b[i]]
      <4>5. \A i \in 0 .. n : g[i] = IF i = n THEN at ELSE b[i]
        OBVIOUS
      <4>6. g \in [0 .. n -> Location]
        <5>1. \A i \in 0 .. n : g[i] \in Location
          BY <3>1, <4>3, <4>4 DEF Chain
        <5>2. QED BY <5>1
      <4> HIDE DEF g, Places
      <4>7. g[0] = Attach[SrcHw[f]] /\ g[n] = at
        <5>1. 0 \in 0 .. n /\ n \in 0 .. n
          OBVIOUS
        <5>2. QED BY <2>2, <4>3, <4>5, <5>1 DEF Chain
      <4>8. ASSUME NEW i \in 0 .. n - 1 PROVE g[i + 1] \in Onward(f, {g[i]})
        <5>1. i \in 0 .. n /\ i + 1 \in 0 .. n /\ i # n /\ g[i] = b[i]
          BY <4>5
        <5>2. CASE i = n - 1
          <6>1. g[i + 1] = at /\ g[i] = x
            BY <3>1, <4>3, <4>7, <5>1, <5>2
          <6>2. QED BY <4>4, <6>1
        <5>3. CASE i # n - 1
          <6>1. i \in 0 .. (n - 1) - 1 /\ i + 1 # n
            BY <3>1, <5>3
          <6>2. g[i + 1] = b[i + 1]
            BY <4>5, <5>1, <6>1
          <6>3. QED BY <4>3, <5>1, <6>1, <6>2 DEF Chain
        <5>4. QED BY <5>2, <5>3
      <4>9. Chain(f, n, g)
        BY <4>6, <4>7, <4>8 DEF Chain
      <4>10. QED BY <4>4, <4>7, <4>9 DEF Places
    <3>4. Places(n) = Onward(f, Places(n - 1))
      <4> HIDE DEF Places
      <4>1. QED BY <3>2, <3>3
    <3> HIDE DEF Places
    <3>5. QED BY <2>2, <3>1, <3>4
  <2>3. QED BY <2>1, <2>2
<1>2. W = F(W)
  <2>1. W = [n \in Nat |-> W[n]]
    OBVIOUS
  <2> HIDE DEF W
  <2>2. QED BY <1>1, <2>1, Zenon
<1> HIDE DEF W
<1>3. Reached(f) = UNION { At[n] : n \in 0 .. Cardinality(Switches) }
  BY Zenon DEF Reached, Onward, FarEnd, Forwards
<1> HIDE DEF F
<1>4. At = F(At)
  BY <1>2
<1> HIDE DEF At
<1>5. QED BY <1>3, <1>4 DEF F

-----------------------------------------------------------------------------
(* Rules carry a flow to its destination.                                  *)

\* A switch with nothing to read has the rule it will end with, and loses none.
LEMMA NothingToRead ==
    ASSUME NEW port, NEW f
    PROVE  /\ \A p : Ends(<<>>, port, f, p) => port = p
           /\ ~ Loses(<<>>, port, f)
<1> DEFINE q == <<>>
<1>1. Len(q) = 0
  OBVIOUS
<1> HIDE DEF q
<1>2. 1 .. Len(q) = {} /\ (Len(q) + 1) - 1 = 0
  BY <1>1
<1>3. \A p : Ends(q, port, f, p) => port = p
  <2>1. \A j \in 0 .. 0 : j = 0
    OBVIOUS
  <2>2. QED BY <1>2, <2>1 DEF Ends, RuleAt
<1>4. ~ Loses(q, port, f)
  BY <1>2 DEF Loses
<1>5. QED BY <1>3, <1>4 DEF q

\* A way does not visit more switches than there are.
LEMMA RouteIsShort ==
    ASSUME FiniteNetwork, NEW f, NEW n, NEW path, NEW out, Route(f, n, path, out)
    PROVE  n - 2 \in 0 .. Cardinality(Switches)
<1> DEFINE g == [i \in 2 .. n |-> path[i]]
           S == 2 .. n
<1>1. n \in Nat /\ n >= 2 /\ g \in [S -> Switches] /\ \A i, j \in S : g[i] = g[j] => i = j
  BY DEF Route
<1>2. IsFiniteSet(S) /\ Cardinality(S) = n - 1
  BY <1>1, FS_Interval
<1>3. IsFiniteSet(Switches) /\ Cardinality(Switches) \in Nat
  BY FS_CardinalityType DEF FiniteNetwork
<1> HIDE DEF g, S
<1>4. ~ (Cardinality(Switches) < Cardinality(S))
  BY <1>1, <1>2, <1>3, FS_PigeonHole
<1>5. QED BY <1>1, <1>2, <1>3, <1>4

\* Switches that hold the rules of a way carry a frame to its end.
LEMMA RouteDelivers ==
    ASSUME FiniteNetwork, Cabled, NEW f \in Flows, NEW n, NEW path, NEW out, Route(f, n, path, out),
           \A i \in 2 .. n : table[path[i]][f] = out[i]
    PROVE  Delivers(f)
<1>1. PICK At : /\ At = [k \in Nat |-> IF k = 0 THEN {Attach[SrcHw[f]]} ELSE Onward(f, At[k - 1])]
                /\ Reached(f) = UNION { At[k] : k \in 0 .. Cardinality(Switches) }
  BY ReachedByHops
<1>2. /\ At[0] = {Attach[SrcHw[f]]}
      /\ \A m \in Nat : At[m + 1] = Onward(f, At[m])
  <2>1. \A k \in Nat : At[k] = IF k = 0 THEN {Attach[SrcHw[f]]} ELSE Onward(f, At[k - 1])
    BY <1>1, Zenon
  <2>2. \A m \in Nat : m + 1 \in Nat /\ m + 1 # 0 /\ (m + 1) - 1 = m
    OBVIOUS
  <2>3. QED BY <2>1, <2>2
<1>3. n \in Nat /\ n >= 2 /\ n - 2 \in Nat
  BY DEF Route
<1>4. ASSUME NEW i \in 2 .. n, i < n
      PROVE  \E l \in Links : l.dpid1 = path[i] /\ l.port1 = out[i] /\ l.dpid2 = path[i + 1]
  <2>1. i + 1 \in 2 .. n
    BY <1>3, <1>4
  <2>2. path[i + 1] \notin Hosts
    BY <2>1, HostAssumption DEF Route
  <2>3. QED BY <2>2 DEF Route, LeadsTo
<1> DEFINE Comes(m, at) == at.sw = path[m + 2] /\ (m + 2 < n => at.port # out[m + 2])
           T == { m \in Nat : m <= n - 2 => \E at \in At[m] : Comes(m, at) }
<1>5. 0 \in T
  <2> DEFINE at == Attach[SrcHw[f]]
  <2>1. at.sw = path[2] /\ at = [sw |-> at.sw, port |-> at.port] /\ SrcHw[f] \in Hosts
    BY FlowAssumption, HostAssumption DEF Route
  <2>2. 2 < n => at.port # out[2]
    <3>1. ASSUME 2 < n PROVE at.port # out[2]
      <4>1. PICK l \in Links : l.dpid1 = path[2] /\ l.port1 = out[2]
        BY <1>3, <1>4, <3>1
      <4>2. at # [sw |-> l.dpid1, port |-> l.port1]
        BY <2>1 DEF Cabled
      <4>3. QED BY <2>1, <4>1, <4>2
    <3>2. QED BY <3>1
  <2>3. 0 + 2 = 2
    OBVIOUS
  <2>4. QED BY <1>2, <2>1, <2>2, <2>3
<1>6. ASSUME NEW m \in T PROVE m + 1 \in T
  <2>1. SUFFICES ASSUME m + 1 <= n - 2 PROVE \E at \in At[m + 1] : Comes(m + 1, at)
    OBVIOUS
  <2>2. m \in Nat /\ m <= n - 2
    BY <1>3, <2>1
  <2>3. PICK at \in At[m] : Comes(m, at)
    BY <2>2
  <2> DEFINE i == m + 2
  <2>4. i \in 2 .. n /\ i < n /\ i + 1 \in 2 .. n /\ (m + 1) + 2 = i + 1 /\ i # i + 2
    BY <1>3, <2>1, <2>2
  <2>5. PICK l \in Links : l.dpid1 = path[i] /\ l.port1 = out[i] /\ l.dpid2 = path[i + 1]
    BY <1>4, <2>4
  <2>6. Forwards(f, at, l)
    BY <2>3, <2>4, <2>5 DEF Forwards
  <2>7. FarEnd(l) \in At[m + 1]
    BY <1>2, <2>2, <2>3, <2>6 DEF Onward
  <2>8. ASSUME i + 1 < n PROVE FarEnd(l).port # out[i + 1]
    <3>1. PICK k \in Links : k.dpid1 = path[i + 1] /\ k.port1 = out[i + 1] /\ k.dpid2 = path[(i + 1) + 1]
      BY <1>4, <2>4, <2>8
    <3>2. i \in 2 .. n /\ (i + 1) + 1 \in 2 .. n /\ i # (i + 1) + 1
      BY <1>3, <2>4, <2>8
    <3>3. l.dpid1 # k.dpid2
      BY <2>5, <3>1, <3>2 DEF Route
    <3>4. QED BY <2>5, <3>1, <3>3 DEF Cabled, FarEnd
  <2>9. FarEnd(l).sw = path[i + 1]
    BY <2>5 DEF FarEnd
  <2>10. Comes(m + 1, FarEnd(l))
    BY <2>4, <2>8, <2>9
  <2>11. QED BY <2>7, <2>10
<1>7. n - 2 \in T
  <2> HIDE DEF T
  <2>1. T = Nat
    BY <1>5, <1>6, Induct DEF T
  <2>2. QED BY <1>3, <2>1
<1>8. PICK at \in At[n - 2] : at.sw = path[n]
  <2>1. (n - 2) + 2 = n /\ n - 2 <= n - 2
    BY <1>3
  <2>2. QED BY <1>7, <2>1
<1>9. at \in Reached(f)
  BY <1>1, <1>8, RouteIsShort
<1>10. Attach[DstHw[f]] = [sw |-> at.sw, port |-> table[at.sw][f]]
  <2>1. n \in 2 .. n /\ DstHw[f] \in Hosts
    BY <1>3, FlowAssumption
  <2>2. LeadsTo(path[n], out[n], DstHw[f]) /\ table[path[n]][f] = out[n]
    BY <2>1 DEF Route
  <2>3. QED BY <1>8, <2>1, <2>2 DEF LeadsTo
<1>11. QED BY <1>9, <1>10 DEF Delivers

LEMMA CarriedDelivers ==
    ASSUME FiniteNetwork, Cabled, DeliveryInv, Quiet
    PROVE  \A f \in Flows : Installed(f) => Delivers(f)
<1> SUFFICES ASSUME NEW f \in Flows, Installed(f) PROVE Delivers(f)
  OBVIOUS
<1>1. \A c \in Conns : ~ Doom(c, f)
  BY NothingToRead, HasNone DEF Quiet, Doom
<1>2. Carried(f)
  BY <1>1 DEF DeliveryInv, Doomed
<1>3. PICK n, path, out :
        /\ Route(f, n, path, out)
        /\ \A i \in 2 .. n : \E c \in Conns : Online(c) /\ Dpid[c] = path[i] /\ Held(c, f, out[i])
  BY <1>2 DEF Carried
<1>4. ASSUME NEW i \in 2 .. n PROVE table[path[i]][f] = out[i]
  <2>1. PICK c \in Conns : Dpid[c] = path[i] /\ Held(c, f, out[i])
    BY <1>3
  <2>2. toSwitch[c] = <<>>
    BY DEF Quiet
  <2>3. Ends(<<>>, table[path[i]][f], f, out[i])
    BY <2>1, <2>2 DEF Held
  <2>4. QED BY <2>3, NothingToRead
<1>5. QED BY <1>3, <1>4, RouteDelivers

-----------------------------------------------------------------------------
(* Where no link is lost, no rule is taken away.                           *)

\* Sessions and links last, and hosts send once every switch is connected.
Lasting == Steady /\ FlakyLinks = {}

\* A port has one cable out.
Plugged == \A k, l \in Links : (k.dpid1 = l.dpid1 /\ k.port1 = l.port1) => k = l

\* The handshake of a session is over, whether the controller knows it or not.
HandshakeOver(c) ==
    \/ conState[c] = "connected"
    \/ \E m : Has(fromSwitch[c], m) /\ m.type = "barrier"

\* No link is given up, no rule deleted but by a handshake, none reported gone.
NothingTaken ==
    /\ todo.removed = {} /\ todo.popped = {}
    /\ \A c \in Conns : \A m : Has(toSwitch[c], m) => m.type \notin {"del_port", "del_flow"}
    /\ \A c \in Conns : \A m : Has(fromSwitch[c], m) => m.type # "flow_removed"
    /\ \A c \in Conns : HandshakeOver(c) =>
         /\ conState[c] # "new"
         /\ \A m : Has(toSwitch[c], m) => m.type \in {"add", "packet_out"}

\* What is known of the rest of the system.
Firm ==
    /\ TypeOK /\ HandshakeInv /\ HostViewsAgree /\ UpRegistered
    /\ NothingEnds /\ NoneClosed /\ FreshTables
    /\ TrafficUp /\ PortsLead /\ EdgePorts

LEMMA HoldsOnline ==
    ASSUME Firm, NEW c \in Conns, NEW m, Has(toSwitch[c], m)
    PROVE  Online(c) /\ Dpid[c] \in Switches
<1> USE DEF Firm
<1>1. toSwitch[c] # <<>>
  BY HasNone
<1>2. c \notin unused
  BY <1>1 DEF HandshakeInv, SessionsOwned, HandshakeAlone
<1>3. QED BY <1>2, SwitchAssumption DEF TrafficUp, SessionsLast

\* A switch that reads the DELETE of a handshake has no rules.
LEMMA ClearedEmpty ==
    ASSUME Firm, NothingTaken, NEW c \in Conns, Receives(c, "clear"), NEW f \in Flows
    PROVE  table[Dpid[c]][f] = NoPort
<1> USE DEF Firm
<1>1. Has(toSwitch[c], Head(toSwitch[c])) /\ Head(toSwitch[c]).type = "clear"
  BY HeadHeld
<1>2. conState[c] # "connected"
  BY <1>1 DEF NothingTaken, HandshakeOver
<1>3. Online(c) /\ Dpid[c] \in Switches
  BY <1>1, HoldsOnline
<1>4. QED BY <1>2, <1>3 DEF FreshTables, Online, NoRules

LEMMA TakesNone ==
    ASSUME Firm, NothingTaken, NEW c \in Conns
    PROVE  ~ TakesRules(c)
<1> SUFFICES ASSUME TakesRules(c) PROVE FALSE
  OBVIOUS
<1> USE DEF Firm
<1>1. PICK t \in {"clear", "del_port", "del_flow"} : Receives(c, t)
  BY DEF TakesRules
<1>2. Has(toSwitch[c], Head(toSwitch[c])) /\ Head(toSwitch[c]).type = t
  BY <1>1, HeadHeld
<1>3. t = "clear"
  BY <1>2 DEF NothingTaken
<1>4. QED BY <1>1, <1>3, ClearedEmpty DEF TakesRules

\* The handshake's barrier is the last message of the handshake.
LEMMA BarrierLast ==
    ASSUME Firm, NothingTaken, NEW c \in Conns, SwitchAnswersBarrier(c)
    PROVE  conState[c] = "connecting" /\ toSwitch'[c] = <<>>
<1> USE DEF Firm
<1>1. Receives(c, "barrier")
  BY DEF SwitchAnswersBarrier
<1>2. Has(toSwitch[c], Head(toSwitch[c])) /\ Head(toSwitch[c]).type = "barrier" /\ toSwitch[c] # <<>>
  BY <1>1, HeadHeld DEF Receives
<1>3. conState[c] = "connecting"
  BY <1>2 DEF NothingTaken, HandshakeOver, HandshakeInv, HandshakeAlone, NoneClosed, TypeOK, ConnTypeOK
<1>4. toSwitch[c] \in {<<BarrierRequest>>, <<ClearRules, BarrierRequest>>}
  BY <1>2, <1>3 DEF HandshakeInv, HandshakeAlone
<1>5. toSwitch[c] = <<BarrierRequest>>
  <2>1. Head(<<ClearRules, BarrierRequest>>) = ClearRules /\ ClearRules.type # "barrier"
    BY DEF ClearRules
  <2>2. QED BY <1>2, <1>4, <2>1
<1>6. Tail(<<BarrierRequest>>) = <<>>
  OBVIOUS
<1>7. toSwitch' = [toSwitch EXCEPT ![c] = Tail(toSwitch[c])] /\ toSwitch \in [Conns -> Seq(Messages)]
  BY <1>1 DEF Receives, TypeOK, ConnTypeOK
<1>8. QED BY <1>3, <1>5, <1>6, <1>7

LEMMA StatesAdvance ==
    ASSUME TypeOK, [Next]_vars, NEW c \in Conns
    PROVE  /\ conState'[c] = "new" => conState[c] = "new"
           /\ conState'[c] = "connected" => conState[c] = "connected" \/ ReadBarrier(c)
<1> USE DEF TypeOK, ConnTypeOK
<1>1. ASSUME NEW d \in Conns, ReadFeatures(d) \/ ReadEof(d)
      PROVE  (conState'[c] = "new" => conState[c] = "new") /\ (conState'[c] = "connected" => conState[c] = "connected")
  BY <1>1 DEF ReadFeatures, FeaturesReply, ReadEof, Disconnect
<1>2. ASSUME NEW d \in Conns, ReadBarrier(d)
      PROVE  /\ conState'[c] = "new" => conState[c] = "new"
             /\ conState'[c] = "connected" => conState[c] = "connected" \/ ReadBarrier(c)
  <2>1. conState' = [conState EXCEPT ![d] = "connected"]
    BY <1>2 DEF ReadBarrier, FinishConnecting
  <2>2. QED BY <1>2, <2>1
<1>3. CASE \A d \in Conns : ~ ReadFeatures(d) /\ ~ ReadEof(d) /\ ~ ReadBarrier(d)
  BY <1>3, SessionsUntouched
<1>4. QED BY <1>1, <1>2, <1>3

\* The lists of links to give up are filled when a session ends, or LLDP is
\* missed.
LEMMA TodoStays ==
    ASSUME Firm, Lasting, NothingTaken, [Next]_vars
    PROVE  todo'.removed = {} /\ todo'.popped = {}
<1> USE DEF NothingTaken, Firm
<1>1. ASSUME NEW c \in Conns, Read(c) PROVE todo'.removed = {} /\ todo'.popped = {}
  <2>1. ~ ReadEof(c)
    BY ReadingHarmless DEF ReadEof, Reading, Harmless
  <2>2. QED BY <1>1, <2>1, CallAlone
          DEF Read, ReadFeatures, ReadBarrier, ReadFlowRemoved, LldpIgnored, LinkDetected,
              ReadPacketIn, HostJoins, HostMoves
<1>2. CASE Dispatch
  <2>1. ~ RaiseLinkRemoved /\ ~ PopLinks
    BY DEF RaiseLinkRemoved, PopLinks
  <2>2. Nothing.removed = {} /\ Nothing.popped = {}
    BY DEF Nothing
  <2>3. \A x : [todo EXCEPT !.down = x].removed = {} /\ [todo EXCEPT !.down = x].popped = {}
    BY DEF TypeOK, PltTypeOK, Calls
  <2>4. QED BY <1>2, <2>1, <2>2, <2>3 DEF Dispatch, DispatchConnectionDown, DispatchPacketIn
<1>3. CASE Timer
  <2>1. ~ ExpireLinks
    BY DEF ExpireLinks, Lasting
  <2>2. QED BY <1>3, <2>1 DEF Timer, Timeout, HostExpires
<1>4. CASE Switch \/ Environment \/ UNCHANGED vars
  BY <1>4, OutsideCalls
<1>5. QED BY <1>1, <1>2, <1>3, <1>4 DEF Next, Thread

LEMMA StepTakesNothing ==
    ASSUME Firm, Lasting, NothingTaken, [Next]_vars
    PROVE  NothingTaken'
<1> USE DEF Firm
<1>1. todo'.removed = {} /\ todo'.popped = {}
  BY TodoStays
<1>2. ASSUME NEW c \in Conns, NEW m, Has(toSwitch'[c], m), m.type \notin {"add", "packet_out"}
      PROVE  Has(toSwitch[c], m) \/ (ReadFeatures(c) /\ m.type \in {"clear", "barrier"})
  <2>1. ASSUME NEW d \in Conns PROVE ~ ReadFlowRemoved(d)
    <3>1. SUFFICES ASSUME Reading(d, "flow_removed") PROVE FALSE
      BY DEF ReadFlowRemoved
    <3>2. QED BY <3>1, HeadReported DEF NothingTaken
  <2>2. ~ RaiseLinkRemoved
    BY DEF RaiseLinkRemoved, NothingTaken
  <2>3. ~ WrittenForPacketIn(c, m)
    <3>1. \A fr : m # PacketOut(fr)
      BY <1>2 DEF PacketOut
    <3>2. QED BY <1>2, <3>1 DEF WrittenForPacketIn
  <2>4. QED BY <1>2, <2>1, <2>2, <2>3, WriteSource DEF WrittenElse
<1>3. \A c \in Conns : \A m : Has(toSwitch'[c], m) => m.type \notin {"del_port", "del_flow"}
  BY <1>2 DEF NothingTaken
<1>4. \A c \in Conns : \A m : Has(fromSwitch'[c], m) => m.type # "flow_removed"
  BY ReportSource, TakesNone DEF Reported, NothingTaken
<1>5. ASSUME NEW c \in Conns, HandshakeOver(c)'
      PROVE  /\ conState'[c] # "new"
             /\ \A m : Has(toSwitch'[c], m) => m.type \in {"add", "packet_out"}
  <2>1. HandshakeOver(c) \/ SwitchAnswersBarrier(c)
    <3>1. ASSUME NEW m, Has(fromSwitch'[c], m), m.type = "barrier"
          PROVE  HandshakeOver(c) \/ SwitchAnswersBarrier(c)
      BY <3>1, ReportSource DEF HandshakeOver, Reported
    <3>2. ASSUME conState'[c] = "connected" PROVE HandshakeOver(c)
      <4>1. CASE ReadBarrier(c)
        BY <4>1, HeadReported DEF ReadBarrier, HandshakeOver
      <4>2. QED BY <3>2, <4>1, StatesAdvance DEF HandshakeOver
    <3>3. conState'[c] = "connected" \/ \E m : Has(fromSwitch'[c], m) /\ m.type = "barrier"
      BY <1>5 DEF HandshakeOver, Has
    <3>4. QED BY <3>1, <3>2, <3>3
  <2>2. CASE SwitchAnswersBarrier(c)
    BY <2>2, BarrierLast, StatesAdvance, HasNone
  <2>3. CASE HandshakeOver(c)
    <3>1. conState[c] # "new" /\ \A m : Has(toSwitch[c], m) => m.type \in {"add", "packet_out"}
      BY <2>3 DEF NothingTaken
    <3>2. ~ ReadFeatures(c)
      BY <3>1 DEF ReadFeatures, FeaturesReply
    <3>3. QED BY <1>2, <3>1, <3>2, StatesAdvance
  <2>4. QED BY <2>1, <2>2, <2>3
<1>6. QED BY <1>1, <1>3, <1>4, <1>5 DEF NothingTaken, HandshakeOver, Has

-----------------------------------------------------------------------------
(* Where queues and tables only grow.                                      *)

\* Discovery gives up no link.
LEMMA LinksStay ==
    ASSUME NothingTaken, [Next]_vars
    PROVE  adjacency \subseteq adjacency'
<1>1. ~ PopLinks
  BY DEF PopLinks, NothingTaken
<1>2. CASE Thread
  BY <1>1, <1>2
     DEF Thread, Dispatch, RaiseLinkRemoved, DispatchConnectionDown, DispatchPacketIn, Read,
         ReadFeatures, ReadBarrier, ReadFlowRemoved, ReadEof, LldpIgnored, LinkDetected,
         ReadPacketIn, HostJoins, HostMoves
<1>3. CASE Timer
  BY <1>3 DEF Timer, Timeout, ExpireLinks, HostExpires
<1>4. CASE Switch \/ Environment \/ UNCHANGED vars
  BY <1>4, OutsideThread
<1>5. QED BY <1>2, <1>3, <1>4 DEF Next

\* The step writes to c for a PacketIn: the packet itself, or the rules of the
\* path, and to one switch the packet after them.
PacketBack(c, fr) ==
    /\ <<c, fr>> \in todo.packet /\ ForwardInstalled(c, fr)
    /\ toSwitch'[c] = toSwitch[c] \o <<PacketOut(fr)>>

PathSent(c, d, fr, out) ==
    /\ <<d, fr>> \in todo.packet /\ InstallPath(d, fr) /\ Sends(d, fr, out)
    /\ toSwitch'[c] = toSwitch[c] \o out[c]

LEMMA Writes ==
    ASSUME Firm, Steady, [Next]_vars, NEW c \in Conns, Online(c), ~ SwitchReceives(c)
    PROVE  /\ table'[Dpid[c]] = table[Dpid[c]]
           /\ \/ Spared(c, Keeping)
              \/ \E fr \in Frames : PacketBack(c, fr)
              \/ \E d \in Conns, fr \in Frames : \E out : PathSent(c, d, fr, out)
<1> USE DEF Firm
<1>1. table'[Dpid[c]] = table[Dpid[c]] /\ (Spared(c, Keeping) \/ PacketInHandled)
  BY OthersSpare
<1>2. ASSUME NEW d \in Conns, NEW fr \in Frames, <<d, fr>> \in todo.packet, HandlePacketIn(d, fr)
      PROVE  \/ Spared(c, Keeping)
             \/ \E g \in Frames : PacketBack(c, g)
             \/ \E out : PathSent(c, d, fr, out)
  <2>1. CASE IgnorePacket(fr) \/ NoPathFound(fr)
    BY <2>1, SilentSpared DEF IgnorePacket, NoPathFound
  <2>2. CASE ForwardInstalled(d, fr)
    <3>1. Send(OnlyTo(d, PacketOut(fr)))
      BY <2>2 DEF ForwardInstalled
    <3>2. CASE c = d
      <4>1. OnlyTo(d, PacketOut(fr))[c] = <<PacketOut(fr)>>
        BY <3>2 DEF OnlyTo, Silence
      <4>2. toSwitch'[c] = toSwitch[c] \o <<PacketOut(fr)>>
        BY <3>1, <4>1 DEF Send, NoneClosed
      <4>3. QED BY <1>2, <2>2, <3>2, <4>2 DEF PacketBack
    <3>3. CASE c # d
      <4>1. PacketOut(fr) \in Messages
        BY MessagesTyped
      <4>2. QED BY <3>1, <3>3, <4>1, OnlyToSpares, SilentSpared
    <3>4. QED BY <3>2, <3>3
  <2>3. CASE InstallPath(d, fr)
    <3>1. PICK out : Sends(d, fr, out)
      BY <2>3, InstallSends
    <3>2. toSwitch'[c] = toSwitch[c] \o out[c]
      BY <3>1 DEF Sends, Send, NoneClosed
    <3>3. QED BY <1>2, <2>3, <3>1, <3>2 DEF PathSent
  <2>4. QED BY <1>2, <2>1, <2>2, <2>3 DEF HandlePacketIn
<1>3. QED BY <1>1, <1>2 DEF PacketInHandled

LEMMA QueueGrows ==
    ASSUME Firm, Steady, [Next]_vars, NEW c \in Conns, Online(c), ~ SwitchReceives(c)
    PROVE  \E r \in Seq(Messages) : toSwitch'[c] = toSwitch[c] \o r
<1>1. CASE Spared(c, Keeping)
  BY <1>1 DEF Spared
<1>2. ASSUME NEW fr \in Frames, PacketBack(c, fr)
      PROVE  \E r \in Seq(Messages) : toSwitch'[c] = toSwitch[c] \o r
  <2>1. PacketOut(fr) \in Messages
    BY MessagesTyped
  <2>2. <<PacketOut(fr)>> \in Seq(Messages)
    BY <2>1
  <2>3. QED BY <1>2, <2>2 DEF PacketBack
<1>3. ASSUME NEW d \in Conns, NEW fr \in Frames, NEW out, PathSent(c, d, fr, out)
      PROVE  \E r \in Seq(Messages) : toSwitch'[c] = toSwitch[c] \o r
  BY <1>3 DEF PathSent, Sends
<1>4. QED BY <1>1, <1>2, <1>3, Writes

\* What a switch is written it reads.
LEMMA HeldStays ==
    ASSUME Firm, Steady, [Next]_vars, NEW c \in Conns, NEW m, Has(toSwitch[c], m)
    PROVE  Has(toSwitch'[c], m) \/ (SwitchReceives(c) /\ m = Head(toSwitch[c]))
<1> USE DEF Firm
<1>1. toSwitch[c] \in Seq(Messages) /\ Online(c) /\ toSwitch[c] # <<>>
  BY HoldsOnline, HasNone DEF TypeOK, ConnTypeOK
<1>2. CASE SwitchReceives(c)
  <2>1. toSwitch'[c] = Tail(toSwitch[c])
    BY <1>2 DEF SwitchReceives, SwitchClears, SwitchAnswersBarrier, SwitchAddsRule,
                SwitchResubmits, SwitchDeletesByPort, SwitchDeletesByFlow, Receives, TypeOK, ConnTypeOK
  <2>2. QED BY <1>1, <1>2, <2>1, HasRest
<1>3. CASE ~ SwitchReceives(c)
  <2>1. PICK r \in Seq(Messages) : toSwitch'[c] = toSwitch[c] \o r
    BY <1>1, <1>3, QueueGrows
  <2>2. QED BY <1>1, <2>1, HasBoth
<1>4. QED BY <1>2, <1>3

LEMMA AddIs ==
    ASSUME NEW m \in Messages, NEW f, Adds(m, f)
    PROVE  m = AddRule(f, m.port) /\ m.port \in Ports /\ m.port # NoPort
BY PortsExist DEF Messages, Adds, AddRule

\* A switch with rules has a session whose handshake is over.
LEMMA RuledOnline ==
    ASSUME Firm, NEW s \in Switches, NEW f \in Flows, table[s][f] # NoPort
    PROVE  \E c \in Conns : Online(c) /\ Dpid[c] = s /\ conState[c] = "connected"
<1> USE DEF Firm
<1>1. session[s] # NoCon /\ conState[session[s]] = "connected"
  BY DEF FreshTables, NoRules
<1>2. session[s] \in Conns /\ Dpid[session[s]] = s
  BY <1>1 DEF HandshakeInv, SessionsOwned, TypeOK, DepTypeOK
<1>3. QED BY <1>1, <1>2 DEF Online

\* Its rules change but are not taken away.
LEMMA RuleStays ==
    ASSUME Firm, Lasting, NothingTaken, [Next]_vars, NEW s \in Switches, NEW f \in Flows,
           table[s][f] # NoPort
    PROVE  table'[s][f] # NoPort
<1> USE DEF Firm
<1>1. PICK c \in Conns : Online(c) /\ Dpid[c] = s /\ conState[c] = "connected"
  BY RuledOnline
<1>2. CASE ~ SwitchReceives(c)
  BY <1>1, <1>2, Writes DEF Lasting
<1>3. CASE SwitchReceives(c)
  <2> DEFINE m == Head(toSwitch[c])
  <2>1. \E t : Receives(c, t)
    BY <1>3 DEF SwitchReceives, SwitchClears, SwitchAnswersBarrier, SwitchAddsRule,
                SwitchResubmits, SwitchDeletesByPort, SwitchDeletesByFlow
  <2>2. m \in Messages /\ Has(toSwitch[c], m)
    BY <2>1, HeadHeld, ReceivesTyped
  <2>3. m.type \in {"add", "packet_out"}
    BY <1>1, <2>2 DEF NothingTaken, HandshakeOver
  <2>4. ~ Removes(m, f, table[s][f])
    BY <2>3 DEF Removes, Drops
  <2>5. /\ \A x : m = AddRule(f, x) => table'[s][f] = x
        /\ ~ Removes(m, f, table[s][f]) /\ ~ Adds(m, f) => table'[s][f] = table[s][f]
    BY <1>1, <1>3, ReceivesPort
  <2> HIDE DEF m
  <2>6. CASE Adds(m, f)
    BY <2>2, <2>5, <2>6, AddIs
  <2>7. QED BY <2>4, <2>5, <2>6
<1>4. QED BY <1>2, <1>3

\* A rule was there, or its switch was told to add it.
LEMMA PortSource ==
    ASSUME TypeOK, Steady, [Next]_vars, NEW s \in Switches, NEW f \in Flows,
           table'[s][f] # NoPort
    PROVE  \/ table'[s][f] = table[s][f]
           \/ \E c \in Conns : /\ Dpid[c] = s /\ SwitchReceives(c)
                               /\ Has(toSwitch[c], AddRule(f, table'[s][f]))
<1>0. table \in [Switches -> [Flows -> Ports \cup {NoPort}]]
  BY DEF TypeOK, DepTypeOK
<1>1. ASSUME NEW c \in Conns, SwitchReceives(c)
      PROVE  \/ table'[s][f] = table[s][f]
             \/ Dpid[c] = s /\ Has(toSwitch[c], AddRule(f, table'[s][f]))
  <2> DEFINE m == Head(toSwitch[c])
  <2>1. Dpid[c] \in Switches
    BY SwitchAssumption
  <2>2. CASE s = Dpid[c]
    <3>1. \E t : Receives(c, t)
      BY <1>1 DEF SwitchReceives, SwitchClears, SwitchAnswersBarrier, SwitchAddsRule,
                  SwitchResubmits, SwitchDeletesByPort, SwitchDeletesByFlow
    <3>2. m \in Messages /\ Has(toSwitch[c], m)
      BY <3>1, HeadHeld, ReceivesTyped
    <3>3. Adds(m, f) \/ table'[s][f] = table[s][f]
      BY <1>1, <2>2, ReceivesRule
    <3>4. \A x : m = AddRule(f, x) => table'[s][f] = x
      BY <1>1, <2>2, ReceivesPort
    <3> HIDE DEF m
    <3>5. QED BY <2>2, <3>2, <3>3, <3>4, AddIs
  <2>3. CASE s # Dpid[c]
    <3>1. table'[s] = table[s]
      BY <1>0, <1>1, <2>1, <2>3
         DEF SwitchReceives, SwitchClears, SwitchAnswersBarrier, SwitchAddsRule,
             SwitchResubmits, SwitchDeletesByPort, SwitchDeletesByFlow, DeleteRules
    <3>2. QED BY <3>1
  <2>4. QED BY <2>2, <2>3
<1>2. ASSUME \/ Thread \/ Timer \/ UNCHANGED vars \/ \E c \in Conns : WrittenInVain(c)
             \/ \E fr \in frames : SwitchForwards(fr) \/ SwitchMisses(fr)
             \/ \E c \in Conns : SwitchConnects(c)
             \/ \E r \in Switches : SwitchDisconnects(r)
             \/ \E l \in Links : LldpArrives(l)
             \/ \E h \in Hosts, pkt \in Payloads : HostSends(h, pkt)
      PROVE  table' = table
  BY <1>2 DEF Thread, Timer, WrittenInVain, SwitchForwards, SwitchMisses, SwitchConnects,
              SwitchDisconnects, Steady, LldpArrives, HostSends, depVars, vars
<1>3. QED BY <1>1, <1>2 DEF Next, Switch, Environment

-----------------------------------------------------------------------------
(* The rule a switch has, or is told to add.                               *)

Coming(s, f) ==
    \/ table[s][f] # NoPort
    \/ \E c \in Conns : Dpid[c] = s /\ \E m : Has(toSwitch[c], m) /\ Adds(m, f)

Rule(s, f, p) ==
    \/ table[s][f] = p
    \/ \E c \in Conns : Dpid[c] = s /\ Has(toSwitch[c], AddRule(f, p))

LEMMA RuleComes ==
    ASSUME NEW s \in Switches, NEW f, NEW p, p # NoPort, Rule(s, f, p)
    PROVE  Coming(s, f)
<1>1. Adds(AddRule(f, p), f)
  BY DEF Adds, AddRule
<1>2. QED BY <1>1 DEF Rule, Coming

LEMMA ComingStays ==
    ASSUME Firm, Lasting, NothingTaken, [Next]_vars, NEW s \in Switches, NEW f \in Flows,
           Coming(s, f)
    PROVE  Coming(s, f)'
<1> USE DEF Firm
<1>1. CASE table[s][f] # NoPort
  BY <1>1, RuleStays DEF Coming
<1>2. ASSUME NEW c \in Conns, Dpid[c] = s, NEW m, Has(toSwitch[c], m), Adds(m, f)
      PROVE  Coming(s, f)'
  <2>1. CASE Has(toSwitch'[c], m)
    BY <1>2, <2>1 DEF Coming, Adds
  <2>2. CASE SwitchReceives(c) /\ m = Head(toSwitch[c])
    <3>1. m \in Messages
      <4>1. toSwitch[c] \in Seq(Messages)
        BY DEF TypeOK, ConnTypeOK
      <4>2. QED BY <1>2, <4>1 DEF Has
    <3>2. m = AddRule(f, m.port) /\ m.port # NoPort
      BY <1>2, <3>1, AddIs
    <3>3. \A x : m = AddRule(f, x) => table'[s][f] = x
      BY <1>2, <2>2, ReceivesPort
    <3>4. table'[s][f] # NoPort
      BY <3>2, <3>3
    <3>5. QED BY <3>4 DEF Coming
  <2>3. QED BY <1>2, <2>1, <2>2, HeldStays DEF Lasting
<1>3. QED BY <1>1, <1>2 DEF Coming

-----------------------------------------------------------------------------
(* What discovery has found, and the rules that use it.                    *)

Found(s, p) == \E l \in adjacency : l.dpid2 = s /\ l.port2 = p

\* The port held for a neighbour is that of a link discovery knows.
PortsFound ==
    \A c \in Conns, t \in Switches : neighbour[c][t] # NoPort =>
      \E l \in adjacency : l.dpid1 = Dpid[c] /\ l.port1 = neighbour[c][t] /\ l.dpid2 = t

\* The switch of its source has a rule for an installed flow ...
FlowsStart ==
    \A f \in Flows : Installed(f) => Coming(Attach[SrcHw[f]].sw, f)

\* ... and a rule out of a link is followed by one at its other end.
RulesLead ==
    \A f \in Flows, l \in Links :
      Rule(l.dpid1, f, l.port1) => l \in adjacency /\ Coming(l.dpid2, f)

LEMMA StepKeepsFound ==
    ASSUME Firm, Lasting, NothingTaken, PortsFound, [Next]_vars
    PROVE  PortsFound'
<1> USE DEF Firm, TypeOK, CtlTypeOK
<1>0. adjacency \subseteq adjacency'
  BY LinksStay
<1>1. ASSUME NEW c \in Conns, ReadBarrier(c) PROVE PortsFound'
  <2>1. \/ neighbour' = neighbour
        \/ neighbour' = [neighbour EXCEPT ![c] = NoNeighbours]
    BY <1>1 DEF ReadBarrier, HandleConnectionUp
  <2>2. QED BY <1>0, <2>1 DEF PortsFound, NoNeighbours
<1>2. ASSUME NEW c \in Conns, LinkDetected(c) PROVE PortsFound'
  <2>1. PICK l \in Links : HandleLinkAdded(l) /\ l = Head(fromSwitch[c]).link
    BY <1>2, DetectedEdge
  <2>2. l \in adjacency' /\ l.dpid1 \in Switches /\ l.dpid2 \in Switches
    BY <1>2, <2>1, LinkEnds DEF LinkDetected
  <2> DEFINE d == switches[l.dpid1]
  <2>3. \/ neighbour' = neighbour
        \/ d # NoCon /\ neighbour' = [neighbour EXCEPT ![d][l.dpid2] = l.port1]
    BY <2>1 DEF HandleLinkAdded
  <2>4. CASE neighbour' = neighbour
    BY <1>0, <2>4 DEF PortsFound
  <2>5. CASE d # NoCon /\ neighbour' = [neighbour EXCEPT ![d][l.dpid2] = l.port1]
    <3>1. d \in Conns /\ Dpid[d] = l.dpid1
      BY <2>2, <2>5 DEF UpRegistered
    <3> HIDE DEF d
    <3>2. \A e \in Conns, t \in Switches :
            neighbour'[e][t] = IF e = d /\ t = l.dpid2 THEN l.port1 ELSE neighbour[e][t]
      BY <2>2, <2>5, <3>1
    <3>3. QED BY <1>0, <2>2, <3>1, <3>2 DEF PortsFound
  <2>6. QED BY <2>3, <2>4, <2>5
<1>3. CASE \A c \in Conns : ~ ReadBarrier(c) /\ ~ LinkDetected(c)
  <2>1. ~ RaiseLinkRemoved
    BY DEF RaiseLinkRemoved, NothingTaken
  <2>2. neighbour' = neighbour
    BY <1>3, <2>1, NeighboursUntouched
  <2>3. QED BY <1>0, <2>2 DEF PortsFound
<1>4. QED BY <1>1, <1>2, <1>3

\* The state in which paths are installed.
LEMMA KnownPaths ==
    ASSUME Firm, HostsHome, todo.packet # {}
    PROVE  PathsKnown /\ AllUp
BY DEF Firm, PathsKnown, AllUp, TrafficUp, Traffic, EveryUp

\* Every switch of an installed path is told a rule, the source's among them.
LEMMA InstallComes ==
    ASSUME Firm, HostsHome, FiniteNetwork, TwoEnds,
           NEW c \in Conns, NEW fr \in Frames, <<c, fr>> \in todo.packet, InstallPath(c, fr)
    PROVE  \E n \in Nat : \E path :
             /\ path = ChosenPath(fr.pkt)
             /\ IsPath(path, edges, SrcHw[fr.pkt], n)
             /\ path[n + 1] = DstHw[fr.pkt] /\ DstHw[fr.pkt] \in nodes
             /\ n >= 2 /\ path[2] = Attach[SrcHw[fr.pkt]].sw
             /\ \A i \in 2 .. n :
                  /\ Coming(path[i], fr.pkt)'
                  /\ \E d \in Conns, p \in Ports : HopSent(fr.pkt, path, i, d, p)
<1> DEFINE f == fr.pkt
<1>0. PathsKnown /\ AllUp /\ f \in Flows
  BY KnownPaths DEF InstallPath
<1>1. PICK n \in Nat, path \in ShortestPaths(nodes, edges, SrcHw[f], DstHw[f]) :
        /\ path = ChosenPath(f)
        /\ IsPath(path, edges, SrcHw[f], n) /\ path[n + 1] = DstHw[f]
        /\ \A i \in 2 .. n : \E d \in Conns, p \in Ports : HopSent(f, path, i, d, p)
  BY <1>0, InstallHops
<1>2. DstHw[f] \in nodes
  BY <1>1 DEF ShortestPaths
<1>3. n >= 2 /\ path[2] = Attach[SrcHw[f]].sw
  BY <1>0, <1>1, PathStarts
<1>4. ASSUME NEW i \in 2 .. n PROVE Coming(path[i], f)'
  <2>1. PICK d \in Conns, p \in Ports : HopSent(f, path, i, d, p)
    BY <1>1
  <2> DEFINE a == AddRule(f, p)
  <2>2. PICK g \in Frames : \E r : /\ toSwitch'[d] = toSwitch[d] \o r
                                   /\ r = <<a>> \/ r = <<a>> \o <<PacketOut(g)>>
    BY <2>1 DEF HopSent
  <2>3. PICK r : toSwitch'[d] = toSwitch[d] \o r /\ (r = <<a>> \/ r = <<a>> \o <<PacketOut(g)>>)
    BY <2>2
  <2>4. a \in Messages /\ PacketOut(g) \in Messages /\ toSwitch[d] \in Seq(Messages)
    BY <2>1, MessagesTyped DEF HopSent, Firm, TypeOK, ConnTypeOK
  <2>5. Adds(a, f)
    BY DEF Adds, AddRule
  <2> DEFINE b == PacketOut(g)
             q == toSwitch[d]
  <2>6. a \in Messages /\ b \in Messages /\ q \in Seq(Messages) /\ (r = <<a>> \/ r = <<a>> \o <<b>>)
    BY <2>3, <2>4
  <2>7. toSwitch'[d] = q \o r
    BY <2>3
  <2>8. Dpid[d] = path[i]
    BY <2>1 DEF HopSent
  <2> HIDE DEF a, b, q
  <2>9. Len(q) + 1 \in Len(q) + 1 .. Len(q \o r) /\ (q \o r)[Len(q) + 1] = a /\ Len(q) \in Nat
    BY <2>6, AddedFirst
  <2>10. Has(toSwitch'[d], a)
    BY <2>7, <2>9 DEF Has
  <2> HIDE DEF f
  <2>11. QED BY <2>5, <2>8, <2>10 DEF Coming, Adds
<1>5. QED BY <1>1, <1>2, <1>3, <1>4

\* A rule that is sent is that of a hop.
LEMMA SentByHop ==
    ASSUME PathsKnown, AllUp, NEW f \in Flows, PathsOf(f) # <<>>, DstHw[f] \in nodes,
           NEW n \in Nat, NEW path, IsPath(path, edges, SrcHw[f], n), path[n + 1] = DstHw[f],
           NEW e \in Conns, NEW g, NEW p, Has(RulesOf(f, path)[e], AddRule(g, p))
    PROVE  g = f /\ \E i \in 2 .. n : switches[path[i]] = e /\ p = OutPort(f, path, i)
<1> DEFINE j == CHOOSE k \in Updated(f, path) : switches[path[k]] = e
           a == AddRule(f, OutPort(f, path, j))
<1>1. /\ \E k \in Updated(f, path) : switches[path[k]] = e
      /\ RulesOf(f, path)[e] = <<a>>
  <2>1. RulesOf(f, path)[e] # <<>>
    BY HasNone
  <2>2. QED BY <2>1 DEF RulesOf
<1>2. j \in Updated(f, path) /\ switches[path[j]] = e
  BY <1>1
<1>3. j \in 1 .. Len(path) /\ path[j] \in Switches
  BY <1>2 DEF Updated, Hops
<1>4. AddRule(g, p) = a
  BY <1>1, HasOne
<1> HIDE DEF j
<1>5. g = f /\ p = OutPort(f, path, j)
  BY <1>4 DEF AddRule
<1>6. path[1] \notin Switches /\ path[n + 1] \notin Switches /\ Len(path) = n + 1
  BY FlowAssumption, HostAssumption DEF IsPath
<1>7. j \in 2 .. n
  BY <1>3, <1>6
<1>8. QED BY <1>2, <1>5, <1>7

\* A link out of the port of a rule that is sent leads to the next hop.
LEMMA InstallLeads ==
    ASSUME Firm, HostsHome, FiniteNetwork, TwoEnds, Cabled, Plugged, PortsFound,
           NEW c \in Conns, NEW fr \in Frames, <<c, fr>> \in todo.packet, InstallPath(c, fr),
           NEW e \in Conns, NEW f, NEW l \in Links, l.dpid1 = Dpid[e],
           Has(RulesOf(fr.pkt, ChosenPath(fr.pkt))[e], AddRule(f, l.port1))
    PROVE  f = fr.pkt /\ l \in adjacency /\ Coming(l.dpid2, f)'
<1>0. PathsKnown /\ AllUp /\ fr.pkt \in Flows /\ PathsOf(fr.pkt) # <<>>
  BY KnownPaths DEF InstallPath
<1>1. PICK n \in Nat : \E path :
        /\ path = ChosenPath(fr.pkt)
        /\ IsPath(path, edges, SrcHw[fr.pkt], n)
        /\ path[n + 1] = DstHw[fr.pkt] /\ DstHw[fr.pkt] \in nodes
        /\ \A i \in 2 .. n : Coming(path[i], fr.pkt)'
  BY InstallComes
<1>2. PICK path :
        /\ path = ChosenPath(fr.pkt)
        /\ IsPath(path, edges, SrcHw[fr.pkt], n)
        /\ path[n + 1] = DstHw[fr.pkt] /\ DstHw[fr.pkt] \in nodes
        /\ \A i \in 2 .. n : Coming(path[i], fr.pkt)'
  BY <1>1
<1>3. f = fr.pkt /\ \E i \in 2 .. n : switches[path[i]] = e /\ l.port1 = OutPort(fr.pkt, path, i)
  BY <1>0, <1>2, SentByHop
<1>4. PICK i \in 2 .. n : switches[path[i]] = e /\ l.port1 = OutPort(fr.pkt, path, i)
  BY <1>3
<1> DEFINE next == path[i + 1]
<1>5. /\ path[i] \in Switches /\ Dpid[e] = path[i]
      /\ i \in Hops(path) /\ LeadsTo(path[i], l.port1, next)
  <2> DEFINE g == fr.pkt
             src == SrcHw[g]
  <2>1. g \in Flows /\ DstHw[g] \in nodes /\ IsPath(path, edges, src, n) /\ path[n + 1] = DstHw[g]
    BY <1>0, <1>2
  <2>2. l.port1 = OutPort(g, path, i) /\ switches[path[i]] = e
    BY <1>4
  <2> HIDE DEF g, src
  <2>3. /\ path[i] \in Switches /\ Dpid[switches[path[i]]] = path[i] /\ i \in Hops(path)
        /\ LeadsTo(path[i], OutPort(g, path, i), path[i + 1])
    BY <1>0, <2>1, HopLeads
  <2>4. QED BY <2>2, <2>3
<1>6. next \in GraphNodes /\ <<path[i], next>> \in edges
  <2>1. i \in 1 .. n /\ i + 1 \in 1 .. n + 1
    OBVIOUS
  <2>2. <<path[i], path[i + 1]>> \in edges
    BY <1>2, <2>1 DEF IsPath
  <2>3. path \in Seq(GraphNodes) /\ Len(path) = n + 1
    BY <1>2 DEF IsPath
  <2>4. path[i + 1] \in GraphNodes
    BY <2>1, <2>3
  <2>5. QED BY <2>2, <2>4
<1>7. next \notin Hosts
  <2>1. SUFFICES ASSUME next \in Hosts PROVE FALSE
    OBVIOUS
  <2>2. Attach[next] = [sw |-> l.dpid1, port |-> l.port1]
    BY <1>5, <2>1 DEF LeadsTo
  <2>3. QED BY <2>1, <2>2 DEF Cabled
<1>8. next \in Switches
  BY <1>6, <1>7 DEF GraphNodes
<1>9. neighbour[e][next] # NoPort /\ l.port1 = neighbour[e][next]
  <2>1. neighbour[e][next] # NoPort
    BY <1>4, <1>5, <1>6, <1>8 DEF Firm, EdgePorts
  <2>2. i < Len(path)
    BY <1>2 DEF IsPath
  <2>3. QED BY <1>4, <1>8, <2>1, <2>2 DEF OutPort
<1>10. PICK k \in adjacency : k.dpid1 = Dpid[e] /\ k.port1 = l.port1 /\ k.dpid2 = next
  BY <1>8, <1>9 DEF PortsFound
<1>11. k = l
  BY <1>10 DEF Plugged, Firm, TypeOK, PltTypeOK
<1>12. i + 1 \in 2 .. n
  <2>1. i # n
    <3>1. DstHw[fr.pkt] \in Hosts
      BY <1>0, FlowAssumption
    <3>2. QED BY <1>2, <1>7, <3>1
  <2>2. QED BY <2>1
<1>13. Coming(next, fr.pkt)'
  BY <1>2, <1>12
<1>14. l.dpid2 = next /\ l \in adjacency
  BY <1>10, <1>11
<1>15. QED
  <2> HIDE DEF next
  <2>1. QED BY <1>3, <1>13, <1>14

\* The setting of the steps: installed paths, and a network whose cables are
\* told apart by their ports.
Wired == OneId /\ FiniteNetwork /\ TwoEnds /\ Cabled /\ Plugged

LEMMA StepKeepsStarts ==
    ASSUME Firm, Lasting, NothingTaken, HostsHome, Wired, FlowsStart, [Next]_vars
    PROVE  FlowsStart'
<1> SUFFICES ASSUME NEW f \in Flows, Installed(f)' PROVE Coming(Attach[SrcHw[f]].sw, f)'
  BY DEF FlowsStart
<1>1. Attach[SrcHw[f]].sw \in Switches
  BY FlowAssumption, HostAssumption
<1>2. CASE Installed(f)
  BY <1>1, <1>2, ComingStays DEF FlowsStart
<1>3. CASE ~ Installed(f)
  <2>1. PICK c \in Conns, fr \in Frames :
          fr.pkt = f /\ <<c, fr>> \in todo.packet /\ InstallPath(c, fr)
    BY <1>3, InstalledByPath DEF NewlyInstalled, Firm, Wired
  <2>2. PICK n \in Nat : \E path : /\ n >= 2 /\ path[2] = Attach[SrcHw[fr.pkt]].sw
                                   /\ \A i \in 2 .. n : Coming(path[i], fr.pkt)'
    BY <2>1, InstallComes DEF Wired
  <2>3. 2 \in 2 .. n
    BY <2>2
  <2>4. QED BY <2>1, <2>2, <2>3
<1>4. QED BY <1>2, <1>3

\* A new rule is one sent for a path.
LEMMA RuleFrom ==
    ASSUME Firm, Lasting, NothingTaken, [Next]_vars, NEW s \in Switches, NEW f \in Flows,
           NEW p \in Ports, Rule(s, f, p)', ~ Rule(s, f, p)
    PROVE  \E e \in Conns, c \in Conns, fr \in Frames :
             /\ Dpid[e] = s /\ <<c, fr>> \in todo.packet /\ InstallPath(c, fr)
             /\ Has(RulesOf(fr.pkt, ChosenPath(fr.pkt))[e], AddRule(f, p))
<1> USE DEF Firm
<1> DEFINE a == AddRule(f, p)
<1>1. p # NoPort /\ a.type = "add" /\ \A fr : a # PacketOut(fr)
  BY PortsExist DEF AddRule, PacketOut
<1>2. table'[s][f] # p
  BY <1>1, PortSource DEF Rule, Lasting
<1>3. PICK e \in Conns : Dpid[e] = s /\ Has(toSwitch'[e], a) /\ ~ Has(toSwitch[e], a)
  BY <1>2 DEF Rule
<1>4. WrittenForPacketIn(e, a)
  <2> HIDE DEF a
  <2>1. QED BY <1>1, <1>3, MessageSource
<1>5. PICK c \in Conns, fr \in Frames : <<c, fr>> \in todo.packet /\ InstallPath(c, fr)
  BY <1>1, <1>4 DEF WrittenForPacketIn
<1>6. PICK out : Sends(c, fr, out)
  BY <1>5, InstallSends
<1> DEFINE rules == RulesOf(fr.pkt, ChosenPath(fr.pkt))
<1>7. /\ rules[e] \in Seq(Messages) /\ out \in [Conns -> Seq(Messages)] /\ Send(out)
      /\ out[e] = rules[e] \/ out[e] = rules[e] \o <<PacketOut(fr)>>
  BY <1>6 DEF Sends
<1>8. PacketOut(fr) \in Messages /\ <<PacketOut(fr)>> \in Seq(Messages)
  BY MessagesTyped
<1> HIDE DEF rules, a
<1>9. Has(out[e], a)
  BY <1>3, <1>7, SentNew
<1>10. ~ Has(<<PacketOut(fr)>>, a)
  BY <1>1, HasOne
<1>11. Has(rules[e], a)
  <2> DEFINE b == <<PacketOut(fr)>>
  <2>1. b \in Seq(Messages) /\ ~ Has(b, a) /\ (out[e] = rules[e] \/ out[e] = rules[e] \o b)
    BY <1>7, <1>8, <1>10
  <2> HIDE DEF b
  <2>2. QED BY <1>7, <1>9, <2>1, HasAppended
<1>12. QED BY <1>3, <1>5, <1>11 DEF rules, a

LEMMA StepKeepsLead ==
    ASSUME Firm, Lasting, NothingTaken, HostsHome, Wired, PortsFound, RulesLead, [Next]_vars
    PROVE  RulesLead'
<1> SUFFICES ASSUME NEW f \in Flows, NEW l \in Links, Rule(l.dpid1, f, l.port1)'
             PROVE  l \in adjacency' /\ Coming(l.dpid2, f)'
  BY DEF RulesLead
<1>1. l.dpid1 \in Switches /\ l.dpid2 \in Switches /\ l.port1 \in Ports
  BY LinkEnds
<1>2. adjacency \subseteq adjacency'
  BY LinksStay
<1>3. CASE Rule(l.dpid1, f, l.port1)
  BY <1>1, <1>2, <1>3, ComingStays DEF RulesLead
<1>4. CASE ~ Rule(l.dpid1, f, l.port1)
  <2>1. PICK e \in Conns, c \in Conns, fr \in Frames :
          /\ Dpid[e] = l.dpid1 /\ <<c, fr>> \in todo.packet /\ InstallPath(c, fr)
          /\ Has(RulesOf(fr.pkt, ChosenPath(fr.pkt))[e], AddRule(f, l.port1))
    BY <1>1, <1>4, RuleFrom
  <2>2. f = fr.pkt /\ l \in adjacency /\ Coming(l.dpid2, f)'
    BY <2>1, InstallLeads DEF Wired
  <2>3. QED BY <1>2, <2>2
<1>5. QED BY <1>3, <1>4

-----------------------------------------------------------------------------
(* Frames are where their rules take them.                                 *)

\* A frame is where its sender is plugged, or at the end of a link discovery
\* knows; an IP packet past its first switch is at one with a rule for it.
InPlace(fr) ==
    /\ AtHome(fr) \/ Found(fr.sw, fr.port)
    /\ fr.pkt \in Flows => fr.sw = Attach[SrcHw[fr.pkt]].sw \/ Coming(fr.sw, fr.pkt)

\* So are the frames reported to the controller and those it sends back.
Guided ==
    /\ \A fr \in frames : InPlace(fr)
    /\ \A c \in Conns : \A m : (Has(fromSwitch[c], m) /\ m.type = "packet_in") =>
         m.frame.sw = Dpid[c] /\ InPlace(m.frame)
    /\ \A c \in Conns : \A m : (Has(toSwitch[c], m) /\ m.type = "packet_out") =>
         m.frame.sw = Dpid[c] /\ m.frame.pkt \in Flows /\ InPlace(m.frame)
    /\ \A call \in todo.packet : call[2].sw = Dpid[call[1]] /\ InPlace(call[2])

LEMMA InPlaceStays ==
    ASSUME Firm, Lasting, NothingTaken, [Next]_vars, NEW fr \in Frames, InPlace(fr)
    PROVE  InPlace(fr)'
<1>1. adjacency \subseteq adjacency'
  BY LinksStay
<1>2. fr.sw \in Switches
  BY DEF Frames
<1>3. fr.pkt \in Flows /\ Coming(fr.sw, fr.pkt) => Coming(fr.sw, fr.pkt)'
  BY <1>2, ComingStays
<1>4. QED BY <1>1, <1>3 DEF InPlace, Found, AtHome

LEMMA StepKeepsGuided ==
    ASSUME Firm, Lasting, NothingTaken, RulesLead, Guided, [Next]_vars
    PROVE  Guided'
<1>0. TypeOK /\ TypeOK'
  BY StepTyped DEF Firm
<1>1. ASSUME NEW fr \in frames' PROVE InPlace(fr)'
  <2>0. fr \in Frames
    BY <1>0 DEF TypeOK, DepTypeOK
  <2>1. ASSUME fr.sw = Attach[Sender(fr.pkt)].sw, fr.port = Attach[Sender(fr.pkt)].port
        PROVE  InPlace(fr)
    BY <2>1 DEF InPlace, AtHome, Sender
  <2>2. ASSUME NEW c \in Conns, NEW m, Has(toSwitch[c], m), m.type = "packet_out", m.frame = fr
        PROVE  InPlace(fr)
    BY <2>2 DEF Guided
  <2>3. ASSUME NEW g \in frames, NEW l \in Links, Carries(g, l, fr)
        PROVE  InPlace(fr)
    <3>1. g.pkt \in Flows /\ table[l.dpid1][fr.pkt] = l.port1 /\ fr.pkt = g.pkt
      BY <2>3 DEF Carries, RuleFor
    <3>2. l \in adjacency /\ Coming(l.dpid2, fr.pkt)
      BY <3>1 DEF RulesLead, Rule
    <3>3. QED BY <2>3, <3>2 DEF Carries, InPlace, Found
  <2>4. fr \in frames => InPlace(fr)
    BY DEF Guided
  <2>5. InPlace(fr)
    BY <1>0, <2>1, <2>2, <2>3, <2>4, FrameSource
  <2>6. QED BY <2>0, <2>5, InPlaceStays
<1>2. ASSUME NEW c \in Conns, NEW m, Has(fromSwitch'[c], m), m.type = "packet_in"
      PROVE  m.frame.sw = Dpid[c] /\ InPlace(m.frame)'
  <2>1. m.frame \in Frames
    <3>1. fromSwitch'[c] \in Seq(Reports)
      BY <1>0 DEF TypeOK, PltTypeOK
    <3>2. m \in Reports
      BY <1>2, <3>1 DEF Has
    <3>3. QED BY <1>2, <3>2, ReportContents
  <2>2. CASE Has(fromSwitch[c], m)
    BY <1>2, <2>1, <2>2, InPlaceStays DEF Guided
  <2>3. CASE m.frame \in frames /\ session[m.frame.sw] = c
    <3>1. Dpid[c] = m.frame.sw
      BY <2>1, <2>3, SwitchAssumption DEF Firm, HandshakeInv, SessionsOwned, Frames
    <3>2. QED BY <2>1, <2>3, <3>1, InPlaceStays DEF Guided
  <2>4. QED BY <1>0, <1>2, <2>2, <2>3, PacketInSource
<1>3. ASSUME NEW c \in Conns, NEW m, Has(toSwitch'[c], m), m.type = "packet_out"
      PROVE  m.frame.sw = Dpid[c] /\ m.frame.pkt \in Flows /\ InPlace(m.frame)'
  <2>1. m.frame \in Frames
    <3>1. toSwitch'[c] \in Seq(Messages)
      BY <1>0 DEF TypeOK, ConnTypeOK
    <3>2. m \in Messages
      BY <1>3, <3>1 DEF Has
    <3>3. QED BY <1>3, <3>2, MessageContents
  <2>2. CASE Has(toSwitch[c], m)
    BY <1>3, <2>1, <2>2, InPlaceStays DEF Guided
  <2>3. ASSUME NEW fr \in Frames, <<c, fr>> \in todo.packet, fr.pkt \in Flows, m = PacketOut(fr)
        PROVE  m.frame.sw = Dpid[c] /\ m.frame.pkt \in Flows /\ InPlace(m.frame)
    BY <2>3 DEF Guided, PacketOut
  <2>4. Has(toSwitch[c], m) \/ WrittenForPacketIn(c, m)
    BY <1>0, <1>3, MessageSource
  <2>5. QED BY <1>3, <2>1, <2>2, <2>3, <2>4, InPlaceStays DEF WrittenForPacketIn
<1>4. ASSUME NEW call \in todo'.packet PROVE call[2].sw = Dpid[call[1]] /\ InPlace(call[2])'
  <2>1. call[2] \in Frames
    BY <1>0 DEF TypeOK, PltTypeOK, Calls
  <2>2. call[2].sw = Dpid[call[1]] /\ InPlace(call[2])
    BY <1>0, CallSource DEF Guided
  <2>3. QED BY <2>1, <2>2, InPlaceStays
<1>5. QED BY <1>1, <1>2, <1>3, <1>4 DEF Guided

LEMMA GuidedJoins ==
    ASSUME TypeOK, Guided
    PROVE  JoinsAtHome
<1> SUFFICES ASSUME NEW c \in Conns, HostJoins(c)
             PROVE  AtHome(Head(fromSwitch[c]).frame) /\ Head(fromSwitch[c]).frame.sw = Dpid[c]
  BY DEF JoinsAtHome
<1>1. PICK fr : /\ fr = Head(fromSwitch[c]).frame /\ Reading(c, "packet_in")
                /\ IsEdgePort(Dpid[c], fr.port)
  BY DEF HostJoins
<1>2. fr.sw = Dpid[c] /\ InPlace(fr)
  BY <1>1, HeadReported DEF Guided
<1>3. ~ Found(fr.sw, fr.port)
  BY <1>1, <1>2 DEF Found, IsEdgePort
<1>4. QED BY <1>1, <1>2, <1>3 DEF InPlace

-----------------------------------------------------------------------------
(* A packet sent back finds its rule.                                      *)

\* A switch with these rules that reads q has, at each packet sent back, a
\* rule for it.
Served(q, rules) ==
    \A i \in 1 .. Len(q) : q[i].type = "packet_out" =>
      \/ rules[q[i].frame.pkt] # NoPort
      \/ \E j \in 1 .. i - 1 : Adds(q[j], q[i].frame.pkt)

OutsServed == \A c \in Conns : Served(toSwitch[c], table[Dpid[c]])

LEMMA ServedAppend ==
    ASSUME NEW q \in Seq(Messages), NEW r \in Seq(Messages), NEW rules, Served(q, rules),
           \A i \in 1 .. Len(r) : r[i].type = "packet_out" =>
             \/ rules[r[i].frame.pkt] # NoPort
             \/ \E j \in 1 .. Len(q) : Adds(q[j], r[i].frame.pkt)
             \/ \E j \in 1 .. i - 1 : Adds(r[j], r[i].frame.pkt)
    PROVE  Served(q \o r, rules)
<1> DEFINE s == q \o r
<1>1. /\ Len(s) = Len(q) + Len(r) /\ Len(q) \in Nat /\ Len(r) \in Nat
      /\ \A i \in 1 .. Len(q) : s[i] = q[i]
      /\ \A i \in 1 .. Len(r) : s[Len(q) + i] = r[i]
  OBVIOUS
<1> HIDE DEF s
<1>2. SUFFICES ASSUME NEW k \in 1 .. Len(s), s[k].type = "packet_out"
               PROVE  \/ rules[s[k].frame.pkt] # NoPort
                      \/ \E j \in 1 .. k - 1 : Adds(s[j], s[k].frame.pkt)
  BY DEF Served, s
<1>3. CASE k \in 1 .. Len(q)
  <2>1. s[k] = q[k] /\ \A j \in 1 .. k - 1 : s[j] = q[j]
    BY <1>1, <1>3
  <2>2. QED BY <1>2, <1>3, <2>1 DEF Served
<1>4. CASE k \notin 1 .. Len(q)
  <2>1. PICK i \in 1 .. Len(r) : k = Len(q) + i
    <3>1. k - Len(q) \in 1 .. Len(r) /\ k = Len(q) + (k - Len(q))
      BY <1>1, <1>4
    <3>2. QED BY <3>1
  <2>2. s[k] = r[i]
    BY <1>1, <2>1
  <2>3. CASE rules[r[i].frame.pkt] # NoPort
    BY <2>2, <2>3
  <2>4. ASSUME NEW j \in 1 .. Len(q), Adds(q[j], r[i].frame.pkt)
        PROVE  \E h \in 1 .. k - 1 : Adds(s[h], s[k].frame.pkt)
    <3>1. j \in 1 .. k - 1 /\ s[j] = q[j]
      BY <1>1, <2>1
    <3>2. QED BY <2>2, <2>4, <3>1
  <2>5. ASSUME NEW j \in 1 .. i - 1, Adds(r[j], r[i].frame.pkt)
        PROVE  \E h \in 1 .. k - 1 : Adds(s[h], s[k].frame.pkt)
    <3>1. Len(q) + j \in 1 .. k - 1 /\ s[Len(q) + j] = r[j]
      BY <1>1, <2>1
    <3>2. QED BY <2>2, <2>5, <3>1
  <2>6. QED BY <1>2, <2>2, <2>3, <2>4, <2>5
<1>5. QED BY <1>3, <1>4

LEMMA ServedTail ==
    ASSUME NEW q \in Seq(Messages), q # <<>>, NEW rules, NEW new, Served(q, rules),
           \A i \in 1 .. Len(q) : q[i].type = "packet_out" =>
             /\ rules[q[i].frame.pkt] # NoPort => new[q[i].frame.pkt] # NoPort
             /\ Adds(Head(q), q[i].frame.pkt) => new[q[i].frame.pkt] # NoPort
    PROVE  Served(Tail(q), new)
<1> DEFINE r == Tail(q)
<1>1. /\ Len(q) \in Nat \ {0} /\ Head(q) = q[1] /\ Len(r) = Len(q) - 1
      /\ \A k \in 1 .. Len(q) - 1 : r[k] = q[k + 1]
  OBVIOUS
<1> HIDE DEF r
<1>2. SUFFICES ASSUME NEW k \in 1 .. Len(r), r[k].type = "packet_out"
               PROVE  \/ new[r[k].frame.pkt] # NoPort
                      \/ \E j \in 1 .. k - 1 : Adds(r[j], r[k].frame.pkt)
  BY DEF Served, r
<1>3. k + 1 \in 1 .. Len(q) /\ r[k] = q[k + 1]
  BY <1>1
<1>4. CASE rules[r[k].frame.pkt] # NoPort
  BY <1>2, <1>3, <1>4
<1>5. ASSUME NEW j \in 1 .. (k + 1) - 1, Adds(q[j], r[k].frame.pkt)
      PROVE  \/ new[r[k].frame.pkt] # NoPort
             \/ \E h \in 1 .. k - 1 : Adds(r[h], r[k].frame.pkt)
  <2>1. CASE j = 1
    BY <1>1, <1>2, <1>3, <1>5, <2>1
  <2>2. CASE j # 1
    <3>1. j - 1 \in 1 .. k - 1 /\ j - 1 \in 1 .. Len(q) - 1 /\ (j - 1) + 1 = j
      BY <1>1, <2>2
    <3>2. r[j - 1] = q[j]
      BY <1>1, <3>1
    <3>3. QED BY <1>5, <3>1, <3>2
  <2>3. QED BY <2>1, <2>2
<1>6. QED BY <1>2, <1>3, <1>4, <1>5 DEF Served

\* What is coming to the switch of a session is in its table or its queue.
LEMMA ComingHere ==
    ASSUME Firm, NEW c \in Conns, Online(c), NEW f, Coming(Dpid[c], f)
    PROVE  \/ table[Dpid[c]][f] # NoPort
           \/ \E j \in 1 .. Len(toSwitch[c]) : Adds(toSwitch[c][j], f)
<1>1. ASSUME NEW e \in Conns, Dpid[e] = Dpid[c], NEW m, Has(toSwitch[e], m), Adds(m, f)
      PROVE  \E j \in 1 .. Len(toSwitch[c]) : Adds(toSwitch[c][j], f)
  <2>1. e = c
    BY <1>1, HoldsOnline, OnlineOne
  <2>2. QED BY <1>1, <2>1 DEF Has
<1>2. QED BY <1>1 DEF Coming

\* The rules sent for a path are ahead of its packet.
LEMMA PathServes ==
    ASSUME Firm, HostsHome, Wired, Guided,
           NEW c \in Conns, Online(c), NEW d \in Conns, NEW fr \in Frames, NEW out,
           PathSent(c, d, fr, out),
           NEW i \in 1 .. Len(out[c]), out[c][i].type = "packet_out"
    PROVE  LET f == out[c][i].frame.pkt
           IN  \/ table[Dpid[c]][f] # NoPort
               \/ \E j \in 1 .. Len(toSwitch[c]) : Adds(toSwitch[c][j], f)
               \/ \E j \in 1 .. i - 1 : Adds(out[c][j], f)
<1> USE DEF Firm
<1> DEFINE f == fr.pkt
           r == out[c]
           q == toSwitch[c]
           rules == RulesOf(f, ChosenPath(f))[c]
           b == PacketOut(fr)
<1>0. f \in Flows /\ <<d, fr>> \in todo.packet /\ InstallPath(d, fr)
  BY DEF PathSent, InstallPath
<1>1. /\ rules \in Seq(Messages) /\ r \in Seq(Messages) /\ q \in Seq(Messages)
      /\ r = IF c = d THEN rules \o <<b>> ELSE rules
  BY DEF PathSent, Sends, TypeOK, ConnTypeOK
<1>2. \A k \in 1 .. Len(rules) : rules[k].type = "add"
  <2>1. ASSUME NEW k \in 1 .. Len(rules) PROVE rules[k].type = "add"
    <3>1. Has(rules, rules[k])
      BY DEF Has
    <3>2. QED BY <1>0, <3>1, RulesAreAdds DEF TypeOK
  <2>2. QED BY <2>1
<1>3. b \in Messages /\ b.type = "packet_out" /\ b.frame = fr
  BY MessagesTyped DEF PacketOut
<1>4. q \o r = toSwitch'[c]
  BY DEF PathSent
<1> HIDE DEF b, rules, q, r
<1>5. i \in 1 .. Len(r) /\ r[i].type = "packet_out"
  BY DEF r
<1>6. c = d /\ i = Len(rules) + 1 /\ r[i] = b
  <2>1. c = d
    BY <1>1, <1>2, <1>5
  <2>2. /\ Len(r) = Len(rules) + 1 /\ Len(rules) \in Nat /\ r[Len(rules) + 1] = b
        /\ \A k \in 1 .. Len(rules) : r[k] = rules[k]
    BY <1>1, <1>3, <2>1
  <2>3. QED BY <1>2, <1>5, <2>1, <2>2
<1>7. fr.sw = Dpid[c] /\ InPlace(fr)
  BY <1>0, <1>6 DEF Guided
<1>8. CASE Coming(fr.sw, f)
  <2>1. \/ table[Dpid[c]][f] # NoPort
        \/ \E j \in 1 .. Len(q) : Adds(q[j], f)
    BY <1>7, <1>8, ComingHere DEF q
  <2>2. QED BY <1>3, <1>6, <2>1 DEF q, r
<1>9. CASE fr.sw = Attach[SrcHw[f]].sw
  <2>1. PICK n \in Nat : \E path :
          /\ n >= 2 /\ path[2] = Attach[SrcHw[fr.pkt]].sw
          /\ \A k \in 2 .. n : \E e \in Conns, p \in Ports : HopSent(fr.pkt, path, k, e, p)
    BY <1>0, InstallComes DEF Wired
  <2>2. PICK path :
          /\ n >= 2 /\ path[2] = Attach[SrcHw[fr.pkt]].sw
          /\ \A k \in 2 .. n : \E e \in Conns, p \in Ports : HopSent(fr.pkt, path, k, e, p)
    BY <2>1
  <2>3. PICK e \in Conns, p \in Ports : HopSent(f, path, 2, e, p)
    <3>1. 2 \in 2 .. n
      BY <2>2
    <3>2. QED BY <2>2, <3>1
  <2> DEFINE a == AddRule(f, p)
  <2>4. e = c
    BY <1>7, <1>9, <2>2, <2>3, OnlineOne DEF HopSent
  <2>5. PICK g \in Frames : \E t : /\ toSwitch'[e] = toSwitch[e] \o t
                                   /\ t = <<a>> \/ t = <<a>> \o <<PacketOut(g)>>
    BY <2>3 DEF HopSent
  <2>6. a \in Messages /\ PacketOut(g) \in Messages /\ Adds(a, f) /\ a.type = "add"
    BY <2>3, MessagesTyped DEF HopSent, Adds, AddRule
  <2> HIDE DEF a
  <2>7. PICK t : q \o r = q \o t /\ (t = <<a>> \/ t = <<a>> \o <<PacketOut(g)>>)
    BY <1>4, <2>4, <2>5 DEF q
  <2> DEFINE z == PacketOut(g)
  <2>8. z \in Messages /\ (t = <<a>> \/ t = <<a>> \o <<z>>)
    BY <2>6, <2>7
  <2> HIDE DEF z
  <2>9. Len(q) + 1 \in Len(q) + 1 .. Len(q \o t) /\ (q \o t)[Len(q) + 1] = a
    BY <1>1, <2>6, <2>8, AddedFirst
  <2>10. r[1] = a
    <3>1. Len(q \o r) = Len(q) + Len(r) /\ \A k \in 1 .. Len(r) : (q \o r)[Len(q) + k] = r[k]
      BY <1>1
    <3>2. Len(q) \in Nat /\ Len(r) \in Nat
      BY <1>1
    <3>3. 1 \in 1 .. Len(r)
      BY <1>5, <3>2
    <3>4. QED BY <2>7, <2>9, <3>1, <3>3
  <2>11. 1 \in 1 .. i - 1
    <3>1. i # 1
      BY <1>3, <1>6, <2>6, <2>10
    <3>2. i \in Nat /\ i >= 1
      BY <1>1, <1>5
    <3>3. QED BY <3>1, <3>2
  <2>12. r[i].frame.pkt = f
    BY <1>3, <1>6
  <2>13. \E j \in 1 .. i - 1 : Adds(r[j], r[i].frame.pkt)
    BY <2>6, <2>10, <2>11, <2>12
  <2>14. QED BY <2>13 DEF r
<1>10. QED BY <1>0, <1>7, <1>8, <1>9 DEF InPlace

LEMMA StepKeepsServed ==
    ASSUME Firm, Lasting, NothingTaken, HostsHome, Wired, FlowsStart, Guided, OutsServed,
           [Next]_vars
    PROVE  OutsServed'
<1> USE DEF Firm
<1> SUFFICES ASSUME NEW c \in Conns PROVE Served(toSwitch'[c], table'[Dpid[c]])
  BY DEF OutsServed, Served
<1>0. TypeOK' /\ toSwitch[c] \in Seq(Messages) /\ Dpid[c] \in Switches /\ Steady
  BY StepTyped, SwitchAssumption DEF TypeOK, ConnTypeOK, Lasting
<1>1. Served(toSwitch[c], table[Dpid[c]])
  BY DEF OutsServed
<1> DEFINE q == toSwitch[c]
           rules == table[Dpid[c]]
           new == table'[Dpid[c]]
<1>2. CASE SwitchReceives(c)
  <2>1. toSwitch'[c] = Tail(q) /\ q # <<>>
    BY <1>2 DEF SwitchReceives, SwitchClears, SwitchAnswersBarrier, SwitchAddsRule,
                SwitchResubmits, SwitchDeletesByPort, SwitchDeletesByFlow, Receives, TypeOK, ConnTypeOK
  <2>2. ASSUME NEW i \in 1 .. Len(q), q[i].type = "packet_out"
        PROVE  /\ rules[q[i].frame.pkt] # NoPort => new[q[i].frame.pkt] # NoPort
               /\ Adds(Head(q), q[i].frame.pkt) => new[q[i].frame.pkt] # NoPort
    <3> DEFINE f == q[i].frame.pkt
               h == Head(q)
    <3>1. f \in Flows
      <4>1. Has(toSwitch[c], q[i])
        BY DEF Has
      <4>2. QED BY <2>2, <4>1 DEF Guided
    <3>2. rules[f] # NoPort => new[f] # NoPort
      BY <1>0, <3>1, RuleStays
    <3>3. h \in Messages
      BY <1>0, <2>1
    <3>4. \A x : h = AddRule(f, x) => new[f] = x
      <4> HIDE DEF f
      <4>1. QED BY <1>2, <3>1, ReceivesPort
    <3> HIDE DEF h, f
    <3>5. Adds(h, f) => new[f] # NoPort
      BY <3>3, <3>4, AddIs
    <3>6. QED BY <3>2, <3>5 DEF h, f
  <2> HIDE DEF q, rules, new
  <2>3. Served(Tail(q), new)
    BY <1>0, <1>1, <2>1, <2>2, ServedTail DEF q, rules
  <2>4. QED BY <2>1, <2>3 DEF new
<1>3. CASE ~ SwitchReceives(c) /\ Online(c)
  <2>1. /\ new = rules
        /\ \/ Spared(c, Keeping)
           \/ \E fr \in Frames : PacketBack(c, fr)
           \/ \E d \in Conns, fr \in Frames : \E out : PathSent(c, d, fr, out)
    BY <1>0, <1>3, Writes
  <2>2. ASSUME NEW r \in Seq(Messages), toSwitch'[c] = q \o r,
               \A i \in 1 .. Len(r) : r[i].type = "packet_out" =>
                 \/ rules[r[i].frame.pkt] # NoPort
                 \/ \E j \in 1 .. Len(q) : Adds(q[j], r[i].frame.pkt)
                 \/ \E j \in 1 .. i - 1 : Adds(r[j], r[i].frame.pkt)
        PROVE  Served(toSwitch'[c], new)
    <3> HIDE DEF q, rules
    <3>1. Served(q \o r, rules)
      BY <1>0, <1>1, <2>2, ServedAppend DEF q, rules
    <3>2. QED BY <2>1, <2>2, <3>1
  <2>3. CASE Spared(c, Keeping)
    <3>1. PICK r \in Seq(Messages) : /\ toSwitch'[c] = q \o r
                                     /\ \A i \in 1 .. Len(r) : r[i] \notin Keeping
      BY <2>3 DEF Spared
    <3>2. \A i \in 1 .. Len(r) : r[i] \in Messages
      OBVIOUS
    <3>3. \A i \in 1 .. Len(r) : r[i].type # "packet_out"
      BY <3>1, <3>2 DEF Keeping
    <3>4. QED BY <2>2, <3>1, <3>3
  <2>4. ASSUME NEW fr \in Frames, PacketBack(c, fr)
        PROVE  Served(toSwitch'[c], new)
    <3> DEFINE b == PacketOut(fr)
               r == <<b>>
    <3>1. b \in Messages /\ b.frame = fr /\ toSwitch'[c] = q \o r
      BY <2>4, MessagesTyped DEF PacketOut, PacketBack
    <3> HIDE DEF b
    <3>2. r \in Seq(Messages) /\ Len(r) = 1 /\ r[1] = b
      BY <3>1
    <3>3. Coming(Dpid[c], fr.pkt)
      <4>1. <<c, fr>> \in todo.packet /\ fr.pkt \in Flows /\ Installed(fr.pkt)
        BY <2>4 DEF PacketBack, ForwardInstalled, Installed
      <4>2. fr.sw = Dpid[c] /\ InPlace(fr)
        BY <4>1 DEF Guided
      <4>3. QED BY <4>1, <4>2 DEF InPlace, FlowsStart
    <3>4. \/ rules[fr.pkt] # NoPort
          \/ \E j \in 1 .. Len(q) : Adds(q[j], fr.pkt)
      BY <1>3, <3>3, ComingHere
    <3> HIDE DEF r
    <3>5. \A i \in 1 .. Len(r) : r[i].frame = fr
      BY <3>1, <3>2
    <3>6. QED BY <2>2, <3>1, <3>2, <3>4, <3>5
  <2>5. ASSUME NEW d \in Conns, NEW fr \in Frames, NEW out, PathSent(c, d, fr, out)
        PROVE  Served(toSwitch'[c], new)
    <3> DEFINE r == out[c]
    <3>1. r \in Seq(Messages) /\ toSwitch'[c] = q \o r
      BY <2>5 DEF PathSent, Sends
    <3>2. ASSUME NEW i \in 1 .. Len(r), r[i].type = "packet_out"
          PROVE  \/ rules[r[i].frame.pkt] # NoPort
                 \/ \E j \in 1 .. Len(q) : Adds(q[j], r[i].frame.pkt)
                 \/ \E j \in 1 .. i - 1 : Adds(r[j], r[i].frame.pkt)
      BY <1>3, <2>5, <3>2, PathServes
    <3> HIDE DEF r
    <3>3. QED BY <2>2, <3>1, <3>2
  <2>6. QED BY <2>1, <2>3, <2>4, <2>5
<1>4. CASE ~ Online(c)
  <2>1. ASSUME NEW m, Has(toSwitch'[c], m), m.type = "packet_out" PROVE FALSE
    <3>1. CASE Has(toSwitch[c], m)
      BY <1>4, <3>1, HoldsOnline
    <3>2. ASSUME NEW fr \in Frames, <<c, fr>> \in todo.packet PROVE FALSE
      <4>1. conState[c] \in Settled
        BY <3>2 DEF HandshakeInv, HandlesSettled
      <4>2. c \notin unused
        BY <4>1 DEF HandshakeInv, SessionsOwned, Settled
      <4>3. QED BY <1>4, <4>2 DEF TrafficUp, SessionsLast
    <3>3. Has(toSwitch[c], m) \/ WrittenForPacketIn(c, m)
      BY <2>1, MessageSource
    <3>4. WrittenForPacketIn(c, m) => \E fr \in Frames : <<c, fr>> \in todo.packet
      BY <2>1 DEF WrittenForPacketIn
    <3>5. QED BY <3>1, <3>2, <3>3, <3>4
  <2>2. ASSUME NEW i \in 1 .. Len(toSwitch'[c]), toSwitch'[c][i].type = "packet_out"
        PROVE  FALSE
    <3>1. Has(toSwitch'[c], toSwitch'[c][i])
      BY DEF Has
    <3>2. QED BY <2>1, <2>2, <3>1
  <2>3. QED BY <2>2 DEF Served
<1>5. QED BY <1>2, <1>3, <1>4

-----------------------------------------------------------------------------
(* The invariant of the packets sent back.                                 *)

\* Rules, reports and frames lead one another along paths.
GuideInv ==
    /\ NothingTaken /\ PortsFound /\ FlowsStart /\ RulesLead
    /\ Guided /\ OutsServed /\ HostsHome

LEMMA StepKeepsGuide ==
    ASSUME Firm, Lasting, Wired, GuideInv, [Next]_vars
    PROVE  GuideInv'
<1> USE DEF GuideInv
<1>1. NothingTaken'
  BY StepTakesNothing
<1>2. PortsFound' /\ FlowsStart' /\ RulesLead'
  BY StepKeepsFound, StepKeepsStarts, StepKeepsLead
<1>3. Guided' /\ OutsServed'
  BY StepKeepsGuided, StepKeepsServed
<1>4. HostsHome'
  BY GuidedJoins, StepKeepsHostsHome DEF Firm
<1>5. QED BY <1>1, <1>2, <1>3, <1>4

LEMMA GuideHolds == Lasting /\ Wired /\ Spec => []GuideInv
<1>1. SUFFICES ASSUME Lasting, Wired PROVE Spec => []GuideInv
  OBVIOUS
<1>2. Init => GuideInv
  <2> SUFFICES ASSUME Init PROVE GuideInv
    OBVIOUS
  <2>1. /\ \A c \in Conns : toSwitch[c] = <<>> /\ fromSwitch[c] = <<>> /\ conState[c] = "new"
        /\ \A s \in Switches, f \in Flows : table[s][f] = NoPort
        /\ frames = {} /\ todo.packet = {} /\ todo.removed = {} /\ todo.popped = {}
    BY DEF Init, ConnInit, PltInit, Nothing, NoRules
  <2>2. /\ \A c \in Conns : \A m : ~ Has(toSwitch[c], m) /\ ~ Has(fromSwitch[c], m)
        /\ \A c \in Conns : Len(toSwitch[c]) = 0
    BY <2>1, HasNone
  <2>3. NothingTaken
    BY <2>1, <2>2 DEF NothingTaken, HandshakeOver
  <2>4. PortsFound /\ FlowsStart /\ HostsHome
    BY FlowAssumption DEF Init, CtlInit, PortsFound, FlowsStart, HostsHome, Installed, NoNeighbours
  <2>5. RulesLead
    BY <2>1, <2>2, LinkEnds, PortsExist DEF RulesLead, Rule
  <2>6. Guided
    BY <2>1, <2>2 DEF Guided
  <2>7. OutsServed
    BY <2>2 DEF OutsServed, Served
  <2>8. QED BY <2>3, <2>4, <2>5, <2>6, <2>7 DEF GuideInv
<1>3. TypeOK /\ HandshakeInv /\ HostViewsAgree /\ UpRegistered /\ PortsLead
        /\ (SessionsLast => NothingEnds) /\ (SessionsLast => EdgePorts) /\ RuleInv /\ TrafficUp
        /\ GuideInv /\ [Next]_vars => GuideInv'
  <2> SUFFICES ASSUME TypeOK, HandshakeInv, HostViewsAgree, UpRegistered, PortsLead,
                      SessionsLast => NothingEnds, SessionsLast => EdgePorts, RuleInv, TrafficUp,
                      GuideInv, [Next]_vars
               PROVE  GuideInv'
    OBVIOUS
  <2>1. Firm
    BY DEF Firm, TrafficUp, RuleInv
  <2>2. QED BY <1>1, <2>1, StepKeepsGuide
<1>4. OneId /\ Steady
  BY <1>1 DEF Wired, Lasting
<1>5. QED
  BY <1>2, <1>3, <1>4, PortsHold, TypeCorrect, HandshakeHolds, HostsAgree, RegisteredHolds,
     NothingEndsHolds, RuleInvHolds, TrafficHolds, PTL DEF Spec

LEMMA GuideMatches ==
    ASSUME TypeOK, GuideInv
    PROVE  PacketOutMatches
<1> SUFFICES ASSUME NEW c \in Conns, Online(c), toSwitch[c] # <<>>,
                    Head(toSwitch[c]).type = "packet_out"
             PROVE  RuleFor(Head(toSwitch[c]).frame) # NoPort
  BY DEF PacketOutMatches
<1> DEFINE q == toSwitch[c]
<1>1. q \in Seq(Messages) /\ q # <<>>
  BY DEF TypeOK, ConnTypeOK
<1> HIDE DEF q
<1>2. 1 \in 1 .. Len(q) /\ q[1] = Head(q) /\ 1 - 1 = 0 /\ 1 .. 0 = {}
  BY <1>1
<1>3. Has(q, Head(q)) /\ Head(q).type = "packet_out"
  BY <1>2 DEF Has, q
<1>4. Head(q).frame.sw = Dpid[c] /\ Head(q).frame.pkt \in Flows
  BY <1>3 DEF GuideInv, Guided, q
<1>5. table[Dpid[c]][Head(q).frame.pkt] # NoPort
  <2>1. Served(q, table[Dpid[c]])
    BY DEF GuideInv, OutsServed, q
  <2>2. QED BY <1>2, <1>3, <2>1 DEF Served
<1>6. QED BY <1>4, <1>5 DEF RuleFor, q

-----------------------------------------------------------------------------
(* The theorems.                                                           *)

\* Where sessions and links last and every cable has ports of its own, a
\* packet that _handle_PacketIn sends back to the table of a switch (OFPP_TABLE
\* in controller.py) finds its rule there: the rules of a path are written to
\* each switch before the packet, and hosts' frames and the switches' answers
\* follow these rules only, whatever else the tracker forgets meanwhile.
THEOREM OutsMatch == Lasting /\ Wired /\ Spec => []PacketOutMatches
<1>1. TypeOK /\ GuideInv => PacketOutMatches
  BY GuideMatches
<1>2. QED BY <1>1, GuideHolds, TypeCorrect, PTL

\* On a network whose ports have one cable each, where no session is lost and
\* hosts start to send when every switch is connected, the rules of a flow
\* that is marked installed carry it to its destination whenever the network
\* is quiet.  Either no host falls silent: then what an expired link takes away
\* the controller withdraws with the mark, however its messages and the
\* switches' cross.  Or links last: then hosts may be forgotten and found, but
\* never where they are not.
THEOREM Delivered ==
    (/\ OneId /\ FiniteNetwork /\ Cabled /\ TwoEnds /\ Steady
     /\ SilentHosts = {} \/ (FlakyLinks = {} /\ Plugged)
     /\ Spec) => []InstalledFlowDelivers
<1>1. SUFFICES ASSUME OneId, FiniteNetwork, Cabled, TwoEnds, Steady,
                      SilentHosts = {} \/ (FlakyLinks = {} /\ Plugged)
               PROVE  Spec => []InstalledFlowDelivers
  OBVIOUS
<1>2. Init => DeliveryInv
  BY FlowAssumption DEF Init, CtlInit, DeliveryInv, Installed
<1>3. Known /\ HostsHome /\ DeliveryInv /\ [Next]_vars => DeliveryInv'
  BY <1>1, StepKeepsDelivery
<1>4. DeliveryInv => InstalledFlowDelivers
  BY <1>1, CarriedDelivers DEF InstalledFlowDelivers
<1>5. OneId /\ Steady
  BY <1>1
<1>6. Spec => []HostsHome
  <2>1. CASE SilentHosts = {}
    <3>1. HomeInv => HostsHome
      BY DEF HomeInv
    <3>2. QED BY <2>1, <3>1, PlacesHold, PTL
  <2>2. CASE FlakyLinks = {} /\ Plugged
    <3>1. GuideInv => HostsHome
      BY DEF GuideInv
    <3>2. Lasting /\ Wired
      BY <1>1, <2>2 DEF Lasting, Wired
    <3>3. QED BY <3>1, <3>2, GuideHolds, PTL
  <2>3. QED BY <1>1, <2>1, <2>2
<1>7. QED
  BY <1>2, <1>3, <1>4, <1>5, <1>6, PortsHold, TypeCorrect, HandshakeHolds, HostsAgree, RegisteredHolds,
     NothingEndsHolds, RuleInvHolds, TrafficHolds, PTL DEF Spec, Known

-----------------------------------------------------------------------------
(* The behaviours of MCLine in which the tracker forgets hosts.            *)

LEMMA HostSpec == AnySpec /\ trouble = "host" => Spec /\ [](trouble = "host")
<1>1. AnyInit /\ trouble = "host" => Init
  BY DEF AnyInit
<1>2. trouble = "host" /\ [AnyNext]_<<vars, trouble>> => (trouble = "host")' /\ [Next]_vars
  BY DEF AnyNext
<1>3. QED BY <1>1, <1>2, PTL DEF AnySpec, Spec

\* A packet sent back to a table finds its rule (OutsMatch).
THEOREM MatchInRun ==
    Lasting /\ Wired => (AnySpec /\ trouble = "host" => []PacketsMatch)
<1>1. SUFFICES ASSUME Lasting, Wired PROVE AnySpec /\ trouble = "host" => []PacketsMatch
  OBVIOUS
<1>2. Spec => []PacketOutMatches
  BY <1>1, OutsMatch
<1>3. PacketOutMatches => PacketsMatch
  BY DEF PacketsMatch
<1>4. QED BY <1>2, <1>3, HostSpec, PTL

\* The rules of an installed flow lead to its destination (Delivered).
THEOREM DeliverInRun ==
    Lasting /\ Wired => (AnySpec /\ trouble = "host" => []InstalledDelivers)
<1>1. SUFFICES ASSUME Lasting, Wired PROVE AnySpec /\ trouble = "host" => []InstalledDelivers
  OBVIOUS
<1>2. Spec => []InstalledFlowDelivers
  BY <1>1, Delivered DEF Lasting, Wired
<1>3. InstalledFlowDelivers => InstalledDelivers
  BY DEF InstalledDelivers
<1>4. QED BY <1>2, <1>3, HostSpec, PTL
=============================================================================
