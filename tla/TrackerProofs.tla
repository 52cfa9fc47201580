---------------------------- MODULE TrackerProofs ----------------------------
(***************************************************************************)
(* What the host tracker may forget, for any hosts, addresses, intervals   *)
(* and limit of pings.                                                     *)
(*                                                                         *)
(* The argument relates three clocks: the age of a MAC entry never         *)
(* exceeds that of one of its addresses, so that an entry which expires    *)
(* has its addresses expired; the count of pings is twice the pings that   *)
(* are unanswered; and for a host that answers, a count above zero means   *)
(* that a ping is still in flight, which none is when the timer is due.    *)
(***************************************************************************)
EXTENDS HostTracker, TLAPS

\* Hosts that are always reachable and answer.
Responsive == Answering \ MayDetach

EntryOlder ==
    \A h \in known : \A a \in DOMAIN ips[h] :
      age[h] <= ips[h][a].age \/ ips[h][a].age > ArpSilent

CountedTwice ==
    \A h \in Hosts : \A a \in DOMAIN ips[h] : ips[h][a].pending = 2 * ips[h][a].tries

InFlight ==
    \A h \in Responsive : \A a \in DOMAIN ips[h] :
      ips[h][a].pending # 0 => <<h, a>> \in asked

AnsweredInTime == timer = "due" => \A q \in asked : q[1] \notin Answering

TrackerInv == TypeOK /\ EntryOlder /\ CountedTwice /\ InFlight /\ AnsweredInTime

-----------------------------------------------------------------------------
LEMMA Constants ==
    /\ ArpAware \in Nat /\ ArpSilent \in Nat /\ ArpAware < ArpSilent /\ PingLim \in Nat
    /\ Answering \subseteq Hosts
    /\ \A h \in Hosts : Owns[h] \subseteq Addresses
  BY HostTrackerAssumption

LEMMA ReceivedEntry ==
    ASSUME NEW entry \in IpEntries
    PROVE  /\ Received(entry) \in IpEntries /\ Received(entry).age = entry.age
           /\ Received(entry).pending = 0 /\ Received(entry).tries = 0
<1>1. 0 \in 0..PingLim + 2 /\ 0 \in Nat
  BY Constants
<1>2. QED BY <1>1 DEF Received, IpEntries

LEMMA PingSentEntry ==
    ASSUME NEW entry \in IpEntries, entry.pending = 2 * entry.tries, ~ Failed(entry)
    PROVE  /\ PingSent(entry) \in IpEntries /\ PingSent(entry).age = entry.age
           /\ PingSent(entry).pending = 2 * PingSent(entry).tries
<1>1. entry.pending \in 0..PingLim /\ entry.tries \in Nat
  BY Constants DEF IpEntries, Failed
<1>2. entry.pending + 2 \in 0..PingLim + 2 /\ entry.tries + 1 \in Nat
      /\ entry.pending + 2 = 2 * (entry.tries + 1)
  BY <1>1, Constants
<1>3. PingSent(entry) = [entry EXCEPT !.pending = entry.pending + 2, !.tries = entry.tries + 1]
  BY DEF PingSent
<1>4. QED BY <1>2, <1>3 DEF IpEntries

\* The entry of an address that a packet has refreshed.
LEMMA RefreshedEntry ==
    ASSUME TypeOK, CountedTwice, NEW h \in Hosts, NEW a \in Owns[h], NEW kind \in {"arp", "ip", "other"}
    PROVE  LET entry == IpInfo(h, a, kind) IN
           /\ entry \in IpEntries
           /\ entry.age = 0
           /\ entry.pending = 2 * entry.tries
           /\ entry.pending # 0 => kind # "arp" /\ a \in DOMAIN ips[h] /\ ips[h][a].pending # 0
<1> DEFINE new == [age |-> 0, hasARP |-> kind = "arp", pending |-> 0, tries |-> 0]
           old == [ips[h][a] EXCEPT !.age = 0]
           entry == IF a \in DOMAIN ips[h] THEN old ELSE new
<1>1. new \in IpEntries /\ new.age = 0 /\ new.pending = 0 /\ new.tries = 0
  BY Constants DEF IpEntries
<1>2. ASSUME a \in DOMAIN ips[h]
      PROVE  /\ old \in IpEntries /\ old.age = 0 /\ old.pending = ips[h][a].pending
             /\ old.pending = 2 * old.tries
  <2>1. ips[h][a] \in IpEntries /\ ips[h][a].pending = 2 * ips[h][a].tries
    BY <1>2 DEF TypeOK, CountedTwice
  <2>2. QED BY <2>1, Constants DEF IpEntries
<1>3. entry \in IpEntries /\ entry.age = 0 /\ entry.pending = 2 * entry.tries
      /\ (entry.pending # 0 => a \in DOMAIN ips[h] /\ ips[h][a].pending # 0)
  BY <1>1, <1>2
<1>4. /\ Received(entry) \in IpEntries /\ Received(entry).age = 0
      /\ Received(entry).pending = 0 /\ Received(entry).tries = 0
  <2> HIDE DEF entry
  <2>1. QED BY <1>3, ReceivedEntry
<1>5. IpInfo(h, a, kind) = IF kind = "arp" THEN Received(entry) ELSE entry
  BY DEF IpInfo
<1>6. CASE kind = "arp"
  <2>1. IpInfo(h, a, kind) = Received(entry)
    BY <1>5, <1>6
  <2> HIDE DEF entry
  <2>2. QED BY <1>4, <1>6, <2>1, Constants
<1>7. CASE kind # "arp"
  <2>1. IpInfo(h, a, kind) = entry
    BY <1>5, <1>7
  <2> HIDE DEF entry
  <2>2. QED BY <1>3, <1>7, <2>1
<1>8. QED BY <1>6, <1>7

LEMMA PacketInKeepsInv ==
    ASSUME TrackerInv, NEW h \in Hosts, PacketIn(h)
    PROVE  TrackerInv'
<1>1. /\ known \subseteq Hosts /\ known' = known \cup {h} /\ timer' = timer
      /\ age \in [Hosts -> 0..ArpAware + 1] /\ age' = [age EXCEPT ![h] = 0]
  BY DEF TrackerInv, TypeOK, PacketIn
<1>2. /\ age' \in [Hosts -> 0..ArpAware + 1] /\ age'[h] = 0
      /\ \A g \in Hosts \ {h} : age'[g] = age[g]
  BY <1>1, Constants
<1>3. CASE UNCHANGED <<ips, asked>>
  <2>1. TypeOK'
    BY <1>1, <1>2, <1>3 DEF TrackerInv, TypeOK
  <2>2. EntryOlder'
    <3>1. ASSUME NEW g \in known', NEW a \in DOMAIN ips[g]
          PROVE  age'[g] <= ips[g][a].age \/ ips[g][a].age > ArpSilent
      <4>1. CASE g = h
        <5>1. ips[g][a] \in IpEntries
          BY <1>1, <3>1 DEF TrackerInv, TypeOK
        <5>2. QED BY <1>2, <4>1, <5>1 DEF IpEntries
      <4>2. CASE g # h
        BY <1>1, <1>2, <3>1, <4>2 DEF TrackerInv, EntryOlder
      <4>3. QED BY <4>1, <4>2
    <3>2. QED BY <1>3, <3>1 DEF EntryOlder
  <2>3. QED BY <1>1, <1>3, <2>1, <2>2
            DEF TrackerInv, CountedTwice, InFlight, AnsweredInTime
<1>4. ASSUME NEW a \in Owns[h], NEW kind \in {"arp", "ip", "other"},
             ips' = [ips EXCEPT ![h] = With(h, a, IpInfo(h, a, kind))],
             asked' = IF kind = "arp" THEN asked \ {<<h, a>>} ELSE asked
      PROVE  TrackerInv'
  <2> DEFINE entry == IpInfo(h, a, kind)
  <2>1. /\ entry \in IpEntries /\ entry.age = 0 /\ entry.pending = 2 * entry.tries
        /\ entry.pending # 0 => kind # "arp" /\ a \in DOMAIN ips[h] /\ ips[h][a].pending # 0
    BY RefreshedEntry DEF TrackerInv
  <2> HIDE DEF entry
  <2>2. /\ DOMAIN ips = Hosts
        /\ \A g \in Hosts : DOMAIN ips[g] \subseteq Owns[g]
        /\ \A g \in Hosts : \A x \in DOMAIN ips[g] : ips[g][x] \in IpEntries
        /\ \A g \in Hosts \ known : DOMAIN ips[g] = {}
    BY DEF TrackerInv, TypeOK
  <2>3. /\ DOMAIN ips' = Hosts
        /\ \A g \in Hosts \ {h} : ips'[g] = ips[g]
        /\ DOMAIN ips'[h] = DOMAIN ips[h] \cup {a}
        /\ \A x \in DOMAIN ips'[h] : ips'[h][x] = IF x = a THEN entry ELSE ips[h][x]
    BY <1>4, <2>2 DEF With, entry
  <2>4. TypeOK'
    <3>1. \A g \in Hosts : DOMAIN ips'[g] \subseteq Owns[g]
      BY <2>2, <2>3
    <3>2. \A g \in Hosts : \A x \in DOMAIN ips'[g] : ips'[g][x] \in IpEntries
      BY <2>1, <2>2, <2>3
    <3>3. \A g \in Hosts \ known' : DOMAIN ips'[g] = {}
      BY <1>1, <2>2, <2>3
    <3>4. asked' \subseteq Hosts \X Addresses /\ timer \in {"waiting", "due", "dead"}
      BY <1>4 DEF TrackerInv, TypeOK
    <3>5. QED BY <1>1, <1>2, <2>3, <3>1, <3>2, <3>3, <3>4 DEF TypeOK
  <2>5. EntryOlder'
    <3>1. ASSUME NEW g \in known', NEW x \in DOMAIN ips'[g]
          PROVE  age'[g] <= ips'[g][x].age \/ ips'[g][x].age > ArpSilent
      <4>1. CASE g = h
        <5>1. ips'[h][x] \in IpEntries
          BY <2>1, <2>2, <2>3, <3>1, <4>1
        <5>2. QED BY <1>2, <4>1, <5>1 DEF IpEntries
      <4>2. CASE g # h
        BY <1>1, <1>2, <2>3, <3>1, <4>2 DEF TrackerInv, EntryOlder
      <4>3. QED BY <4>1, <4>2
    <3>2. QED BY <3>1 DEF EntryOlder
  <2>6. CountedTwice'
    BY <2>1, <2>3 DEF TrackerInv, CountedTwice
  <2>7. InFlight'
    <3>1. ASSUME NEW g \in Responsive, NEW x \in DOMAIN ips'[g], ips'[g][x].pending # 0
          PROVE  <<g, x>> \in asked'
      <4>1. g \in Hosts
        BY Constants DEF Responsive
      <4>2. CASE g = h /\ x = a
        <5>1. kind # "arp" /\ a \in DOMAIN ips[h] /\ ips[h][a].pending # 0
          BY <2>1, <2>3, <3>1, <4>2
        <5>2. QED BY <1>4, <4>2, <5>1 DEF TrackerInv, InFlight
      <4>3. CASE ~ (g = h /\ x = a)
        <5>1. x \in DOMAIN ips[g] /\ ips'[g][x] = ips[g][x]
          BY <2>3, <3>1, <4>1, <4>3
        <5>2. <<g, x>> \in asked
          BY <3>1, <5>1 DEF TrackerInv, InFlight
        <5>3. QED BY <1>4, <4>3, <5>2
      <4>4. QED BY <4>2, <4>3
    <3>2. QED BY <3>1 DEF InFlight
  <2>8. AnsweredInTime'
    BY <1>1, <1>4 DEF TrackerInv, AnsweredInTime
  <2>9. QED BY <2>4, <2>5, <2>6, <2>7, <2>8 DEF TrackerInv
<1>5. QED
  <2>1. CASE UNCHANGED <<ips, timer, asked>>
    BY <1>3, <2>1
  <2>2. CASE \E kind \in Kinds[h] \ {"other"}, a \in Owns[h] :
               /\ ips' = [ips EXCEPT ![h] = With(h, a, IpInfo(h, a, kind))]
               /\ asked' = IF kind = "arp" THEN asked \ {<<h, a>>} ELSE asked
    <3>1. PICK kind \in Kinds[h] \ {"other"}, a \in Owns[h] :
             /\ ips' = [ips EXCEPT ![h] = With(h, a, IpInfo(h, a, kind))]
             /\ asked' = IF kind = "arp" THEN asked \ {<<h, a>>} ELSE asked
      BY <2>2
    <3>2. kind \in {"arp", "ip", "other"}
      BY HostTrackerAssumption
    <3>3. QED BY <1>4, <3>1, <3>2
  <2>3. QED BY <2>1, <2>2 DEF PacketIn

LEMMA TickKeepsInv ==
    ASSUME TrackerInv, Tick
    PROVE  TrackerInv'
<1>1. /\ known' = known /\ asked' = asked
      /\ age \in [Hosts -> 0..ArpAware + 1] /\ DOMAIN ips = Hosts
      /\ age' = [h \in Hosts |-> IF h \in known THEN Older(age[h], ArpAware) ELSE 0]
      /\ \A h \in Hosts : \A a \in DOMAIN ips[h] : ips[h][a] \in IpEntries
  BY DEF TrackerInv, TypeOK, Tick
<1>2. /\ DOMAIN ips' = Hosts
      /\ \A h \in Hosts : DOMAIN ips'[h] = DOMAIN ips[h]
      /\ \A h \in Hosts : \A a \in DOMAIN ips[h] :
           ips'[h][a] = [ips[h][a] EXCEPT !.age = Older(@, ArpSilent)]
  BY DEF Tick
<1>3. age' \in [Hosts -> 0..ArpAware + 1]
  BY <1>1, Constants DEF Older
<1>4. ASSUME NEW h \in Hosts, NEW a \in DOMAIN ips[h]
      PROVE  /\ ips'[h][a] \in IpEntries
             /\ ips'[h][a].pending = ips[h][a].pending /\ ips'[h][a].tries = ips[h][a].tries
             /\ ips'[h][a].age = Older(ips[h][a].age, ArpSilent)
  <2>1. ips[h][a] \in IpEntries /\ ips'[h][a] = [ips[h][a] EXCEPT !.age = Older(@, ArpSilent)]
    BY <1>1, <1>2
  <2>2. QED BY <2>1, Constants DEF IpEntries, Older
<1>5. TypeOK'
  <2>1. timer' \in {"waiting", "due", "dead"} /\ known' \subseteq Hosts
        /\ asked' \subseteq Hosts \X Addresses
    BY DEF TrackerInv, TypeOK, Tick
  <2>2. \A h \in Hosts : DOMAIN ips'[h] \subseteq Owns[h] /\ (h \notin known' => DOMAIN ips'[h] = {})
    BY <1>1, <1>2 DEF TrackerInv, TypeOK
  <2>3. QED BY <1>2, <1>3, <1>4, <2>1, <2>2 DEF TypeOK
<1>6. EntryOlder'
  <2>1. ASSUME NEW h \in known, NEW a \in DOMAIN ips[h]
        PROVE  age'[h] <= ips'[h][a].age \/ ips'[h][a].age > ArpSilent
    <3>1. h \in Hosts
      BY <2>1 DEF TrackerInv, TypeOK
    <3>2. age[h] <= ips[h][a].age \/ ips[h][a].age > ArpSilent
      BY <2>1 DEF TrackerInv, EntryOlder
    <3>3. age'[h] = Older(age[h], ArpAware) /\ age[h] \in 0..ArpAware + 1
      BY <1>1, <2>1, <3>1
    <3>4. ips'[h][a].age = Older(ips[h][a].age, ArpSilent) /\ ips[h][a].age \in 0..ArpSilent + 1
      BY <1>1, <1>4, <3>1 DEF IpEntries
    <3>5. QED BY <3>2, <3>3, <3>4, Constants DEF Older
  <2>2. known \subseteq Hosts
    BY DEF TrackerInv, TypeOK
  <2>3. QED BY <1>1, <1>2, <2>1, <2>2 DEF EntryOlder
<1>7. CountedTwice'
  BY <1>2, <1>4 DEF TrackerInv, CountedTwice
<1>8. InFlight'
  BY <1>1, <1>2, <1>4, Constants DEF TrackerInv, InFlight, Responsive
<1>9. AnsweredInTime'
  BY DEF Tick, AnsweredInTime
<1>10. QED BY <1>5, <1>6, <1>7, <1>8, <1>9 DEF TrackerInv

-----------------------------------------------------------------------------
(* The periodic check. *)

\* What becomes of the addresses of a host that is checked.
LEMMA KeptEntries ==
    ASSUME TrackerInv, NEW h \in Hosts, NEW up, NEW a \in DOMAIN Kept(h, up)
    PROVE  /\ a \in DOMAIN ips[h]
           /\ Kept(h, up)[a] \in IpEntries
           /\ Kept(h, up)[a].age = ips[h][a].age
           /\ Kept(h, up)[a].pending = 2 * Kept(h, up)[a].tries
           /\ a \notin Pinged(h) => Kept(h, up)[a] = ips[h][a]
           /\ a \in Pinged(h) => h \in up
<1>1. /\ a \in DOMAIN ips[h] \ (IF h \in up THEN Forgotten(h) ELSE Expired(h))
      /\ Kept(h, up)[a] = IF a \in Pinged(h) THEN PingSent(ips[h][a]) ELSE ips[h][a]
  BY DEF Kept
<1>2. ips[h][a] \in IpEntries /\ ips[h][a].pending = 2 * ips[h][a].tries
  BY <1>1 DEF TrackerInv, TypeOK, CountedTwice
<1>3. CASE a \in Pinged(h)
  <2>1. h \in up /\ ~ (ips[h][a].pending > PingLim)
    BY <1>1, <1>3 DEF Pinged, Forgotten, Failed
  <2>2. /\ PingSent(ips[h][a]) \in IpEntries
        /\ PingSent(ips[h][a]).age = ips[h][a].age
        /\ PingSent(ips[h][a]).pending = 2 * PingSent(ips[h][a]).tries
    BY <1>2, <2>1, PingSentEntry DEF Failed
  <2>3. QED BY <1>1, <1>3, <2>1, <2>2
<1>4. CASE a \notin Pinged(h)
  BY <1>1, <1>2, <1>4
<1>5. QED BY <1>3, <1>4

\* The case split of Check, host by host.
LEMMA CheckedHost ==
    ASSUME TrackerInv, NEW done \in SUBSET known, NEW crashed \in SUBSET (known \ done),
           NEW up, NEW last, Check(done, crashed, up, last), NEW h \in Hosts
    PROVE  /\ h \in done /\ Leaves(h) => ips'[h] = NoAddresses
           /\ h \in done /\ ~ Leaves(h) => ips'[h] = Kept(h, up)
           /\ h \in crashed => \A a \in DOMAIN ips'[h] :
                a \in DOMAIN Kept(h, up) /\ ips'[h][a] = Kept(h, up)[a]
           /\ h \notin done \cup crashed => ips'[h] = ips[h]
<1> DEFINE left == { x \in done : Leaves(x) }
           kept == [x \in Hosts |-> Kept(x, up)]
<1>1. ips' = [x \in Hosts |->
         CASE x \in left        -> NoAddresses
           [] x \in done \ left -> kept[x]
           [] x \in crashed     -> [a \in DOMAIN kept[x] \ {last} |-> kept[x][a]]
           [] OTHER             -> ips[x]]
  BY DEF Check
<1>2. kept[h] = Kept(h, up)
  OBVIOUS
<1>3. h \in left <=> h \in done /\ Leaves(h)
  OBVIOUS
<1> HIDE DEF left, kept
<1>4. h \in left => ips'[h] = NoAddresses
  BY <1>1, <1>3
<1>5. h \in crashed => ips'[h] = [a \in DOMAIN kept[h] \ {last} |-> kept[h][a]]
  BY <1>1, <1>3
<1>6. h \in done \ left => ips'[h] = kept[h]
  BY <1>1
<1>7. h \notin done \cup crashed => ips'[h] = ips[h]
  BY <1>1, <1>3
<1>8. QED BY <1>2, <1>3, <1>4, <1>5, <1>6, <1>7

LEMMA CheckKeepsInv ==
    ASSUME TrackerInv, NEW done \in SUBSET known, NEW crashed \in SUBSET (known \ done),
           NEW up \in SUBSET Hosts, Hosts \ MayDetach \subseteq up, NEW last,
           Check(done, crashed, up, last), \A h \in crashed : Pinged(h) = {},
           timer' \in {"waiting", "dead"}
    PROVE  TrackerInv'
<1> DEFINE left == { h \in done : Leaves(h) }
<1>1. /\ known \subseteq Hosts /\ known' = known \ left
      /\ age \in [Hosts -> 0..ArpAware + 1]
      /\ age' = [h \in Hosts |-> IF h \in left THEN 0 ELSE age[h]]
      /\ asked' = { q \in asked : q[1] \notin left }
           \cup { q \in (done \cap up) \X Addresses : q[2] \in Pinged(q[1]) }
      /\ asked \subseteq Hosts \X Addresses /\ DOMAIN ips' = Hosts
  BY DEF TrackerInv, TypeOK, Check
\* An address that remains: where its entry comes from.
<1>0. ASSUME NEW h \in Hosts
      PROVE  /\ h \in done /\ Leaves(h) => ips'[h] = NoAddresses
             /\ h \in done /\ ~ Leaves(h) => ips'[h] = Kept(h, up)
             /\ h \in crashed => \A a \in DOMAIN ips'[h] :
                  a \in DOMAIN Kept(h, up) /\ ips'[h][a] = Kept(h, up)[a]
             /\ h \notin done \cup crashed => ips'[h] = ips[h]
  BY CheckedHost
<1>2. ASSUME NEW h \in Hosts, NEW a \in DOMAIN ips'[h]
      PROVE  /\ h \notin left /\ a \in DOMAIN ips[h]
             /\ ips'[h][a] \in IpEntries
             /\ ips'[h][a].age = ips[h][a].age
             /\ ips'[h][a].pending = 2 * ips'[h][a].tries
             /\ ips'[h][a] = ips[h][a] \/ (h \in done \cap up /\ a \in Pinged(h))
  <2>1. CASE h \in done
    <3>1. ~ Leaves(h)
      <4>1. ips'[h] # NoAddresses
        BY <1>2 DEF NoAddresses
      <4>2. QED BY <2>1, <4>1, <1>0
    <3>2. ips'[h] = Kept(h, up)
      BY <2>1, <3>1, <1>0
    <3>3. QED BY <1>2, <2>1, <3>1, <3>2, KeptEntries
  <2>2. CASE h \in crashed
    <3>1. /\ h \notin done /\ a \in DOMAIN Kept(h, up)
          /\ ips'[h][a] = Kept(h, up)[a]
      BY <1>2, <2>2, <1>0
    <3>2. a \notin Pinged(h)
      BY <2>2
    <3>3. QED BY <3>1, <3>2, KeptEntries
  <2>3. CASE h \notin done \cup crashed
    <3>1. ips'[h] = ips[h]
      BY <2>3, <1>0
    <3>2. QED BY <1>2, <2>3, <3>1 DEF TrackerInv, TypeOK, CountedTwice
  <2>4. QED BY <2>1, <2>2, <2>3
<1> HIDE DEF left
<1>3. TypeOK'
  <2>1. age' \in [Hosts -> 0..ArpAware + 1]
    BY <1>1, Constants
  <2>2. asked' \subseteq Hosts \X Addresses
    BY <1>1
  <2>3. \A h \in Hosts : DOMAIN ips'[h] \subseteq Owns[h]
    BY <1>2 DEF TrackerInv, TypeOK
  <2>4. \A h \in Hosts \ known' : DOMAIN ips'[h] = {}
    BY <1>1, <1>2 DEF TrackerInv, TypeOK
  <2>5. QED BY <1>1, <1>2, <2>1, <2>2, <2>3, <2>4 DEF TypeOK
<1>4. EntryOlder'
  <2>1. ASSUME NEW h \in known', NEW a \in DOMAIN ips'[h]
        PROVE  age'[h] <= ips'[h][a].age \/ ips'[h][a].age > ArpSilent
    <3>1. h \in Hosts /\ h \in known /\ age'[h] = age[h]
      BY <1>1, <2>1
    <3>2. a \in DOMAIN ips[h] /\ ips'[h][a].age = ips[h][a].age
      BY <1>2, <2>1, <3>1
    <3>3. QED BY <3>1, <3>2 DEF TrackerInv, EntryOlder
  <2>2. QED BY <2>1 DEF EntryOlder
<1>5. CountedTwice'
  BY <1>2 DEF CountedTwice
<1>6. InFlight'
  <2>1. ASSUME NEW h \in Responsive, NEW a \in DOMAIN ips'[h], ips'[h][a].pending # 0
        PROVE  <<h, a>> \in asked'
    <3>1. h \in Hosts
      BY Constants DEF Responsive
    <3>2. h \notin left /\ a \in DOMAIN ips[h]
          /\ (ips'[h][a] = ips[h][a] \/ (h \in done \cap up /\ a \in Pinged(h)))
      BY <1>2, <2>1, <3>1
    <3>3. CASE ips'[h][a] = ips[h][a]
      <4>1. <<h, a>> \in asked
        BY <2>1, <3>2, <3>3 DEF TrackerInv, InFlight
      <4>2. QED BY <1>1, <3>2, <4>1
    <3>4. CASE h \in done \cap up /\ a \in Pinged(h)
      <4>1. a \in Addresses
        BY <3>1, <3>2, Constants DEF TrackerInv, TypeOK
      <4>2. QED BY <1>1, <3>4, <4>1
    <3>5. QED BY <3>2, <3>3, <3>4
  <2>2. QED BY <2>1 DEF InFlight
<1>7. AnsweredInTime'
  BY DEF AnsweredInTime
<1>8. QED BY <1>3, <1>4, <1>5, <1>6, <1>7 DEF TrackerInv

-----------------------------------------------------------------------------
\* The two ways in which the timer's task checks hosts.
CheckStep(done, crashed, up, last) ==
    /\ timer = "due"
    /\ done \in SUBSET known /\ crashed \in SUBSET (known \ done)
    /\ up \in SUBSET Hosts /\ Hosts \ MayDetach \subseteq up
    /\ Check(done, crashed, up, last)
    /\ \A h \in crashed : Pinged(h) = {}
    /\ timer' \in {"waiting", "dead"}
    /\ timer' = "waiting" => done = known /\ crashed = {}

LEMMA NextCases ==
    ASSUME TrackerInv, [Next]_vars
    PROVE  \/ UNCHANGED vars
           \/ \E h \in Hosts : PacketIn(h)
           \/ Tick
           \/ \E done, crashed, up, last : CheckStep(done, crashed, up, last)
<1>1. ASSUME NEW up \in SUBSET Hosts, Hosts \ MayDetach \subseteq up, CheckTimeouts(up)
      PROVE  \E done, crashed, u, last : CheckStep(done, crashed, u, last)
  <2>1. CheckStep(known, {}, up, {})
    BY <1>1 DEF CheckTimeouts, CheckStep
  <2>2. QED BY <2>1
<1>2. ASSUME NEW up \in SUBSET Hosts, Hosts \ MayDetach \subseteq up, CheckFails(up)
      PROVE  \E done, crashed, u, last : CheckStep(done, crashed, u, last)
  <2>1. PICK h \in known : \E last \in DOMAIN ips[h], done \in SUBSET (known \ {h}) :
          Raises(h, up, last) /\ Check(done, {h}, up, last)
    BY <1>2 DEF CheckFails
  <2>2. PICK last : \E done \in SUBSET (known \ {h}) :
          Raises(h, up, last) /\ Check(done, {h}, up, last)
    BY <2>1, Zenon
  <2>3. PICK done \in SUBSET (known \ {h}) :
          Raises(h, up, last) /\ Check(done, {h}, up, last)
    BY <2>2
  <2>4. timer = "due" /\ timer' = "dead"
    BY <1>2 DEF CheckFails
  <2>5. CheckStep(done, {h}, up, last)
    BY <1>2, <2>3, <2>4 DEF CheckStep, Raises, Leaves
  <2>6. QED BY <2>5
<1>3. QED BY <1>1, <1>2 DEF Next

LEMMA TrackerInvInit == Init => TrackerInv
  BY HostTrackerAssumption
     DEF Init, TrackerInv, TypeOK, EntryOlder, CountedTwice, InFlight, AnsweredInTime,
         NoAddresses, Responsive

LEMMA TrackerInvNext == TrackerInv /\ [Next]_vars => TrackerInv'
<1> SUFFICES ASSUME TrackerInv, [Next]_vars PROVE TrackerInv'
  OBVIOUS
<1>1. CASE UNCHANGED vars
  BY <1>1 DEF vars, TrackerInv, TypeOK, EntryOlder, CountedTwice, InFlight, AnsweredInTime
<1>2. CASE \E h \in Hosts : PacketIn(h)
  BY <1>2, PacketInKeepsInv
<1>3. CASE Tick
  BY <1>3, TickKeepsInv
<1>4. CASE \E done, crashed, up, last : CheckStep(done, crashed, up, last)
  <2>1. PICK done, crashed, up, last : CheckStep(done, crashed, up, last)
    BY <1>4
  <2>2. QED BY <2>1, CheckKeepsInv DEF CheckStep
<1>5. QED BY <1>1, <1>2, <1>3, <1>4, NextCases

\* A responsive host that was learned from ARP has an unanswered ping or is
\* young when the timer is due, and does not leave.
LEMMA ResponsiveStays ==
    ASSUME TrackerInv, timer = "due", NEW h \in known, h \in Responsive,
           NEW a \in DOMAIN ips[h], ips[h][a].hasARP
    PROVE  ~ Leaves(h)
<1> SUFFICES ASSUME Leaves(h) PROVE FALSE
  OBVIOUS
<1>1. h \in Hosts /\ age[h] \in Nat /\ age[h] > ArpAware /\ Pinged(h) = {}
  BY DEF TrackerInv, TypeOK, Leaves
<1>2. ips[h][a] \in IpEntries
  BY <1>1 DEF TrackerInv, TypeOK
<1>3. age[h] <= ips[h][a].age \/ ips[h][a].age > ArpSilent
  BY DEF TrackerInv, EntryOlder
<1>4. ips[h][a].age > ArpAware
  BY <1>1, <1>2, <1>3, Constants DEF IpEntries
<1>5. a \in Expired(h)
  BY <1>4 DEF Expired, Interval
<1>6. ips[h][a].pending > PingLim
  BY <1>1, <1>5 DEF Pinged, Forgotten, Failed
<1>7. ips[h][a].pending # 0
  BY <1>6, Constants
<1>8. <<h, a>> \in asked /\ h \in Answering
  BY <1>7 DEF TrackerInv, InFlight, Responsive
<1>9. QED BY <1>8 DEF TrackerInv, AnsweredInTime

\* A host that answers every ping, whose switch can be reached and that was
\* learned from ARP is never forgotten (_check_timeouts), whatever it sends
\* and whatever other hosts do.
THEOREM AnsweringHostsStay == Spec => AnsweringStays
<1>1. ASSUME TrackerInv, [Next]_vars, NEW h \in known, h \in Responsive,
             \E a \in DOMAIN ips[h] : ips[h][a].hasARP
      PROVE  h \in known'
  <2>1. CASE UNCHANGED vars
    BY <2>1 DEF vars
  <2>2. CASE \E g \in Hosts : PacketIn(g)
    BY <2>2 DEF PacketIn
  <2>3. CASE Tick
    BY <2>3 DEF Tick
  <2>4. CASE \E done, crashed, up, last : CheckStep(done, crashed, up, last)
    <3>1. PICK done, crashed, up, last : CheckStep(done, crashed, up, last)
      BY <2>4
    <3>2. timer = "due" /\ known' = known \ { x \in done : Leaves(x) }
      BY <3>1 DEF CheckStep, Check
    <3>3. ~ Leaves(h)
      BY <1>1, <3>2, ResponsiveStays
    <3>4. QED BY <3>2, <3>3
  <2>5. QED BY <1>1, <2>1, <2>2, <2>3, <2>4, NextCases
<1>2. TrackerInv /\ [Next]_vars =>
        [\A h \in known \cap (Answering \ MayDetach) :
           (\E a \in DOMAIN ips[h] : ips[h][a].hasARP) => h \in known']_vars
  BY <1>1 DEF Responsive
<1>3. QED BY <1>2, TrackerInvInit, TrackerInvNext, PTL DEF Spec, AnsweringStays

\* An address of a reachable host is given up (_check_timeouts) only with more
\* than pingLim / 2 pings that were not answered.
THEOREM GivenUpAfterPings == Spec => GivenUpUnanswered
<1>1. ASSUME TrackerInv, [Next]_vars, timer' # "dead", NEW h \in known', h \notin MayDetach,
             NEW a \in DOMAIN ips[h] \ DOMAIN ips'[h]
      PROVE  2 * ips[h][a].tries > PingLim
  <2>1. CASE UNCHANGED vars
    <3>1. ips' = ips
      BY <2>1 DEF vars
    <3>2. QED BY <1>1, <3>1
  <2>2. CASE \E g \in Hosts : PacketIn(g)
    <3>1. PICK g \in Hosts : PacketIn(g)
      BY <2>2
    <3>2. h \in Hosts /\ DOMAIN ips = Hosts
      BY <1>1, <3>1 DEF PacketIn, TrackerInv, TypeOK
    <3>3. DOMAIN ips[h] \subseteq DOMAIN ips'[h]
      <4>1. CASE ips' = ips
        BY <4>1
      <4>2. CASE \E x, entry : ips' = [ips EXCEPT ![g] = With(g, x, entry)]
        BY <3>2, <4>2 DEF With
      <4>3. QED BY <3>1, <4>1, <4>2 DEF PacketIn
    <3>4. QED BY <1>1, <3>3
  <2>3. CASE Tick
    BY <1>1, <2>3 DEF Tick, TrackerInv, TypeOK
  <2>4. CASE \E done, crashed, up, last : CheckStep(done, crashed, up, last)
    <3>1. PICK done, crashed, up, last : CheckStep(done, crashed, up, last)
      BY <2>4
    <3>2. done = known /\ crashed = {} /\ Hosts \ MayDetach \subseteq up
          /\ Check(known, {}, up, last)
      BY <1>1, <3>1 DEF CheckStep
    <3>3. known' = known \ { x \in done : Leaves(x) } /\ known \subseteq Hosts
      <4>1. known' = known \ { x \in done : Leaves(x) }
        BY <3>1 DEF CheckStep, Check
      <4>2. QED BY <1>1, <4>1 DEF TrackerInv, TypeOK
    <3>4. h \in known /\ h \in Hosts /\ h \in up /\ ~ Leaves(h)
      BY <1>1, <3>2, <3>3
    <3>5. ips'[h] = Kept(h, up)
      <4>1. known \in SUBSET known /\ {} \in SUBSET (known \ known)
        OBVIOUS
      <4>2. QED BY <1>1, <3>2, <3>4, <4>1, CheckedHost
    <3>6. a \in Forgotten(h)
      BY <1>1, <3>4, <3>5 DEF Kept
    <3>7. ips[h][a].pending > PingLim /\ ips[h][a].pending = 2 * ips[h][a].tries
      <4>1. a \in DOMAIN ips[h] /\ ips[h][a].pending > PingLim
        BY <3>6 DEF Forgotten, Expired, Failed
      <4>2. QED BY <1>1, <3>4, <4>1 DEF TrackerInv, CountedTwice
    <3>8. QED BY <3>7
  <2>5. QED BY <1>1, <2>1, <2>2, <2>3, <2>4, NextCases
<1>2. TrackerInv /\ [Next]_vars =>
        [timer' # "dead" =>
           \A h \in known' \ MayDetach : \A a \in DOMAIN ips[h] \ DOMAIN ips'[h] :
             2 * ips[h][a].tries > PingLim]_vars
  BY <1>1
<1>3. QED BY <1>2, TrackerInvInit, TrackerInvNext, PTL DEF Spec, GivenUpUnanswered
=============================================================================
