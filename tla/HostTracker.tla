---------------------------- MODULE HostTracker -----------------------------
(***************************************************************************)
(* The clockwork of the host tracker (pox/host_tracker/host_tracker.py):   *)
(* MAC entries with their IP entries, the ARP pings that check on them and *)
(* the timer that forgets them.  Platform has the other half: where a host *)
(* is and what the controller makes of its HostEvents.                     *)
(*                                                                         *)
(* Time goes in steps of timerInterval, and an age is a number of them.    *)
(***************************************************************************)
EXTENDS Integers, FiniteSets

CONSTANTS
    Hosts, Addresses,  \* MAC and IP addresses
    Owns,              \* Owns[h]: the addresses h sends from
    Kinds,             \* Kinds[h]: the packets h sends: "arp", "ip", "other"
    Answering,         \* hosts that answer every ping before the next check
    MayDetach,         \* hosts whose switch may have no session
    ArpAware,          \* timeoutSec, in steps
    ArpSilent,
    PingLim            \* PingCtrl.pingLim

ASSUME HostTrackerAssumption ==
    /\ Owns \in [Hosts -> SUBSET Addresses]
    /\ Kinds \in [Hosts -> SUBSET {"arp", "ip", "other"}]
    /\ Answering \subseteq Hosts /\ MayDetach \subseteq Hosts
    /\ ArpAware \in Nat /\ ArpSilent \in Nat /\ ArpAware < ArpSilent
    /\ PingLim \in Nat

VARIABLES
    known,  \* hosts with an entry in entryByMAC
    age,    \* time since lastTimeSeen of each MAC entry
    ips,    \* macEntry.ipAddrs
    timer,  \* the recurring Timer: waiting, due, or dead of an exception
    asked   \* pings that await their answer

vars == <<known, age, ips, timer, asked>>

\* tries is history: the pings sent since the last answer.
IpEntries == [age: 0..ArpSilent + 1, hasARP: BOOLEAN, pending: 0..PingLim + 2, tries: Nat]

TypeOK ==
    /\ known \subseteq Hosts
    /\ age \in [Hosts -> 0..ArpAware + 1]
    /\ DOMAIN ips = Hosts
    /\ \A h \in Hosts : /\ DOMAIN ips[h] \subseteq Owns[h]
                        /\ \A a \in DOMAIN ips[h] : ips[h][a] \in IpEntries
                        /\ h \notin known => DOMAIN ips[h] = {}
    /\ timer \in {"waiting", "due", "dead"}
    /\ asked \subseteq Hosts \X Addresses

NoAddresses == [a \in {} |-> {}]

Init ==
    /\ known = {}
    /\ age = [h \in Hosts |-> 0]
    /\ ips = [h \in Hosts |-> NoAddresses]
    /\ timer = "waiting"
    /\ asked = {}

-----------------------------------------------------------------------------
Interval(entry) == IF entry.hasARP THEN ArpAware ELSE ArpSilent

\* Slip: an answer leaves the count of pings as it is.
NotReceived(entry) == [entry EXCEPT !.tries = 0]

\* PingCtrl.received.
Received(entry) == [entry EXCEPT !.pending = 0, !.tries = 0]

\* updateIPInfo: the entry of an address after a packet that carries it.
\* hasARP stays what it was when the address was learned.
IpInfo(h, a, kind) ==
    LET entry == IF a \in DOMAIN ips[h] THEN [ips[h][a] EXCEPT !.age = 0]
                 ELSE [age |-> 0, hasARP |-> kind = "arp", pending |-> 0, tries |-> 0]
    IN  IF kind = "arp" THEN Received(entry) ELSE entry

\* The entries of h with that of a set to entry.
With(h, a, entry) ==
    [x \in DOMAIN ips[h] \cup {a} |-> IF x = a THEN entry ELSE ips[h][x]]

\* _handle_openflow_PacketIn: the host joins, or is refreshed.  Answers to
\* pings come this way too.
PacketIn(h) ==
    \/ /\ "other" \in Kinds[h]
       /\ known' = known \cup {h}
       /\ age' = [age EXCEPT ![h] = 0]
       /\ UNCHANGED <<ips, timer, asked>>
    \/ \E kind \in Kinds[h] \ {"other"}, a \in Owns[h] :
         /\ known' = known \cup {h}
         /\ age' = [age EXCEPT ![h] = 0]
         /\ ips' = [ips EXCEPT ![h] = With(h, a, IpInfo(h, a, kind))]
         /\ asked' = IF kind = "arp" THEN asked \ {<<h, a>>} ELSE asked
         /\ UNCHANGED timer

\* Ages are counted up to the first that is past every interval.
Older(n, interval) == IF n > interval THEN n ELSE n + 1

\* A step of time.  A host that answers does so within arpReply, which is
\* shorter.
Tick ==
    /\ timer # "due"
    /\ \A q \in asked : q[1] \notin Answering
    /\ age' = [h \in Hosts |-> IF h \in known THEN Older(age[h], ArpAware) ELSE 0]
    /\ ips' = [h \in Hosts |-> [a \in DOMAIN ips[h] |->
                 [ips[h][a] EXCEPT !.age = Older(@, ArpSilent)]]]
    /\ timer' = IF timer = "dead" THEN "dead" ELSE "due"
    /\ UNCHANGED <<known, asked>>

-----------------------------------------------------------------------------
(* _check_timeouts for one host; up has those whose switch is up. *)

\* PingCtrl.failed.
Failed(entry) == entry.pending > PingLim

Expired(h)    == { a \in DOMAIN ips[h] : ips[h][a].age > Interval(ips[h][a]) }
Forgotten(h)  == { a \in Expired(h) : Failed(ips[h][a]) }
Pinged(h)     == Expired(h) \ Forgotten(h)

\* Slip: neither of the two counts the ping.
PingUncounted(entry) == entry

\* Both sendPing and its caller count the ping.
PingSent(entry) == [entry EXCEPT !.pending = @ + 2, !.tries = @ + 1]

\* A ping that cannot be sent deletes the address.
Kept(h, up) ==
    [a \in DOMAIN ips[h] \ (IF h \in up THEN Forgotten(h) ELSE Expired(h)) |->
       IF a \in Pinged(h) THEN PingSent(ips[h][a]) ELSE ips[h][a]]

Leaves(h) == age[h] > ArpAware /\ Pinged(h) = {}

\* The loop over the addresses that are left deletes ip_addr each time, the
\* last address of the loop before it.  Only one address, and that one, can
\* be deleted so; the order of the dictionary decides which one is the last.
CanLeave(h, up)      == Leaves(h) => Cardinality(DOMAIN Kept(h, up)) <= 1
Raises(h, up, last)  == Leaves(h) /\ DOMAIN Kept(h, up) \notin {{}, {last}}

\* The hosts in done are checked, and crashed is left in the middle.
Check(done, crashed, up, last) ==
    LET left == { h \in done : Leaves(h) }
        kept == [h \in Hosts |-> Kept(h, up)]
    IN  /\ known' = known \ left
        /\ age' = [h \in Hosts |-> IF h \in left THEN 0 ELSE age[h]]
        /\ ips' = [h \in Hosts |->
             CASE h \in left        -> NoAddresses
               [] h \in done \ left -> kept[h]
               [] h \in crashed     -> [a \in DOMAIN kept[h] \ {last} |-> kept[h][a]]
               [] OTHER             -> ips[h]]
        /\ asked' = { q \in asked : q[1] \notin left }
             \cup { q \in (done \cap up) \X Addresses : q[2] \in Pinged(q[1]) }

\* All hosts are checked.
CheckTimeouts(up) ==
    /\ timer = "due"
    /\ \A h \in known : CanLeave(h, up)
    /\ Check(known, {}, up, {})
    /\ timer' = "waiting"

\* A host raises KeyError: those after it are not checked, and the timer's
\* task ends.
CheckFails(up) ==
    /\ timer = "due"
    /\ \E h \in known : \E last \in DOMAIN ips[h], done \in SUBSET (known \ {h}) :
         /\ Raises(h, up, last)
         /\ \A x \in done : CanLeave(x, up)
         /\ Check(done, {h}, up, last)
    /\ timer' = "dead"

Next ==
    \/ \E h \in Hosts : PacketIn(h)
    \/ Tick
    \/ \E up \in SUBSET Hosts :
         /\ Hosts \ MayDetach \subseteq up
         /\ CheckTimeouts(up) \/ CheckFails(up)

Spec == Init /\ [][Next]_vars

\* h answers a ping.
Answers(h) == PacketIn(h) /\ \E a \in Owns[h] : <<h, a>> \in asked \ asked'

\* Time passes, the timer's task runs, and hosts that answer do; nothing is
\* assumed of the others.
FairSpec ==
    /\ Spec
    /\ WF_vars(Tick) /\ WF_vars(Next /\ timer = "due" /\ timer' # "due")
    /\ \A h \in Answering : WF_vars(Answers(h))

-----------------------------------------------------------------------------
\* A host with an address that was learned from ARP ("Quiet ARP-responding
\* entries are pinged after this") stays, as long as it answers each ping and
\* its switch can be reached.
AnsweringStays ==
    [][\A h \in known \cap (Answering \ MayDetach) :
         (\E a \in DOMAIN ips[h] : ips[h][a].hasARP) => h \in known']_vars

\* A host that stays known is heard again and again: silence is noticed, as
\* long as the timer's task lives, which only a host that leaves with several
\* addresses can end.
QuietLeave ==
    \A h \in Hosts :
      <>[](h \in known /\ timer # "dead") => []<><<PacketIn(h)>>_vars

\* As long as the timer's task lives, an address is given up only when its
\* pings, which are counted twice, are more than pingLim: two of them went
\* without an answer, and neither an old count nor a late answer shortens that.
GivenUpUnanswered ==
    [][timer' # "dead" =>
         \A h \in known' \ MayDetach : \A a \in DOMAIN ips[h] \ DOMAIN ips'[h] :
           2 * ips[h][a].tries > PingLim]_vars
=============================================================================
