---------------------------- MODULE RecocoProofs ----------------------------
(***************************************************************************)
(* The cooperative scheduler, for any tasks, any amount of work and any    *)
(* number of threads that hand it in: no task is lost or in two places     *)
(* (OnePlaceHolds), and no wake-up is lost (NoneOverslept).                *)
(***************************************************************************)
EXTENDS MCRecoco, FiniteSetTheorems, TLAPS
LOCAL INSTANCE SequencesExt
LOCAL INSTANCE FiniteSetsExt

-----------------------------------------------------------------------------
(* The inductive invariants.                                               *)

\* Between tasks the scheduler's thread has none.
Holding == {"run", "serve", "again", "sleep"}

SchedInv ==
    /\ sched.task \in Tasks <=> sched.at \in Holding
    /\ sched.at \in {"again", "sleep"} => sched.task \in Consumers
    /\ sched.at = "serve" => sched.task \in Consumers \cup Callers

\* What the hub watches it holds; what it gives back it holds no more, from
\* the end of the drain on.
HubInv ==
    /\ hub.at # "dead"
    /\ hub.at \in {"top", "select", "done"} => hub.back = {}
    /\ hub.at = "drain" => hub.back \subseteq registered /\ hub.next = "top"
    /\ hub.at \in {"return", "set"} => hub.back \cap registered = {}
    /\ hub.at = "select" \/ (hub.at \in {"return", "set"} /\ hub.next = "select") =>
         hub.watched \subseteq registered

\* Nothing that is done to a task is done twice.
WorkInv == \A t \in Tasks : work[t] <= handed[t] /\ handing[t] <= handed[t]

Once(s) == \A i, j \in DOMAIN s : s[i] \in Tasks /\ i # j => s[i] # s[j]

Queued(t)  == t \in ToSet(incoming)
InHub(t)   == t \in registered \cup hub.back
Idle(t)    == idle[t] # "no"
Running(t) == sched.task = t

\* Where a task is it is once, and it is nowhere else.
Placed(t) ==
    /\ InReady(t) \/ Running(t) \/ Queued(t) \/ InHub(t) \/ Idle(t)
    /\ InReady(t) => ~ Running(t) /\ ~ Queued(t) /\ ~ InHub(t) /\ ~ Idle(t)
    /\ Running(t) => ~ Queued(t) /\ ~ InHub(t) /\ ~ Idle(t)
    /\ Queued(t)  => ~ InHub(t) /\ ~ Idle(t)
    /\ InHub(t)   => ~ Idle(t)

PlacesInv ==
    /\ Once(ready) /\ Once(incoming)
    /\ \A t \in Tasks : Placed(t)
    /\ \A c \in Consumers : ~ Queued(c) /\ ~ InHub(c)

\* A registration is behind a ping unless the hub drains already; the end
\* of the scheduler is, until the hub is past the ping.
PingInv ==
    /\ hub.at # "drain" /\ incoming # <<>> => pinged \/ sched.at = "ping"
    /\ sched.at \in {"last", "done"} => hasQuit
    /\ sched.at = "done" =>
         \/ pinged
         \/ hub.at \in {"drain", "top", "done"}
         \/ hub.at \in {"return", "set"} /\ hub.next = "top"

RecocoInv ==
    /\ TypeOK /\ WorkInv /\ SchedInv /\ HubInv /\ PlacesInv
    /\ PingInv /\ SchedulerWoken /\ WorkersWoken

-----------------------------------------------------------------------------
(* Sequences as the sets of what they hold.                                *)

Entries == Tasks \cup { Wake(c) : c \in Consumers }

LEMMA NoneHeld == ToSet(<<>>) = {} /\ Once(<<>>)
BY DEF ToSet, Once

LEMMA AppendHolds ==
    ASSUME NEW S, NEW s \in Seq(S), NEW x \in S
    PROVE  /\ Append(s, x) \in Seq(S) /\ Append(s, x) # <<>>
           /\ ToSet(Append(s, x)) = ToSet(s) \cup {x}
           /\ Once(s) /\ (x \notin Tasks \/ x \notin ToSet(s)) => Once(Append(s, x))
<1> DEFINE r == Append(s, x)
           n == Len(s)
<1>1. /\ n \in Nat /\ DOMAIN s = 1 .. n /\ DOMAIN r = 1 .. n + 1 /\ r[n + 1] = x
      /\ \A i \in 1 .. n : r[i] = s[i]
      /\ r \in Seq(S) /\ r # <<>>
  OBVIOUS
<1>2. \A i \in 1 .. n + 1 : i \in 1 .. n \/ i = n + 1
  BY <1>1
<1>3. 1 .. n \subseteq 1 .. n + 1 /\ n + 1 \in 1 .. n + 1
  BY <1>1
<1> HIDE DEF r, n
<1>4. ToSet(r) = ToSet(s) \cup {x}
  BY <1>1, <1>2, <1>3 DEF ToSet
<1>5. ASSUME Once(s), x \notin Tasks \/ x \notin ToSet(s) PROVE Once(r)
  BY <1>1, <1>2, <1>5 DEF Once, ToSet
<1>6. QED BY <1>1, <1>4, <1>5 DEF r

LEMMA HeadHolds ==
    ASSUME NEW S, NEW s \in Seq(S), s # <<>>
    PROVE  /\ Head(s) \in S /\ Tail(s) \in Seq(S)
           /\ ToSet(s) = {Head(s)} \cup ToSet(Tail(s))
           /\ Once(s) => Once(Tail(s)) /\ (Head(s) \in Tasks => Head(s) \notin ToSet(Tail(s)))
<1> DEFINE r == Tail(s)
           n == Len(s)
<1>1. /\ n \in Nat \ {0} /\ DOMAIN s = 1 .. n /\ DOMAIN r = 1 .. n - 1 /\ Head(s) = s[1]
      /\ \A i \in 1 .. n - 1 : r[i] = s[i + 1]
      /\ r \in Seq(S) /\ Head(s) \in S
  OBVIOUS
<1>2. /\ \A i \in 1 .. n - 1 : i + 1 \in 1 .. n /\ i + 1 # 1
      /\ \A i \in 1 .. n : i = 1 \/ (i - 1 \in 1 .. n - 1 /\ (i - 1) + 1 = i)
      /\ 1 \in 1 .. n
      /\ \A i, j \in 1 .. n - 1 : i # j => i + 1 # j + 1
  BY <1>1
<1> HIDE DEF r, n
<1>3. ToSet(s) = {Head(s)} \cup ToSet(r)
  <2>1. \A i \in DOMAIN s : s[i] = Head(s) \/ s[i] \in ToSet(r)
    <3>1. ASSUME NEW i \in DOMAIN s, i # 1 PROVE s[i] \in ToSet(r)
      <4>1. i - 1 \in 1 .. n - 1 /\ r[i - 1] = s[i]
        BY <1>1, <1>2, <3>1
      <4>2. QED BY <1>1, <4>1 DEF ToSet
    <3>2. QED BY <1>1, <3>1
  <2>2. \A i \in DOMAIN r : r[i] \in ToSet(s)
    BY <1>1, <1>2 DEF ToSet
  <2>3. Head(s) \in ToSet(s)
    BY <1>1, <1>2 DEF ToSet
  <2>4. QED BY <2>1, <2>2, <2>3 DEF ToSet
<1>4. ASSUME Once(s) PROVE Once(r) /\ (Head(s) \in Tasks => Head(s) \notin ToSet(r))
  <2>1. \A i, j \in DOMAIN r : r[i] \in Tasks /\ i # j => r[i] # r[j]
    BY <1>1, <1>2, <1>4 DEF Once
  <2>2. \A i \in DOMAIN r : s[1] \in Tasks => r[i] # s[1]
    BY <1>1, <1>2, <1>4 DEF Once
  <2>3. QED BY <1>1, <2>1, <2>2 DEF Once, ToSet
<1>5. QED BY <1>1, <1>3, <1>4 DEF r

\* What is put in front.
LEMMA FrontHolds ==
    ASSUME NEW S, NEW s \in Seq(S), NEW x \in S
    PROVE  /\ <<x>> \o s \in Seq(S)
           /\ ToSet(<<x>> \o s) = {x} \cup ToSet(s)
           /\ Once(s) /\ (x \notin Tasks \/ x \notin ToSet(s)) => Once(<<x>> \o s)
<1> DEFINE r == <<x>> \o s
           n == Len(s)
<1>1. /\ n \in Nat /\ DOMAIN s = 1 .. n /\ DOMAIN r = 1 .. n + 1 /\ r[1] = x
      /\ \A i \in 2 .. n + 1 : r[i] = s[i - 1]
      /\ r \in Seq(S)
  OBVIOUS
<1>2. /\ \A i \in 1 .. n : i + 1 \in 2 .. n + 1 /\ (i + 1) - 1 = i /\ i + 1 \in 1 .. n + 1
      /\ \A i \in 1 .. n + 1 : i = 1 \/ (i \in 2 .. n + 1 /\ i - 1 \in 1 .. n)
      /\ 1 \in 1 .. n + 1
      /\ \A i \in 2 .. n + 1 : i - 1 \in 1 .. n
      /\ \A i, j \in 2 .. n + 1 : i # j => i - 1 # j - 1
  BY <1>1
<1> HIDE DEF r, n
<1>3. ToSet(r) = {x} \cup ToSet(s)
  <2>1. \A i \in DOMAIN r : r[i] = x \/ r[i] \in ToSet(s)
    BY <1>1, <1>2 DEF ToSet
  <2>2. \A i \in DOMAIN s : s[i] \in ToSet(r)
    <3>1. ASSUME NEW i \in DOMAIN s PROVE s[i] \in ToSet(r)
      <4>1. i + 1 \in DOMAIN r /\ r[i + 1] = s[i]
        BY <1>1, <1>2
      <4>2. QED BY <4>1 DEF ToSet
    <3>2. QED BY <3>1
  <2>3. x \in ToSet(r)
    BY <1>1, <1>2 DEF ToSet
  <2>4. QED BY <2>1, <2>2, <2>3 DEF ToSet
<1>4. ASSUME Once(s), x \notin Tasks \/ x \notin ToSet(s) PROVE Once(r)
  <2>1. \A i \in 2 .. n + 1 : r[i] \in ToSet(s)
    BY <1>1, <1>2 DEF ToSet
  <2>2. \A i, j \in 2 .. n + 1 : r[i] \in Tasks /\ i # j => r[i] # r[j]
    BY <1>1, <1>2, <1>4 DEF Once
  <2>3. QED BY <1>1, <1>2, <1>4, <2>1, <2>2 DEF Once
<1>5. QED BY <1>1, <1>3, <1>4 DEF r

-----------------------------------------------------------------------------
(* Types.                                                                  *)

LEMMA Distinct ==
    /\ NoTask \notin Tasks
    /\ \A c \in Consumers : c \in Tasks /\ Wake(c) \in Entries /\ Wake(c) \notin Tasks
    /\ \A t \in Callers : t \in Tasks /\ t \notin Consumers /\ t \notin Others
    /\ \A t \in Others : t \in Tasks /\ t \notin Consumers /\ t \notin Callers
    /\ \A t \in Tasks : t \in Entries
BY RecocoAssumption DEF Tasks, Entries

LEMMA ReadyTyped == TypeOK => ready \in Seq(Entries) /\ incoming \in Seq(Tasks)
BY DEF TypeOK, Entries

LEMMA Counted ==
    ASSUME TypeOK, WorkInv, NEW t \in Tasks
    PROVE  /\ work[t] \in Nat /\ handing[t] \in Nat /\ handed[t] \in Nat /\ MaxWork \in Nat
           /\ work[t] <= handed[t] /\ handing[t] <= handed[t] /\ handed[t] <= MaxWork
BY RecocoAssumption DEF TypeOK, WorkInv

IdleType == [Tasks -> {"no", "asleep", "blocking", "ended"}]
HubType  == [at: {"top", "select", "drain", "return", "set", "dead", "done"},
             watched: SUBSET Tasks, back: SUBSET Tasks, next: {"top", "select"}]

LEMMA IdleTyped ==
    ASSUME TypeOK, NEW t \in Tasks
    PROVE  idle \in IdleType /\ [idle EXCEPT ![t] = "no"] \in IdleType
<1>1. idle \in IdleType
  BY DEF TypeOK, IdleType
<1>2. QED BY <1>1 DEF IdleType

LEMMA HubShape ==
    ASSUME TypeOK
    PROVE  /\ hub \in HubType
           /\ \A t \in hub.back : t \in Tasks /\ [hub EXCEPT !.at = "set", !.back = @ \ {t}] \in HubType
           /\ \A t \in hub.watched :
                /\ t \in Tasks
                /\ [hub EXCEPT !.at = "return", !.back = {t}, !.next = "top"] \in HubType
<1>1. hub \in HubType
  BY DEF TypeOK, HubType
<1>2. QED BY <1>1 DEF HubType

LEMMA SchedulerTyped ==
    ASSUME TypeOK, WorkInv, SchedInv, Scheduler
    PROVE  TypeOK' /\ WorkInv'
<1> USE Distinct, ReadyTyped
<1>1. CASE SchedulerTests
  BY <1>1 DEF SchedulerTests, TypeOK, WorkInv, SchedAt, hubVars, taskVars, workVars
<1>2. CASE SchedulerWakes
  BY <1>2 DEF SchedulerWakes, TypeOK, WorkInv, SchedAt, hubVars, taskVars, workVars
<1>3. CASE SchedulerClears
  BY <1>3 DEF SchedulerClears, TypeOK, WorkInv, SchedAt, hubVars, taskVars, workVars
<1>4. CASE CyclePops
  <2>1. CASE ready = <<>>
    BY <1>4, <2>1 DEF CyclePops, TypeOK, WorkInv, SchedAt, hubVars, taskVars, workVars
  <2>2. CASE ready # <<>>
    <3>1. /\ Head(ready) \in Tasks /\ ready' = Tail(ready)
          /\ sched' = [at |-> "run", task |-> Head(ready)]
          /\ UNCHANGED <<event, hasQuit, setting, hubVars, taskVars, workVars>>
      BY <1>4, <2>2 DEF CyclePops
    <3>2. ready' \in Seq(Entries)
      BY <2>2, <3>1, HeadHolds
    <3>3. QED BY <3>1, <3>2 DEF TypeOK, WorkInv, Entries, hubVars, taskVars, workVars
  <2>3. QED BY <2>1, <2>2
<1>5. CASE CycleWakes
  <2>1. PICK t \in Consumers : /\ ready # <<>>
                               /\ ready' = Tail(ready) \/ ready' = <<t>> \o Tail(ready)
                               /\ idle' = idle \/ idle' = [idle EXCEPT ![t] = "no"]
    BY <1>5 DEF CycleWakes
  <2>2. Tail(ready) \in Seq(Entries) /\ t \in Entries
    BY <2>1, HeadHolds
  <2>3. <<t>> \o Tail(ready) \in Seq(Entries)
    BY <2>2, FrontHolds
  <2>4. /\ event' \in BOOLEAN /\ sched' = SchedAt("top")
        /\ UNCHANGED <<hasQuit, setting, hubVars, timeout, readable, workVars>>
    BY <1>5 DEF CycleWakes, TypeOK
  <2>5. ready' \in Seq(Entries) /\ idle' \in IdleType
    BY <2>1, <2>2, <2>3, IdleTyped
  <2>6. QED BY <2>4, <2>5 DEF IdleType, TypeOK, WorkInv, Entries, SchedAt, hubVars, workVars
<1>6. CASE SchedulerPings
  BY <1>6 DEF SchedulerPings, TypeOK, WorkInv, SchedAt, hubVars, taskVars, workVars
<1>7. CASE SchedulerEnds
  BY <1>7 DEF SchedulerEnds, TypeOK, WorkInv, SchedAt, hubVars, taskVars, workVars
<1>8. ASSUME NEW t \in Others, TaskSelects(t) PROVE TypeOK' /\ WorkInv'
  <2>1. incoming' \in Seq(Tasks)
    BY <1>8, AppendHolds DEF TaskSelects, Registers
  <2>2. QED BY <1>8, <2>1
               DEF TaskSelects, Registers, TypeOK, WorkInv, hubVars, taskVars, workVars
<1>9. ASSUME NEW t \in Others, TaskYields(t) PROVE TypeOK' /\ WorkInv'
  <2>1. ready' \in Seq(Entries)
    BY <1>9, AppendHolds DEF TaskYields
  <2>2. QED BY <1>9, <2>1
               DEF TaskYields, TypeOK, WorkInv, Entries, SchedAt, hubVars, taskVars, workVars
<1>10. ASSUME NEW t \in Others, TaskLeaves(t) PROVE TypeOK' /\ WorkInv'
  BY <1>10 DEF TaskLeaves, TypeOK, WorkInv, SchedAt, hubVars, taskVars, workVars
<1>11. ASSUME NEW c \in Consumers, ConsumerWorks(c) PROVE TypeOK' /\ WorkInv'
  <2>1. Taken(c) \in 0 .. MaxWork /\ Taken(c) <= handed[c]
    BY Counted DEF Taken
  <2>2. QED BY <1>11, <2>1
               DEF ConsumerWorks, TypeOK, WorkInv, SchedAt, hubVars, taskVars, workVars
<1>12. ASSUME NEW c \in Consumers, ConsumerTests(c) PROVE TypeOK' /\ WorkInv'
  BY <1>12 DEF ConsumerTests, TypeOK, WorkInv, hubVars, taskVars, workVars
<1>13. ASSUME NEW c \in Consumers, ConsumerYields(c) PROVE TypeOK' /\ WorkInv'
  <2>1. ready' \in Seq(Entries)
    BY <1>13, AppendHolds DEF ConsumerYields
  <2>2. idle' \in [Tasks -> {"no", "asleep", "blocking", "ended"}]
    BY <1>13 DEF ConsumerYields, TypeOK
  <2>3. QED BY <1>13, <2>1, <2>2
               DEF ConsumerYields, TypeOK, WorkInv, Entries, SchedAt, hubVars, taskVars, workVars
<1>14. ASSUME NEW t \in Callers, CallerPongs(t) PROVE TypeOK' /\ WorkInv'
  BY <1>14 DEF CallerPongs, TypeOK, WorkInv, hubVars, taskVars, workVars
<1>15. ASSUME NEW t \in Callers, CallerCalls(t) PROVE TypeOK' /\ WorkInv'
  <2>1. work[t] - 1 \in 0 .. MaxWork /\ work[t] - 1 <= handed[t]
    BY <1>15, Counted DEF CallerCalls
  <2>2. QED BY <1>15, <2>1
               DEF CallerCalls, TypeOK, WorkInv, hubVars, taskVars, workVars
<1>16. ASSUME NEW t \in Callers, CallerSelects(t) PROVE TypeOK' /\ WorkInv'
  <2>1. incoming' \in Seq(Tasks)
    BY <1>16, AppendHolds DEF CallerSelects, Registers
  <2>2. QED BY <1>16, <2>1
               DEF CallerSelects, Registers, TypeOK, WorkInv, hubVars, taskVars, workVars
<1>17. QED
  BY <1>1, <1>2, <1>3, <1>4, <1>5, <1>6, <1>7, <1>8, <1>9, <1>10, <1>11, <1>12, <1>13, <1>14,
     <1>15, <1>16 DEF Scheduler

LEMMA HubTyped ==
    ASSUME TypeOK, WorkInv, Hub
    PROVE  TypeOK' /\ WorkInv'
<1> USE Distinct, ReadyTyped
<1>1. CASE HubLooks
  BY <1>1 DEF HubLooks, LeftBy, Expired, HubAt, TypeOK, WorkInv, taskVars, workVars
<1>2. CASE HubFinds
  BY <1>2 DEF HubFinds, LeftBy, Found, HubAt, TypeOK, WorkInv, taskVars, workVars
<1>3. CASE HubPongs
  BY <1>3 DEF HubPongs, Found, TypeOK, WorkInv, taskVars, workVars
<1>4. CASE HubTakes
  <2>1. Head(incoming) \in Tasks /\ incoming' \in Seq(Tasks)
    BY <1>4, HeadHolds DEF HubTakes
  <2>2. QED BY <1>4, <2>1 DEF HubTakes, HubAt, TypeOK, WorkInv, taskVars, workVars
<1>5. CASE HubDrained
  BY <1>5 DEF HubDrained, LeftBy, TypeOK, WorkInv, taskVars, workVars
<1>6. CASE HubTimesOut
  <2>1. CASE hub' = HubAt("top") /\ registered' = registered
    BY <1>6, <2>1 DEF HubTimesOut, HubAt, TypeOK, WorkInv, taskVars, workVars
  <2>2. ASSUME NEW t \in hub.watched, registered' = LeftBy({t}),
               hub' = [hub EXCEPT !.at = "return", !.back = {t}, !.next = "top"]
        PROVE  TypeOK' /\ WorkInv'
    <3>1. hub' \in HubType /\ registered' \subseteq Tasks
      BY <2>2, HubShape DEF LeftBy, TypeOK
    <3>2. QED BY <1>6, <3>1 DEF HubTimesOut, HubType, TypeOK, WorkInv, taskVars, workVars
  <2>3. QED BY <1>6, <2>1, <2>2 DEF HubTimesOut
<1>7. CASE HubReturns
  <2>1. PICK t \in hub.back : \/ hub' = HubAt("dead") /\ ready' = ready
                              \/ /\ hub' = [hub EXCEPT !.at = "set", !.back = @ \ {t}]
                                 /\ ready' = Append(ready, t)
    BY <1>7 DEF HubReturns
  <2>2. t \in Entries
    BY <2>1 DEF TypeOK
  <2>3. ready' \in Seq(Entries)
    BY <2>1, <2>2, AppendHolds
  <2>4. hub' \in HubType
    <3>1. HubAt("dead") \in HubType
      BY DEF HubAt, HubType
    <3>2. QED BY <2>1, <3>1, HubShape
  <2>5. QED BY <1>7, <2>3, <2>4 DEF HubType, HubReturns, TypeOK, WorkInv, Entries, taskVars, workVars
<1>8. CASE HubSets
  BY <1>8 DEF HubSets, Signalled, TypeOK, WorkInv, taskVars, workVars
<1>9. QED BY <1>1, <1>2, <1>3, <1>4, <1>5, <1>6, <1>7, <1>8 DEF Hub

Outside ==
    \/ Threads \/ Quits
    \/ \E t \in Others, c \in Consumers : TaskAddsWork(t, c)
    \/ \E t \in Consumers \cup Callers : ThreadHandsIn(t)
    \/ \E t \in Others : DataArrives(t) \/ TimePasses(t)

LEMMA OutsideTyped ==
    ASSUME TypeOK, WorkInv, Outside
    PROVE  TypeOK' /\ WorkInv'
<1> USE Distinct, ReadyTyped
<1>1. CASE ThreadSets
  BY <1>1, RecocoAssumption DEF ThreadSets, TypeOK, WorkInv, hubVars, taskVars, workVars
<1>2. ASSUME NEW t \in Others, ThreadReturns(t) PROVE TypeOK' /\ WorkInv'
  <2>1. ready' \in Seq(Entries)
    BY <1>2, AppendHolds DEF ThreadReturns
  <2>2. QED BY <1>2, <2>1, RecocoAssumption
               DEF ThreadReturns, TypeOK, WorkInv, Entries, hubVars, workVars
<1>3. ASSUME NEW t \in Consumers \cup Callers, ThreadWakes(t) PROVE TypeOK' /\ WorkInv'
  <2>1. ready' \in Seq(Entries)
    BY <1>3, AppendHolds DEF ThreadWakes, Woken
  <2>2. handing[t] - 1 \in 0 .. MaxWork /\ handing[t] - 1 <= handed[t]
    BY <1>3, Counted DEF ThreadWakes
  <2>3. setting' \in 0 .. MaxThreads
    BY <1>3, RecocoAssumption DEF ThreadWakes, TypeOK
  <2>4. readable' \subseteq Tasks
    BY <1>3 DEF ThreadWakes, TypeOK
  <2>5. /\ handing' = [handing EXCEPT ![t] = @ - 1]
        /\ UNCHANGED <<event, hasQuit, sched, hubVars, timeout, idle, work, handed>>
    BY <1>3 DEF ThreadWakes
  <2>6. QED BY <2>1, <2>2, <2>3, <2>4, <2>5 DEF TypeOK, WorkInv, Entries, hubVars
<1>4. CASE Quits
  BY <1>4 DEF Quits, TypeOK, WorkInv, hubVars, taskVars, workVars
<1>5. ASSUME NEW t \in Others, NEW c \in Consumers, TaskAddsWork(t, c) PROVE TypeOK' /\ WorkInv'
  <2>1. ready' \in Seq(Entries)
    <3>1. c \in Entries /\ (ready' = ready \/ ready' = Append(ready, c))
      BY <1>5 DEF TaskAddsWork
    <3>2. QED BY <3>1, AppendHolds
  <2>2. /\ handed[c] + 1 \in 0 .. MaxWork /\ work[c] + 1 \in 0 .. MaxWork
        /\ work[c] + 1 <= handed[c] + 1 /\ handing[c] <= handed[c] + 1
    BY <1>5, Counted DEF TaskAddsWork
  <2>3. event' \in BOOLEAN /\ idle' \in IdleType
    <3>1. event' \in BOOLEAN /\ (idle' = idle \/ idle' = [idle EXCEPT ![c] = "no"])
      BY <1>5 DEF TaskAddsWork, TypeOK
    <3>2. QED BY <3>1, IdleTyped
  <2>4. /\ handed' = [handed EXCEPT ![c] = @ + 1] /\ work' = [work EXCEPT ![c] = @ + 1]
        /\ UNCHANGED <<hasQuit, sched, setting, hubVars, timeout, readable, handing>>
    BY <1>5 DEF TaskAddsWork
  <2>5. /\ handed' \in [Tasks -> 0 .. MaxWork] /\ work' \in [Tasks -> 0 .. MaxWork]
        /\ WorkInv'
    BY <2>2, <2>4 DEF TypeOK, WorkInv
  <2>6. QED BY <2>1, <2>3, <2>4, <2>5 DEF TypeOK, IdleType, Entries, hubVars
<1>6. ASSUME NEW t \in Consumers \cup Callers, ThreadHandsIn(t) PROVE TypeOK' /\ WorkInv'
  <2>1. /\ handed[t] + 1 \in 0 .. MaxWork /\ work[t] + 1 \in 0 .. MaxWork
        /\ handing[t] + 1 \in 0 .. MaxWork
        /\ work[t] + 1 <= handed[t] + 1 /\ handing[t] + 1 <= handed[t] + 1
    BY <1>6, Counted DEF ThreadHandsIn
  <2>2. QED BY <1>6, <2>1 DEF ThreadHandsIn, TypeOK, WorkInv, hubVars, taskVars
<1>7. ASSUME NEW t \in Others, DataArrives(t) \/ TimePasses(t) PROVE TypeOK' /\ WorkInv'
  <2>1. CASE DataArrives(t)
    BY <2>1 DEF DataArrives, TypeOK, WorkInv, hubVars, taskVars, workVars
  <2>2. CASE TimePasses(t)
    BY <2>2 DEF TimePasses, TypeOK, WorkInv, hubVars, taskVars, workVars
  <2>3. QED BY <1>7, <2>1, <2>2
<1>8. QED BY <1>1, <1>2, <1>3, <1>4, <1>5, <1>6, <1>7 DEF Outside, Threads

LEMMA NextSteps == [Next]_vars => Scheduler \/ Hub \/ Outside \/ UNCHANGED vars
BY DEF Next, Outside

LEMMA StepTyped ==
    ASSUME TypeOK, WorkInv, SchedInv, [Next]_vars
    PROVE  TypeOK' /\ WorkInv'
<1>1. CASE UNCHANGED vars
  BY <1>1 DEF TypeOK, WorkInv, vars, hubVars, taskVars, workVars
<1>2. QED BY <1>1, SchedulerTyped, HubTyped, OutsideTyped, NextSteps

-----------------------------------------------------------------------------
(* The two threads.                                                        *)

LEMMA SchedUntouched ==
    ASSUME Hub \/ Outside \/ UNCHANGED vars
    PROVE  sched' = sched
BY DEF Hub, HubLooks, HubFinds, HubPongs, HubTakes, HubDrained, HubTimesOut, HubReturns,
       HubSets, Outside, Threads, ThreadSets, ThreadReturns, ThreadWakes, Quits,
       TaskAddsWork, ThreadHandsIn, DataArrives, TimePasses, vars

LEMMA StepKeepsSched ==
    ASSUME TypeOK, SchedInv, [Next]_vars
    PROVE  SchedInv'
<1> USE Distinct
<1>1. CASE Scheduler
  <2>1. CASE SchedulerTests \/ SchedulerWakes \/ SchedulerClears \/ CycleWakes
             \/ SchedulerPings \/ SchedulerEnds
    <3>1. \E what \in {"top", "wait", "clear", "cycle", "last", "done"} : sched' = SchedAt(what)
      BY <2>1 DEF SchedulerTests, SchedulerWakes, SchedulerClears, CycleWakes, SchedulerPings,
                  SchedulerEnds
    <3>2. QED BY <3>1 DEF SchedInv, SchedAt, Holding
  <2>2. CASE CyclePops
    <3>1. sched' = SchedAt("top") \/ \E t \in Tasks : sched' = [at |-> "run", task |-> t]
      BY <2>2 DEF CyclePops
    <3>2. QED BY <3>1 DEF SchedInv, SchedAt, Holding
  <2>3. ASSUME NEW t \in Others, TaskSelects(t) \/ TaskYields(t) \/ TaskLeaves(t) PROVE SchedInv'
    <3>1. \E what \in {"ping", "top"} : sched' = SchedAt(what)
      BY <2>3 DEF TaskSelects, TaskYields, TaskLeaves, Registers, SchedAt
    <3>2. QED BY <3>1 DEF SchedInv, SchedAt, Holding
  <2>4. ASSUME NEW c \in Consumers, ConsumerWorks(c) \/ ConsumerTests(c) \/ ConsumerYields(c)
        PROVE  SchedInv'
    <3>1. \/ sched' = SchedAt("top")
          \/ \E what \in {"serve", "sleep", "again"} : sched' = [at |-> what, task |-> c]
      BY <2>4 DEF ConsumerWorks, ConsumerTests, ConsumerYields, Runs, TypeOK
    <3>2. QED BY <3>1 DEF SchedInv, SchedAt, Holding
  <2>5. ASSUME NEW t \in Callers, CallerPongs(t) \/ CallerCalls(t) \/ CallerSelects(t)
        PROVE  SchedInv'
    <3>1. sched' = SchedAt("ping") \/ sched' = [at |-> "serve", task |-> t]
      BY <2>5 DEF CallerPongs, CallerCalls, CallerSelects, Registers, SchedAt, Runs, TypeOK
    <3>2. QED BY <3>1 DEF SchedInv, SchedAt, Holding
  <2>6. QED BY <1>1, <2>1, <2>2, <2>3, <2>4, <2>5 DEF Scheduler
<1>2. CASE Hub \/ Outside \/ UNCHANGED vars
  <2>1. sched' = sched
    BY <1>2, SchedUntouched
  <2>2. QED BY <2>1 DEF SchedInv
<1>3. QED BY <1>1, <1>2, NextSteps

\* What the hub's thread does not touch.
LEMMA HubUntouched ==
    ASSUME Scheduler \/ Outside \/ UNCHANGED vars
    PROVE  UNCHANGED <<hub, registered>>
BY DEF Scheduler, SchedulerTests, SchedulerWakes, SchedulerClears, CyclePops, CycleWakes,
       SchedulerPings, SchedulerEnds, TaskSelects, TaskYields, TaskLeaves, ConsumerWorks,
       ConsumerTests, ConsumerYields, CallerPongs, CallerCalls, CallerSelects, Registers,
       Outside, Threads, ThreadSets, ThreadReturns, ThreadWakes, Quits,
       TaskAddsWork, ThreadHandsIn, DataArrives, TimePasses, hubVars, vars

\* What the hub has, between its dictionary and what it returns, changes only
\* when it takes a registration and when it returns a task.
LEMMA HubHolds ==
    ASSUME TypeOK, HubInv, PlacesInv, Hub
    PROVE  \/ /\ HubInv' /\ UNCHANGED <<ready, incoming>>
              /\ (registered \cup hub.back)' = registered \cup hub.back
           \/ /\ HubInv' /\ incoming # <<>> /\ incoming' = Tail(incoming) /\ UNCHANGED ready
              /\ Head(incoming) \notin registered
              /\ (registered \cup hub.back)' = registered \cup hub.back \cup {Head(incoming)}
           \/ \E t \in hub.back :
                /\ HubInv' /\ ready' = Append(ready, t) /\ UNCHANGED incoming
                /\ hub' = [hub EXCEPT !.at = "set", !.back = @ \ {t}]
                /\ (registered \cup hub.back)' = (registered \cup hub.back) \ {t}
<1> DEFINE Kept == (registered \cup hub.back)' = registered \cup hub.back
<1>0. hub \in HubType /\ registered \subseteq Tasks
  BY HubShape DEF TypeOK
<1>1. CASE HubLooks
  <2>1. hub.back = {}
    BY <1>1 DEF HubLooks, HubInv
  <2>2. CASE hasQuit
    BY <1>1, <2>1, <2>2 DEF HubLooks, HubAt, HubInv
  <2>3. CASE ~ hasQuit
    <3>1. /\ registered' = registered \ Expired
          /\ hub' = [at |-> IF Expired = {} THEN "select" ELSE "return",
                     watched |-> registered \ Expired, back |-> Expired, next |-> "select"]
          /\ UNCHANGED <<ready, incoming>> /\ Expired \subseteq registered
      BY <1>1, <2>3 DEF HubLooks, LeftBy, Expired
    <3> HIDE DEF Expired
    <3>2. Kept
      BY <2>1, <3>1
    <3>3. HubInv'
      BY <3>1 DEF HubInv
    <3>4. QED BY <3>1, <3>2, <3>3
  <2>4. QED BY <2>2, <2>3
<1>2. CASE HubFinds
  <2>1. hub.back = {} /\ Found \subseteq registered
    BY <1>2 DEF HubFinds, HubInv, Found
  <2>2. /\ registered' = registered \ Found
        /\ hub' = [hub EXCEPT !.at = "return", !.back = Found, !.next = "top"]
        /\ UNCHANGED <<ready, incoming>>
    BY <1>2 DEF HubFinds, LeftBy
  <2> HIDE DEF Found
  <2>3. hub'.at = "return" /\ hub'.back = Found /\ hub'.next = "top"
    BY <1>0, <2>2 DEF HubType
  <2>4. Kept /\ HubInv'
    BY <2>1, <2>2, <2>3 DEF HubInv
  <2>5. QED BY <2>2, <2>4
<1>3. CASE HubPongs
  <2>1. hub.back = {} /\ Found \subseteq registered
    BY <1>3 DEF HubPongs, HubInv, Found
  <2>2. /\ registered' = registered
        /\ hub' = [hub EXCEPT !.at = "drain", !.back = Found, !.next = "top"]
        /\ UNCHANGED <<ready, incoming>>
    BY <1>3 DEF HubPongs
  <2> HIDE DEF Found
  <2>3. hub'.at = "drain" /\ hub'.back = Found /\ hub'.next = "top"
    BY <1>0, <2>2 DEF HubType
  <2>4. Kept /\ HubInv'
    BY <2>1, <2>2, <2>3 DEF HubInv
  <2>5. QED BY <2>2, <2>4
<1>4. CASE HubTakes
  <2>1. hub.at = "drain" /\ incoming # <<>> /\ incoming' = Tail(incoming) /\ UNCHANGED ready
    BY <1>4 DEF HubTakes
  <2>2. Head(incoming) \in Tasks /\ Head(incoming) \in ToSet(incoming)
    BY <2>1, ReadyTyped, HeadHolds
  <2>3. Head(incoming) \notin registered
    BY <2>2 DEF PlacesInv, Placed, Queued, InHub
  <2>4. registered' = registered \cup {Head(incoming)} /\ hub' = hub
    BY <1>4, <2>3 DEF HubTakes
  <2>5. HubInv'
    BY <2>1, <2>4 DEF HubInv
  <2>6. QED BY <2>1, <2>3, <2>4, <2>5
<1>5. CASE HubDrained
  <2>1. hub.at = "drain" /\ registered' = registered \ hub.back /\ UNCHANGED <<ready, incoming>>
        /\ hub' = [hub EXCEPT !.at = IF hub.back = {} THEN "top" ELSE "return"]
    BY <1>5 DEF HubDrained, LeftBy
  <2>2. /\ hub'.back = hub.back /\ hub'.next = hub.next
        /\ hub'.at = (IF hub.back = {} THEN "top" ELSE "return")
    BY <1>0, <2>1 DEF HubType
  <2>3. Kept /\ HubInv'
    BY <2>1, <2>2 DEF HubInv
  <2>4. QED BY <2>1, <2>3
<1>6. CASE HubTimesOut
  <2>1. hub.at = "select" /\ hub.back = {} /\ hub.watched \subseteq registered
        /\ UNCHANGED <<ready, incoming>>
    BY <1>6 DEF HubTimesOut, HubInv
  <2>2. CASE hub' = HubAt("top") /\ registered' = registered
    BY <2>1, <2>2 DEF HubAt, HubInv
  <2>3. ASSUME NEW t \in hub.watched, registered' = registered \ {t},
               hub' = [hub EXCEPT !.at = "return", !.back = {t}, !.next = "top"]
        PROVE  Kept /\ HubInv'
    <3>1. hub'.at = "return" /\ hub'.back = {t} /\ hub'.next = "top"
      BY <1>0, <2>3 DEF HubType
    <3>2. QED BY <2>1, <2>3, <3>1 DEF HubInv
  <2>4. QED BY <1>6, <2>1, <2>2, <2>3 DEF HubTimesOut, LeftBy
<1>7. CASE HubReturns
  <2>1. PICK t \in hub.back : IF InReady(t)
                              THEN hub' = HubAt("dead") /\ UNCHANGED ready
                              ELSE /\ hub' = [hub EXCEPT !.at = "set", !.back = @ \ {t}]
                                   /\ ready' = Append(ready, t)
    BY <1>7 DEF HubReturns
  <2>2. t \in Tasks
    BY HubShape
  <2>3. ~ InReady(t)
    BY <2>2 DEF PlacesInv, Placed, InHub
  <2>4. hub' = [hub EXCEPT !.at = "set", !.back = @ \ {t}] /\ ready' = Append(ready, t)
        /\ UNCHANGED <<incoming, registered>> /\ hub.at = "return"
    BY <1>7, <2>1, <2>3 DEF HubReturns
  <2>5. hub'.at = "set" /\ hub'.back = hub.back \ {t} /\ hub'.next = hub.next /\ hub'.watched = hub.watched
    BY <1>0, <2>4 DEF HubType
  <2>6. HubInv' /\ t \notin registered
    BY <2>4, <2>5 DEF HubInv
  <2>7. (registered \cup hub.back)' = (registered \cup hub.back) \ {t}
    BY <2>4, <2>5, <2>6
  <2>8. QED BY <2>4, <2>6, <2>7
<1>8. CASE HubSets
  <2>1. hub.at = "set" /\ UNCHANGED <<ready, incoming, registered>>
        /\ hub' = [hub EXCEPT !.at = IF hub.back = {} THEN hub.next ELSE "return"]
    BY <1>8 DEF HubSets
  <2>2. /\ hub'.back = hub.back /\ hub'.next = hub.next /\ hub'.watched = hub.watched
        /\ hub'.at = (IF hub.back = {} THEN hub.next ELSE "return")
        /\ hub.next \in {"top", "select"}
    BY <1>0, <2>1 DEF HubType
  <2>3. Kept /\ HubInv'
    BY <2>1, <2>2 DEF HubInv
  <2>4. QED BY <2>1, <2>3
<1>9. QED BY <1>1, <1>2, <1>3, <1>4, <1>5, <1>6, <1>7, <1>8 DEF Hub

LEMMA StepKeepsHub ==
    ASSUME TypeOK, HubInv, PlacesInv, [Next]_vars
    PROVE  HubInv'
<1>1. CASE Hub
  BY <1>1, HubHolds
<1>2. CASE Scheduler \/ Outside \/ UNCHANGED vars
  BY <1>2, HubUntouched DEF HubInv
<1>3. QED BY <1>1, <1>2, NextSteps

-----------------------------------------------------------------------------
(* Every task in one place.                                                *)

\* A step that moves no task.
LEMMA NoneMoved ==
    ASSUME PlacesInv, UNCHANGED <<ready, incoming, hub, registered, idle>>,
           \A t \in Tasks : Running(t)' <=> Running(t)
    PROVE  PlacesInv'
BY DEF PlacesInv, Placed, Once, InReady, Queued, InHub, Idle

LEMMA SchedulerPlaces ==
    ASSUME TypeOK, SchedInv, PlacesInv, Scheduler
    PROVE  PlacesInv'
<1> USE Distinct, ReadyTyped
<1>1. ASSUME UNCHANGED <<ready, incoming, hub, registered, idle>>, sched.at \notin Holding,
             \E what : sched' = SchedAt(what)
      PROVE  PlacesInv'
  BY <1>1, NoneMoved DEF SchedInv, SchedAt, Running
<1>2. CASE SchedulerTests \/ SchedulerWakes \/ SchedulerClears \/ SchedulerPings \/ SchedulerEnds
  <2>1. /\ UNCHANGED <<ready, incoming, hub, registered, idle>> /\ sched.at \notin Holding
        /\ \E what : sched' = SchedAt(what)
    BY <1>2 DEF SchedulerTests, SchedulerWakes, SchedulerClears, SchedulerPings, SchedulerEnds,
                Holding, hubVars, taskVars
  <2>2. QED BY <1>1, <2>1
<1>3. CASE CyclePops
  <2>1. UNCHANGED <<incoming, hub, registered, idle>> /\ sched.at \notin Holding
    BY <1>3 DEF CyclePops, Holding, hubVars, taskVars
  <2>2. CASE ready = <<>>
    BY <1>1, <1>3, <2>1, <2>2 DEF CyclePops
  <2>3. CASE ready # <<>>
    <3>1. /\ Head(ready) \in Tasks /\ ready' = Tail(ready)
          /\ sched' = [at |-> "run", task |-> Head(ready)]
      BY <1>3, <2>3 DEF CyclePops
    <3>2. /\ ToSet(ready) = {Head(ready)} \cup ToSet(ready') /\ Once(ready)'
          /\ Head(ready) \notin ToSet(ready')
      BY <2>3, <3>1, HeadHolds DEF PlacesInv, Once
    <3>3. sched.task \notin Tasks /\ sched'.task = Head(ready)
      BY <2>1, <3>1 DEF SchedInv
    <3>4. QED BY <2>1, <3>1, <3>2, <3>3
                 DEF PlacesInv, Placed, Once, InReady, Queued, InHub, Idle, Running
  <2>4. QED BY <2>2, <2>3
<1>4. CASE CycleWakes
  <2>1. PICK t \in Consumers :
          /\ ready # <<>> /\ Head(ready) = Wake(t)
          /\ IF InReady(t)
             THEN ready' = Tail(ready) /\ UNCHANGED <<event, idle>>
             ELSE /\ ready' = <<t>> \o Tail(ready)
                  /\ event' = TRUE
                  /\ idle' = [idle EXCEPT ![t] = "no"]
    BY <1>4 DEF CycleWakes
  <2>2. UNCHANGED <<incoming, hub, registered>> /\ sched.task \notin Tasks /\ sched'.task \notin Tasks
    BY <1>4 DEF CycleWakes, SchedInv, SchedAt, Holding, hubVars
  <2>3. /\ Tail(ready) \in Seq(Entries) /\ Once(Tail(ready))
        /\ ToSet(ready) = {Wake(t)} \cup ToSet(Tail(ready))
    BY <2>1, HeadHolds DEF PlacesInv
  <2>4. CASE InReady(t)
    BY <2>1, <2>2, <2>3, <2>4
       DEF PlacesInv, Placed, Once, InReady, Queued, InHub, Idle, Running
  <2>5. CASE ~ InReady(t)
    <3>1. t \notin ToSet(Tail(ready)) /\ ready' = <<t>> \o Tail(ready)
      BY <2>1, <2>3, <2>5 DEF InReady
    <3>2. t \in Entries
      OBVIOUS
    <3>3. ToSet(ready') = {t} \cup ToSet(Tail(ready)) /\ Once(ready')
      BY <2>3, <3>1, <3>2, FrontHolds
    <3>4. \A u \in Tasks : u # t => (Idle(u)' <=> Idle(u))
      BY <2>1, <2>5 DEF Idle, TypeOK
    <3>5. ~ Idle(t)'
      BY <2>1, <2>5 DEF Idle, TypeOK
    <3>6. \A u \in Tasks : u # t => (InReady(u)' <=> InReady(u))
      BY <2>3, <3>3 DEF InReady
    <3>7. InReady(t)'
      BY <3>3 DEF InReady
    <3>8. Once(ready)' /\ Once(incoming)'
      BY <2>2, <3>3 DEF PlacesInv, Once
    <3>9. QED BY <2>2, <2>5, <3>4, <3>5, <3>6, <3>7, <3>8
                 DEF PlacesInv, Placed, Queued, InHub, Running
  <2>6. QED BY <2>4, <2>5
<1>5. ASSUME NEW t \in Tasks, t \notin Consumers, sched.task = t, incoming' = Append(incoming, t),
             sched' = [at |-> "ping", task |-> NoTask], UNCHANGED <<ready, hub, registered, idle>>
      PROVE  PlacesInv'
  <2>1. ~ Queued(t)
    BY <1>5 DEF PlacesInv, Placed, Running
  <2>2. ToSet(incoming') = ToSet(incoming) \cup {t} /\ Once(incoming')
    BY <1>5, <2>1, AppendHolds DEF PlacesInv, Queued
  <2>3. Once(ready)' /\ Once(incoming)'
    BY <1>5, <2>2 DEF PlacesInv, Once
  <2>4. sched'.task \notin Tasks
    BY <1>5
  <2>5. QED BY <1>5, <2>1, <2>2, <2>3, <2>4
               DEF PlacesInv, Placed, InReady, Queued, InHub, Idle, Running
<1>6. ASSUME NEW t \in Tasks, sched.task = t, ready' = Append(ready, t), sched' = SchedAt("top"),
             UNCHANGED <<incoming, hub, registered, idle>>
      PROVE  PlacesInv'
  <2>1. ~ InReady(t) /\ t \in Entries
    BY <1>6 DEF PlacesInv, Placed, Running
  <2>2. ToSet(ready') = ToSet(ready) \cup {t} /\ Once(ready')
    BY <1>6, <2>1, AppendHolds DEF PlacesInv, InReady
  <2>3. Once(ready)' /\ Once(incoming)'
    BY <1>6, <2>2 DEF PlacesInv, Once
  <2>4. sched'.task \notin Tasks
    BY <1>6 DEF SchedAt
  <2>5. QED BY <1>6, <2>1, <2>2, <2>3, <2>4
               DEF PlacesInv, Placed, InReady, Queued, InHub, Idle, Running
<1>7. ASSUME NEW t \in Tasks, sched.task = t, sched' = SchedAt("top"),
             UNCHANGED <<ready, incoming, hub, registered>>,
             NEW how \in {"asleep", "blocking", "ended"}, idle' = [idle EXCEPT ![t] = how]
      PROVE  PlacesInv'
  <2>1. Idle(t)' /\ \A u \in Tasks : u # t => (Idle(u)' <=> Idle(u))
    BY <1>7 DEF Idle, TypeOK
  <2>2. Once(ready)' /\ Once(incoming)'
    BY <1>7 DEF PlacesInv, Once
  <2>3. sched'.task \notin Tasks
    BY <1>7 DEF SchedAt
  <2>4. QED BY <1>7, <2>1, <2>2, <2>3
               DEF PlacesInv, Placed, InReady, Queued, InHub, Running
<1>8. ASSUME NEW t \in Others, TaskSelects(t) \/ TaskYields(t) \/ TaskLeaves(t) PROVE PlacesInv'
  <2>1. CASE TaskSelects(t)
    BY <1>5, <2>1 DEF TaskSelects, Registers, Runs
  <2>2. CASE TaskYields(t)
    BY <1>6, <2>2 DEF TaskYields, Runs, hubVars, taskVars
  <2>3. CASE TaskLeaves(t)
    BY <1>7, <2>3 DEF TaskLeaves, Runs, hubVars
  <2>4. QED BY <1>8, <2>1, <2>2, <2>3
<1>9. ASSUME NEW c \in Consumers, ConsumerWorks(c) \/ ConsumerTests(c) \/ ConsumerYields(c)
      PROVE  PlacesInv'
  <2>1. CASE ConsumerWorks(c) \/ ConsumerTests(c)
    <3>1. UNCHANGED <<ready, incoming, hub, registered, idle>> /\ sched'.task = sched.task
      BY <2>1 DEF ConsumerWorks, ConsumerTests, hubVars, taskVars, TypeOK
    <3>2. QED BY <3>1, NoneMoved DEF Running
  <2>2. CASE ConsumerYields(c)
    <3>1. UNCHANGED <<incoming, hub, registered>> /\ sched.task = c /\ sched' = SchedAt("top")
          /\ \/ idle' = [idle EXCEPT ![c] = "asleep"] /\ UNCHANGED ready
             \/ ready' = Append(ready, c) /\ UNCHANGED idle
      BY <2>2 DEF ConsumerYields, hubVars
    <3>2. QED BY <1>6, <1>7, <3>1
  <2>3. QED BY <1>9, <2>1, <2>2
<1>10. ASSUME NEW t \in Callers, CallerPongs(t) \/ CallerCalls(t) \/ CallerSelects(t)
       PROVE  PlacesInv'
  <2>1. CASE CallerPongs(t) \/ CallerCalls(t)
    <3>1. UNCHANGED <<ready, incoming, hub, registered, idle>> /\ sched'.task = sched.task
      BY <2>1 DEF CallerPongs, CallerCalls, hubVars, taskVars, TypeOK
    <3>2. QED BY <3>1, NoneMoved DEF Running
  <2>2. CASE CallerSelects(t)
    BY <1>5, <2>2 DEF CallerSelects, Registers
  <2>3. QED BY <1>10, <2>1, <2>2
<1>11. QED BY <1>2, <1>3, <1>4, <1>8, <1>9, <1>10 DEF Scheduler

\* A wake-up among the ready ones is no task.
LEMMA WokenPlaces ==
    ASSUME TypeOK, PlacesInv, NEW c \in Consumers, ready' = Append(ready, Wake(c)),
           UNCHANGED <<incoming, hub, registered, idle, sched>>
    PROVE  PlacesInv'
<1> USE Distinct, ReadyTyped
<1>1. ToSet(ready') = ToSet(ready) \cup {Wake(c)} /\ Once(ready')
  BY AppendHolds DEF PlacesInv
<1>2. Once(ready)' /\ Once(incoming)'
  BY <1>1 DEF PlacesInv, Once
<1>3. QED BY <1>1, <1>2 DEF PlacesInv, Placed, InReady, Queued, InHub, Idle, Running

\* An idle task becomes ready.
LEMMA ReadiedPlaces ==
    ASSUME TypeOK, PlacesInv, NEW t \in Tasks, Idle(t), ready' = Append(ready, t),
           idle' = [idle EXCEPT ![t] = "no"], UNCHANGED <<incoming, hub, registered, sched>>
    PROVE  PlacesInv'
<1> USE Distinct, ReadyTyped
<1>1. ~ InReady(t)
  BY DEF PlacesInv, Placed
<1>2. ToSet(ready') = ToSet(ready) \cup {t} /\ Once(ready')
  BY <1>1, AppendHolds DEF PlacesInv, InReady
<1>3. ~ Idle(t)' /\ \A u \in Tasks : u # t => (Idle(u)' <=> Idle(u))
  BY DEF Idle, TypeOK
<1>4. InReady(t)' /\ \A u \in Tasks : u # t => (InReady(u)' <=> InReady(u))
  BY <1>2 DEF InReady
<1>5. Once(ready)' /\ Once(incoming)'
  BY <1>2 DEF PlacesInv, Once
<1>6. QED BY <1>3, <1>4, <1>5 DEF PlacesInv, Placed, Queued, InHub, Running

LEMMA OutsidePlaces ==
    ASSUME TypeOK, SchedInv, PlacesInv, Outside
    PROVE  PlacesInv'
<1> USE Distinct
<1>1. ASSUME NEW t \in Others, ThreadReturns(t) PROVE PlacesInv'
  BY <1>1, ReadiedPlaces DEF ThreadReturns, Idle, hubVars
<1>2. ASSUME NEW t \in Consumers \cup Callers, ThreadWakes(t) PROVE PlacesInv'
  <2>1. CASE t \in Consumers
    BY <1>2, <2>1, WokenPlaces DEF ThreadWakes, Woken, hubVars
  <2>2. CASE t \notin Consumers
    BY <1>2, <2>2, NoneMoved DEF ThreadWakes, Running, hubVars
  <2>3. QED BY <2>1, <2>2
<1>3. ASSUME NEW t \in Others, NEW c \in Consumers, TaskAddsWork(t, c) PROVE PlacesInv'
  <2>1. UNCHANGED <<incoming, hub, registered, sched>> /\ Running(t)
    BY <1>3 DEF TaskAddsWork, Runs, Running, hubVars
  <2>2. CASE InReady(c)
    BY <1>3, <2>1, <2>2, NoneMoved DEF TaskAddsWork, Running
  <2>3. CASE ~ InReady(c)
    <3>1. Idle(c)
      BY <2>1, <2>3 DEF PlacesInv, Placed, Running
    <3>2. ready' = Append(ready, c) /\ idle' = [idle EXCEPT ![c] = "no"]
      BY <1>3, <2>3 DEF TaskAddsWork
    <3>3. QED BY <2>1, <3>1, <3>2, ReadiedPlaces
  <2>4. QED BY <2>2, <2>3
<1>4. CASE ThreadSets \/ Quits
  BY <1>4, NoneMoved DEF ThreadSets, Quits, Running, hubVars, taskVars
<1>5. ASSUME NEW t \in Consumers \cup Callers, ThreadHandsIn(t) PROVE PlacesInv'
  BY <1>5, NoneMoved DEF ThreadHandsIn, Running, hubVars, taskVars
<1>6. ASSUME NEW t \in Others, DataArrives(t) \/ TimePasses(t) PROVE PlacesInv'
  BY <1>6, NoneMoved DEF DataArrives, TimePasses, Running, hubVars
<1>7. QED BY <1>1, <1>2, <1>3, <1>4, <1>5, <1>6 DEF Outside, Threads

LEMMA HubPlaces ==
    ASSUME TypeOK, HubInv, PlacesInv, Hub
    PROVE  PlacesInv'
<1> USE Distinct, ReadyTyped
<1>1. UNCHANGED <<sched, idle>>
  BY DEF Hub, HubLooks, HubFinds, HubPongs, HubTakes, HubDrained, HubTimesOut, HubReturns,
         HubSets, taskVars
<1>2. CASE UNCHANGED <<ready, incoming>> /\ (registered \cup hub.back)' = registered \cup hub.back
  BY <1>1, <1>2 DEF PlacesInv, Placed, Once, InReady, Queued, InHub, Idle, Running
<1>3. CASE /\ incoming # <<>> /\ incoming' = Tail(incoming) /\ UNCHANGED ready
           /\ (registered \cup hub.back)' = registered \cup hub.back \cup {Head(incoming)}
  <2> DEFINE u == Head(incoming)
  <2>1. /\ u \in Tasks /\ ToSet(incoming) = {u} \cup ToSet(incoming') /\ Once(incoming')
        /\ u \notin ToSet(incoming')
    BY <1>3, HeadHolds DEF PlacesInv
  <2>2. Queued(u)
    BY <2>1 DEF Queued
  <2>3. Once(ready)' /\ Once(incoming)'
    BY <1>3, <2>1 DEF PlacesInv, Once
  <2> HIDE DEF u
  <2>4. \A t \in Tasks : InHub(t)' <=> InHub(t) \/ t = u
    BY <1>3 DEF InHub, u
  <2>5. \A t \in Tasks : Queued(t)' <=> Queued(t) /\ t # u
    BY <2>1 DEF Queued
  <2>6. QED BY <1>1, <1>3, <2>1, <2>2, <2>3, <2>4, <2>5
               DEF PlacesInv, Placed, InReady, Idle, Running
<1>4. ASSUME NEW u \in hub.back, ready' = Append(ready, u), UNCHANGED incoming,
             (registered \cup hub.back)' = (registered \cup hub.back) \ {u}
      PROVE  PlacesInv'
  <2>1. u \in Tasks /\ InHub(u)
    BY HubShape DEF InHub
  <2>2. ~ InReady(u) /\ u \in Entries
    BY <2>1 DEF PlacesInv, Placed
  <2>3. ToSet(ready') = ToSet(ready) \cup {u} /\ Once(ready')
    BY <1>4, <2>2, AppendHolds DEF PlacesInv, InReady
  <2>4. Once(ready)' /\ Once(incoming)'
    BY <1>4, <2>3 DEF PlacesInv, Once
  <2>5. \A t \in Tasks : InHub(t)' <=> InHub(t) /\ t # u
    BY <1>4 DEF InHub
  <2>6. \A t \in Tasks : InReady(t)' <=> InReady(t) \/ t = u
    BY <2>3 DEF InReady
  <2>7. QED BY <1>1, <1>4, <2>1, <2>2, <2>4, <2>5, <2>6
               DEF PlacesInv, Placed, Queued, Idle, Running
<1>5. QED BY <1>2, <1>3, <1>4, HubHolds

LEMMA StepKeepsPlaces ==
    ASSUME TypeOK, SchedInv, HubInv, PlacesInv, [Next]_vars
    PROVE  PlacesInv'
<1>1. CASE UNCHANGED vars
  BY <1>1, NoneMoved DEF vars, hubVars, taskVars, Running
<1>2. QED BY <1>1, SchedulerPlaces, HubPlaces, OutsidePlaces, NextSteps

-----------------------------------------------------------------------------
(* Signals.                                                                *)

LEMMA StepKeepsPing ==
    ASSUME TypeOK, SchedInv, HubInv, PlacesInv, PingInv, [Next]_vars
    PROVE  PingInv'
<1> USE Distinct, ReadyTyped
<1>0. hub \in HubType /\ hub' # HubAt("dead")
  <2>1. HubAt("dead").at = "dead"
    BY DEF HubAt
  <2>2. QED BY <2>1, HubShape, StepKeepsHub DEF HubInv
<1>1. CASE Scheduler
  <2>1. UNCHANGED <<hub, hasQuit>>
    BY <1>1 DEF Scheduler, SchedulerTests, SchedulerWakes, SchedulerClears, CyclePops, CycleWakes,
                SchedulerPings, SchedulerEnds, TaskSelects, TaskYields, TaskLeaves, ConsumerWorks,
                ConsumerTests, ConsumerYields, CallerPongs, CallerCalls, CallerSelects, Registers,
                hubVars
  <2>2. CASE SchedulerPings \/ SchedulerEnds
    BY <2>1, <2>2 DEF SchedulerPings, SchedulerEnds, PingInv, SchedAt
  <2>3. ASSUME UNCHANGED <<pinged, incoming>>, sched.at # "ping", sched.at # "done",
               sched'.at # "done", sched'.at = "last" => hasQuit
        PROVE  PingInv'
    BY <2>1, <2>3 DEF PingInv
  <2>4. CASE SchedulerTests \/ SchedulerWakes \/ SchedulerClears \/ CyclePops \/ CycleWakes
    BY <2>3, <2>4 DEF SchedulerTests, SchedulerWakes, SchedulerClears, CyclePops, CycleWakes,
                      SchedAt, hubVars
  <2>5. ASSUME sched'.at = "ping" PROVE PingInv'
    BY <2>1, <2>5 DEF PingInv
  <2>6. ASSUME NEW t \in Others, TaskSelects(t) \/ TaskYields(t) \/ TaskLeaves(t) PROVE PingInv'
    BY <2>3, <2>5, <2>6 DEF TaskSelects, TaskYields, TaskLeaves, Registers, Runs, SchedAt, hubVars
  <2>7. ASSUME NEW c \in Consumers, ConsumerWorks(c) \/ ConsumerTests(c) \/ ConsumerYields(c)
        PROVE  PingInv'
    <3>1. /\ UNCHANGED <<pinged, incoming>> /\ sched.at \in Holding
          /\ sched'.at \in {"serve", "sleep", "again", "top"}
      BY <2>7 DEF ConsumerWorks, ConsumerTests, ConsumerYields, Runs, SchedAt, Holding, hubVars,
                  TypeOK
    <3>2. QED BY <2>3, <3>1 DEF Holding
  <2>8. ASSUME NEW t \in Callers, CallerPongs(t) \/ CallerCalls(t) PROVE PingInv'
    <3>1. /\ UNCHANGED <<pinged, incoming>> /\ sched.at \in Holding /\ sched'.at = "serve"
      BY <2>8 DEF CallerPongs, CallerCalls, Runs, Holding, hubVars, TypeOK
    <3>2. QED BY <2>3, <3>1 DEF Holding
  <2>9. ASSUME NEW t \in Callers, CallerSelects(t) PROVE PingInv'
    BY <2>5, <2>9 DEF CallerSelects, Registers
  <2>10. QED BY <1>1, <2>2, <2>4, <2>6, <2>7, <2>8, <2>9 DEF Scheduler
<1>2. CASE Hub
  <2>1. UNCHANGED <<sched, hasQuit>>
    BY <1>2 DEF Hub, HubLooks, HubFinds, HubPongs, HubTakes, HubDrained, HubTimesOut, HubReturns,
                HubSets
  <2>2. CASE HubLooks
    BY <2>1, <2>2 DEF HubLooks, HubAt, PingInv
  <2>3. CASE HubPongs
    BY <1>0, <2>1, <2>3 DEF HubPongs, PingInv, HubType
  <2>4. CASE HubTakes
    <3>1. hub.at = "drain" /\ UNCHANGED pinged /\ (hub' = hub \/ hub' = HubAt("dead"))
      BY <2>4 DEF HubTakes
    <3>2. QED BY <1>0, <2>1, <3>1 DEF PingInv
  <2>5. CASE HubDrained
    <3>1. /\ hub.at = "drain" /\ hub.next = "top" /\ incoming = <<>> /\ UNCHANGED <<incoming, pinged>>
          /\ hub' = [hub EXCEPT !.at = IF hub.back = {} THEN "top" ELSE "return"]
      BY <2>5 DEF HubDrained, HubInv
    <3>2. hub'.at \in {"top", "return"} /\ hub'.next = "top"
      BY <1>0, <3>1 DEF HubType
    <3>3. QED BY <2>1, <3>1, <3>2 DEF PingInv
  <2>6. ASSUME UNCHANGED <<incoming, pinged>>, hub.at \notin {"drain", "top", "done"},
               \/ hub'.at = "top"
               \/ hub.at = "select" /\ hub'.at = "return"
               \/ hub.at \in {"return", "set"} /\ hub'.at \in {"return", "set"} /\ hub'.next = hub.next
               \/ hub.at = "set" /\ hub'.at = hub.next /\ hub.next = "select"
        PROVE  PingInv'
    BY <2>1, <2>6 DEF PingInv
  <2>7. CASE HubFinds
    BY <1>0, <2>6, <2>7 DEF HubFinds, HubType
  <2>8. CASE HubTimesOut
    <3>1. /\ UNCHANGED <<incoming, pinged>> /\ hub.at = "select"
          /\ \/ hub' = HubAt("top")
             \/ \E t : hub' = [hub EXCEPT !.at = "return", !.back = {t}, !.next = "top"]
      BY <2>8 DEF HubTimesOut
    <3>2. HubAt("top").at = "top"
      BY DEF HubAt
    <3>3. \A t : [hub EXCEPT !.at = "return", !.back = {t}, !.next = "top"].at = "return"
      BY <1>0 DEF HubType
    <3>4. hub'.at \in {"top", "return"}
      BY <3>1, <3>2, <3>3
    <3>5. QED BY <2>6, <3>1, <3>4
  <2>9. CASE HubReturns
    <3>1. /\ UNCHANGED <<incoming, pinged>> /\ hub.at = "return"
          /\ \/ hub' = HubAt("dead")
             \/ \E t : hub' = [hub EXCEPT !.at = "set", !.back = @ \ {t}]
      BY <2>9 DEF HubReturns
    <3>2. hub'.at = "set" /\ hub'.next = hub.next
      BY <1>0, <3>1 DEF HubType
    <3>3. QED BY <2>6, <3>1, <3>2
  <2>10. CASE HubSets
    <3>1. /\ UNCHANGED <<incoming, pinged>> /\ hub.at = "set"
          /\ hub' = [hub EXCEPT !.at = IF hub.back = {} THEN hub.next ELSE "return"]
      BY <2>10 DEF HubSets
    <3>2. /\ hub'.at = (IF hub.back = {} THEN hub.next ELSE "return")
          /\ hub'.next = hub.next /\ hub.next \in {"top", "select"}
      BY <1>0, <3>1 DEF HubType
    <3>3. QED BY <2>6, <3>1, <3>2
  <2>11. QED BY <1>2, <2>2, <2>3, <2>4, <2>5, <2>7, <2>8, <2>9, <2>10 DEF Hub
<1>3. CASE Outside \/ UNCHANGED vars
  <2>1. UNCHANGED <<sched, hub, incoming, pinged>> /\ (hasQuit => hasQuit')
    BY <1>3 DEF Outside, Threads, ThreadSets, ThreadReturns, ThreadWakes, Quits,
                TaskAddsWork, ThreadHandsIn, DataArrives, TimePasses, hubVars, vars
  <2>2. QED BY <2>1 DEF PingInv
<1>4. QED BY <1>1, <1>2, <1>3, NextSteps

LEMMA StepKeepsWoken ==
    ASSUME TypeOK, SchedulerWoken, [Next]_vars
    PROVE  SchedulerWoken'
<1>1. CASE Scheduler
  <2>1. CASE SchedulerTests
    BY <2>1 DEF SchedulerTests, SchedAt, SchedulerWoken
  <2>2. CASE ~ SchedulerTests
    <3>1. sched'.at # "wait"
      BY <1>1, <2>2
         DEF Scheduler, SchedulerWakes, SchedulerClears, CyclePops, CycleWakes,
             SchedulerPings, SchedulerEnds, TaskSelects, TaskYields, TaskLeaves, ConsumerWorks,
             ConsumerTests, ConsumerYields, CallerPongs, CallerCalls, CallerSelects, Registers,
             SchedAt, Runs, TypeOK
    <3>2. QED BY <3>1 DEF SchedulerWoken
  <2>3. QED BY <2>1, <2>2
<1>2. CASE HubReturns
  <2>1. /\ UNCHANGED <<event, setting, sched>>
        /\ \/ UNCHANGED ready /\ hub.at # "set"
           \/ \E t : hub' = [hub EXCEPT !.at = "set", !.back = @ \ {t}]
    BY <1>2 DEF HubReturns
  <2>2. (UNCHANGED ready /\ hub.at # "set") \/ hub'.at = "set"
    BY <2>1, HubShape DEF HubType
  <2>3. QED BY <2>1, <2>2 DEF SchedulerWoken
<1>3. CASE HubSets
  BY <1>3 DEF HubSets, Signalled, SchedulerWoken
<1>4. CASE Hub /\ ~ HubReturns /\ ~ HubSets
  <2>1. UNCHANGED <<ready, event, setting, sched>> /\ hub.at # "set"
    BY <1>4 DEF Hub, HubLooks, HubFinds, HubPongs, HubTakes, HubDrained, HubTimesOut
  <2>2. QED BY <2>1 DEF SchedulerWoken
<1>5. CASE Outside
  <2>1. UNCHANGED <<hub, sched>>
    BY <1>5 DEF Outside, Threads, ThreadSets, ThreadReturns, ThreadWakes, Quits,
                TaskAddsWork, ThreadHandsIn, DataArrives, TimePasses, hubVars
  <2>2. \/ UNCHANGED <<ready, event, setting>>
        \/ event' = TRUE
        \/ setting' = setting + 1
        \/ \E t : Runs(t)
    BY <1>5 DEF Outside, Threads, ThreadSets, ThreadReturns, ThreadWakes, Quits,
                TaskAddsWork, ThreadHandsIn, DataArrives, TimePasses
  <2>3. setting \in Nat
    BY RecocoAssumption DEF TypeOK
  <2>4. QED BY <2>1, <2>2, <2>3 DEF SchedulerWoken, Runs
<1>6. CASE UNCHANGED vars
  BY <1>6 DEF vars, hubVars, SchedulerWoken
<1>7. QED BY <1>1, <1>2, <1>3, <1>4, <1>5, <1>6, NextSteps

\* A ready entry stays, or is the one that the scheduler takes.
LEMMA ReadyStays ==
    ASSUME TypeOK, SchedInv, HubInv, PlacesInv, [Next]_vars, NEW x \in Entries, InReady(x)
    PROVE  \/ InReady(x)'
           \/ x \in Tasks /\ sched' = [at |-> "run", task |-> x]
           \/ \E c \in Consumers : x = Wake(c) /\ InReady(c)'
<1> USE Distinct, ReadyTyped
<1>1. \A y \in Entries : ToSet(Append(ready, y)) = ToSet(ready) \cup {y}
  BY AppendHolds
<1>2. CASE CyclePops
  <2>1. CASE ready = <<>>
    BY <2>1, NoneHeld DEF InReady
  <2>2. CASE ready # <<>>
    <3>1. /\ Head(ready) \in Tasks /\ ready' = Tail(ready)
          /\ sched' = [at |-> "run", task |-> Head(ready)]
      BY <1>2, <2>2 DEF CyclePops
    <3>2. ToSet(ready) = {Head(ready)} \cup ToSet(ready')
      BY <2>2, <3>1, HeadHolds
    <3>3. QED BY <3>1, <3>2 DEF InReady
  <2>3. QED BY <2>1, <2>2
<1>3. CASE CycleWakes
  <2>1. PICK t \in Consumers :
          /\ ready # <<>> /\ Head(ready) = Wake(t)
          /\ \/ InReady(t) /\ ready' = Tail(ready)
             \/ ready' = <<t>> \o Tail(ready)
    BY <1>3 DEF CycleWakes
  <2>2. Tail(ready) \in Seq(Entries) /\ ToSet(ready) = {Wake(t)} \cup ToSet(Tail(ready))
    BY <2>1, HeadHolds
  <2>3. t \in Entries
    OBVIOUS
  <2>4. ToSet(<<t>> \o Tail(ready)) = {t} \cup ToSet(Tail(ready))
    BY <2>2, <2>3, FrontHolds
  <2>5. InReady(t)'
    BY <2>1, <2>2, <2>4 DEF InReady
  <2>6. x = Wake(t) \/ InReady(x)'
    BY <2>1, <2>2, <2>4 DEF InReady
  <2>7. QED BY <2>5, <2>6
<1>4. CASE Scheduler /\ ~ CyclePops /\ ~ CycleWakes
  <2>1. ready' = ready \/ \E y \in Tasks : ready' = Append(ready, y)
    BY <1>4 DEF Scheduler, SchedulerTests, SchedulerWakes, SchedulerClears,
                SchedulerPings, SchedulerEnds, TaskSelects, TaskYields, TaskLeaves, ConsumerWorks,
                ConsumerTests, ConsumerYields, CallerPongs, CallerCalls, CallerSelects
  <2>2. QED BY <1>1, <2>1 DEF InReady
<1>5. CASE Hub
  <2>1. ready' = ready \/ \E y \in Tasks : ready' = Append(ready, y)
    <3>1. \A y \in hub.back : y \in Tasks
      BY HubShape
    <3>2. \/ UNCHANGED ready
          \/ \E y \in hub.back : ready' = Append(ready, y)
      BY <1>5, HubHolds
    <3>3. QED BY <3>1, <3>2
  <2>2. QED BY <1>1, <2>1 DEF InReady
<1>6. CASE Outside \/ UNCHANGED vars
  <2>1. ready' = ready \/ \E y \in Entries : ready' = Append(ready, y)
    BY <1>6 DEF Outside, Threads, ThreadSets, ThreadReturns, ThreadWakes, Woken, Quits,
                TaskAddsWork, ThreadHandsIn, DataArrives, TimePasses, vars
  <2>2. QED BY <1>1, <2>1 DEF InReady
<1>7. QED BY <1>2, <1>3, <1>4, <1>5, <1>6, NextSteps

\* Work is added with the wake-up to come, and is done by its task alone.
LEMMA WorkOf ==
    ASSUME TypeOK, WorkInv, SchedInv, [Next]_vars, NEW t \in Tasks
    PROVE  \/ work'[t] = work[t] /\ handing'[t] = handing[t]
           \/ handing'[t] > 0
           \/ Runs(t) \/ sched = [at |-> "serve", task |-> t]
           \/ t \in Consumers /\ InReady(t)'
           \/ work'[t] = work[t] /\ t \in Consumers /\ InReady(Wake(t))'
           \/ work'[t] = work[t] /\ t \in Callers /\ t \in readable'
<1> USE Distinct, ReadyTyped
<1>0. /\ work \in [Tasks -> 0 .. MaxWork] /\ handing \in [Tasks -> 0 .. MaxWork]
      /\ work[t] \in Nat /\ handing[t] \in Nat
  BY RecocoAssumption DEF TypeOK
<1>1. ASSUME NEW u \in Consumers \cup Callers, ThreadHandsIn(u)
      PROVE  handing'[t] > 0 \/ (work'[t] = work[t] /\ handing'[t] = handing[t])
  BY <1>0, <1>1 DEF ThreadHandsIn
<1>2. ASSUME NEW u \in Consumers \cup Callers, ThreadWakes(u)
      PROVE  /\ work' = work
             /\ \/ handing'[t] = handing[t]
                \/ t \in Consumers /\ InReady(Wake(t))'
                \/ t \in Callers /\ t \in readable'
  <2>1. CASE u # t
    BY <1>0, <1>2, <2>1 DEF ThreadWakes
  <2>2. CASE u = t /\ t \in Consumers
    <3>1. ready' = Append(ready, Wake(t)) /\ work' = work
      BY <1>2, <2>2 DEF ThreadWakes, Woken
    <3>2. ToSet(ready') = ToSet(ready) \cup {Wake(t)}
      BY <2>2, <3>1, AppendHolds
    <3>3. QED BY <2>2, <3>1, <3>2 DEF InReady
  <2>3. CASE u = t /\ t \notin Consumers
    BY <1>2, <2>3 DEF ThreadWakes
  <2>4. QED BY <2>1, <2>2, <2>3
<1>3. ASSUME NEW u \in Others, NEW c \in Consumers, TaskAddsWork(u, c)
      PROVE  /\ handing' = handing
             /\ work'[t] = work[t] \/ (t \in Consumers /\ InReady(t)')
  <2>1. /\ handing' = handing /\ work' = [work EXCEPT ![c] = @ + 1]
        /\ (InReady(c) /\ ready' = ready) \/ ready' = Append(ready, c)
    BY <1>3 DEF TaskAddsWork
  <2>2. c \in Entries
    OBVIOUS
  <2>3. ToSet(Append(ready, c)) = ToSet(ready) \cup {c}
    BY <2>2, AppendHolds
  <2>4. InReady(c)'
    BY <2>1, <2>3 DEF InReady
  <2>5. QED BY <1>0, <2>1, <2>4
<1>4. ASSUME NEW c \in Consumers, ConsumerWorks(c)
      PROVE  handing' = handing /\ (work'[t] = work[t] \/ Runs(t))
  BY <1>0, <1>4 DEF ConsumerWorks
<1>5. ASSUME NEW u \in Callers, CallerCalls(u)
      PROVE  handing' = handing /\ (work'[t] = work[t] \/ sched = [at |-> "serve", task |-> t])
  BY <1>0, <1>5 DEF CallerCalls
<1>6. ASSUME \A u \in Consumers \cup Callers : ~ ThreadHandsIn(u) /\ ~ ThreadWakes(u),
             \A u \in Others, c \in Consumers : ~ TaskAddsWork(u, c),
             \A c \in Consumers : ~ ConsumerWorks(c), \A u \in Callers : ~ CallerCalls(u)
      PROVE  UNCHANGED <<work, handing>>
  BY <1>6 DEF Next, Scheduler, SchedulerTests, SchedulerWakes, SchedulerClears, CyclePops, CycleWakes,
              SchedulerPings, SchedulerEnds, TaskSelects, TaskYields, TaskLeaves,
              ConsumerTests, ConsumerYields, CallerPongs, CallerSelects, Hub, HubLooks,
              HubFinds, HubPongs, HubTakes, HubDrained, HubTimesOut, HubReturns, HubSets, Threads,
              ThreadSets, ThreadReturns, Quits, DataArrives, TimePasses, workVars, vars
<1>7. QED BY <1>1, <1>2, <1>3, <1>4, <1>5, <1>6

\* A consumer that runs is not about to sleep unless it has no work.
LEMMA ConsumerRuns ==
    ASSUME TypeOK, SchedInv, [Next]_vars, NEW c \in Consumers, sched.task = c, sched.at # "sleep"
    PROVE  \/ sched'.task = c /\ sched'.at # "sleep"
           \/ InReady(c)'
           \/ work'[c] = 0
<1> USE Distinct, ReadyTyped
<1>0. sched.at \in Holding
  BY DEF SchedInv
<1>1. CASE ConsumerWorks(c)
  BY <1>1 DEF ConsumerWorks, TypeOK
<1>2. CASE ConsumerTests(c)
  BY <1>2 DEF ConsumerTests, workVars, TypeOK
<1>3. CASE ConsumerYields(c)
  <2>1. ready' = Append(ready, c) /\ c \in Entries
    BY <1>3 DEF ConsumerYields
  <2>2. QED BY <2>1, AppendHolds DEF InReady
<1>4. CASE ~ ConsumerWorks(c) /\ ~ ConsumerTests(c) /\ ~ ConsumerYields(c)
  <2>1. sched' = sched
    <3>1. ASSUME NEW d \in Consumers, d # c, ConsumerWorks(d) \/ ConsumerTests(d) \/ ConsumerYields(d)
          PROVE  FALSE
      BY <3>1 DEF ConsumerWorks, ConsumerTests, ConsumerYields, Runs
    <3>2. ASSUME NEW t \in Others, TaskSelects(t) \/ TaskYields(t) \/ TaskLeaves(t) PROVE FALSE
      BY <3>2 DEF TaskSelects, TaskYields, TaskLeaves, Runs
    <3>3. ASSUME NEW t \in Callers, CallerPongs(t) \/ CallerCalls(t) \/ CallerSelects(t) PROVE FALSE
      BY <3>3 DEF CallerPongs, CallerCalls, CallerSelects, Runs
    <3>4. ~ (SchedulerTests \/ SchedulerWakes \/ SchedulerClears \/ CyclePops \/ CycleWakes
             \/ SchedulerPings \/ SchedulerEnds)
      BY <1>0 DEF Holding, SchedulerTests, SchedulerWakes, SchedulerClears, CyclePops, CycleWakes,
                  SchedulerPings, SchedulerEnds
    <3>5. ~ Scheduler
      BY <1>4, <3>1, <3>2, <3>3, <3>4 DEF Scheduler
    <3>6. QED BY <3>5, NextSteps, SchedUntouched
  <2>2. QED BY <2>1
<1>5. QED BY <1>1, <1>2, <1>3, <1>4

\* A caller leaves its calls when there are none, and its pinger when it runs.
LEMMA CallerRuns ==
    ASSUME TypeOK, SchedInv, [Next]_vars, NEW t \in Callers
    PROVE  /\ sched.task = t => sched'.task = t \/ work'[t] = 0
           /\ t \in readable => t \in readable' \/ sched'.task = t
<1> USE Distinct
<1>1. ASSUME sched.task = t PROVE sched'.task = t \/ work'[t] = 0
  <2>0. sched.at \in Holding
    BY <1>1 DEF SchedInv
  <2>1. CASE CallerPongs(t) \/ CallerCalls(t) \/ CallerSelects(t)
    BY <1>1, <2>1 DEF CallerPongs, CallerCalls, CallerSelects, workVars, TypeOK
  <2>2. CASE ~ CallerPongs(t) /\ ~ CallerCalls(t) /\ ~ CallerSelects(t)
    <3>1. ASSUME NEW d \in Callers, d # t, CallerPongs(d) \/ CallerCalls(d) \/ CallerSelects(d)
          PROVE  FALSE
      BY <1>1, <3>1 DEF CallerPongs, CallerCalls, CallerSelects, Runs
    <3>2. ASSUME NEW u \in Others, TaskSelects(u) \/ TaskYields(u) \/ TaskLeaves(u) PROVE FALSE
      BY <1>1, <3>2 DEF TaskSelects, TaskYields, TaskLeaves, Runs
    <3>3. ASSUME NEW c \in Consumers, ConsumerWorks(c) \/ ConsumerTests(c) \/ ConsumerYields(c)
          PROVE  FALSE
      BY <1>1, <3>3 DEF ConsumerWorks, ConsumerTests, ConsumerYields, Runs
    <3>4. ~ (SchedulerTests \/ SchedulerWakes \/ SchedulerClears \/ CyclePops \/ CycleWakes
             \/ SchedulerPings \/ SchedulerEnds)
      BY <2>0 DEF Holding, SchedulerTests, SchedulerWakes, SchedulerClears, CyclePops, CycleWakes,
                  SchedulerPings, SchedulerEnds
    <3>5. ~ Scheduler
      BY <2>2, <3>1, <3>2, <3>3, <3>4 DEF Scheduler
    <3>6. sched' = sched
      BY <3>5, NextSteps, SchedUntouched
    <3>7. QED BY <1>1, <3>6
  <2>3. QED BY <2>1, <2>2
<1>2. ASSUME t \in readable PROVE t \in readable' \/ sched'.task = t
  <2>1. ASSUME NEW d \in Callers, CallerPongs(d) PROVE t \in readable' \/ sched'.task = t
    BY <1>2, <2>1 DEF CallerPongs, Runs, TypeOK
  <2>2. ASSUME NEW u \in Others, TaskSelects(u) PROVE t \in readable'
    BY <1>2, <2>2 DEF TaskSelects
  <2>3. ASSUME \A d \in Callers : ~ CallerPongs(d), \A u \in Others : ~ TaskSelects(u)
        PROVE  t \in readable'
    BY <1>2, <2>3 DEF Next, Scheduler, SchedulerTests, SchedulerWakes, SchedulerClears, CyclePops,
              CycleWakes, SchedulerPings, SchedulerEnds, TaskYields, TaskLeaves, ConsumerWorks,
              ConsumerTests, ConsumerYields, CallerCalls, CallerSelects, Hub, HubLooks,
              HubFinds, HubPongs, HubTakes, HubDrained, HubTimesOut, HubReturns, HubSets, Threads,
              ThreadSets, ThreadReturns, ThreadWakes, Quits, TaskAddsWork, ThreadHandsIn,
              DataArrives, TimePasses, taskVars, vars
  <2>4. QED BY <2>1, <2>2, <2>3
<1>3. QED BY <1>1, <1>2

LEMMA StepKeepsWorkers ==
    ASSUME TypeOK, WorkInv, SchedInv, HubInv, PlacesInv, WorkersWoken, [Next]_vars
    PROVE  WorkersWoken'
<1> USE Distinct
<1>1. ASSUME NEW c \in Consumers, work'[c] > 0
      PROVE  \/ handing'[c] > 0 \/ InReady(Wake(c))' \/ InReady(c)'
             \/ sched'.task = c /\ sched'.at # "sleep"
  <2>1. ASSUME InReady(c) PROVE InReady(c)' \/ (sched'.task = c /\ sched'.at # "sleep")
    BY <2>1, ReadyStays
  <2>2. ASSUME InReady(Wake(c)) PROVE InReady(Wake(c))' \/ InReady(c)'
    <3>1. \A d \in Consumers : Wake(c) = Wake(d) => c = d
      BY DEF Wake
    <3>2. QED BY <2>2, <3>1, ReadyStays
  <2>3. ASSUME sched.task = c, sched.at # "sleep"
        PROVE  InReady(c)' \/ (sched'.task = c /\ sched'.at # "sleep")
    BY <1>1, <2>3, ConsumerRuns
  <2>4. CASE work'[c] = work[c] /\ handing'[c] = handing[c]
    BY <1>1, <2>1, <2>2, <2>3, <2>4 DEF WorkersWoken
  <2>5. CASE Runs(c) \/ sched = [at |-> "serve", task |-> c]
    BY <2>3, <2>5 DEF Runs
  <2>6. QED BY <2>4, <2>5, WorkOf
<1>2. ASSUME NEW t \in Callers, work'[t] > 0
      PROVE  handing'[t] > 0 \/ t \in readable' \/ sched'.task = t
  <2>1. CASE work'[t] = work[t] /\ handing'[t] = handing[t]
    BY <1>2, <2>1, CallerRuns DEF WorkersWoken
  <2>2. CASE Runs(t) \/ sched = [at |-> "serve", task |-> t]
    BY <1>2, <2>2, CallerRuns DEF Runs
  <2>3. QED BY <2>1, <2>2, WorkOf
<1>3. QED BY <1>1, <1>2 DEF WorkersWoken, InReady

-----------------------------------------------------------------------------
(* The beginning.                                                          *)

LEMMA EachFirst ==
    ASSUME NEW S, IsFiniteSet(S), NEW s \in SetToSeqs(S)
    PROVE  s \in Seq(S) /\ ToSet(s) = S /\ \A i, j \in DOMAIN s : i # j => s[i] # s[j]
<1> DEFINE n == Cardinality(S)
<1>1. n \in Nat /\ s \in [1 .. n -> S] /\ \A i, j \in 1 .. n : i # j => s[i] # s[j]
  BY FS_CardinalityType DEF SetToSeqs
<1>2. ASSUME NEW x \in S PROVE \E i \in 1 .. n : s[i] = x
  <2>1. SUFFICES ASSUME \A i \in 1 .. n : s[i] # x PROVE FALSE
    OBVIOUS
  <2>2. IsFiniteSet(S \ {x}) /\ Cardinality(S \ {x}) = n - 1
    BY FS_RemoveElement
  <2>3. s \in [1 .. n -> S \ {x}]
    BY <1>1, <2>1
  <2>4. IsFiniteSet(1 .. n) /\ Cardinality(1 .. n) = n
    BY <1>1, FS_Interval
  <2>5. \E i, j \in 1 .. n : i # j /\ s[i] = s[j]
    <3> HIDE DEF n
    <3>1. n - 1 < n
      BY <1>1
    <3>2. QED BY <2>2, <2>3, <2>4, <3>1, FS_PigeonHole
  <2>6. QED BY <1>1, <2>5
<1> HIDE DEF n
<1>3. s \in Seq(S) /\ DOMAIN s = 1 .. n
  BY <1>1
<1>4. ToSet(s) = S
  BY <1>1, <1>2, <1>3 DEF ToSet
<1>5. QED BY <1>1, <1>3, <1>4

LEMMA SeqGrows ==
    ASSUME NEW S, NEW T, S \subseteq T, NEW s \in Seq(S)
    PROVE  s \in Seq(T)
<1>1. Len(s) \in Nat /\ s \in [1 .. Len(s) -> S]
  OBVIOUS
<1>2. s \in [1 .. Len(s) -> T]
  BY <1>1
<1>3. QED BY <1>1, <1>2

LEMMA Beginning == Init => RecocoInv
<1> SUFFICES ASSUME Init PROVE RecocoInv
  OBVIOUS
<1> USE Distinct
<1>1. /\ ready \in Seq(Consumers \cup Others) /\ ToSet(ready) = Consumers \cup Others
      /\ incoming \in Seq(Callers) /\ ToSet(incoming) = Callers
      /\ Once(ready) /\ Once(incoming)
  <2>1. IsFiniteSet(Consumers \cup Others) /\ IsFiniteSet(Callers)
    <3>1. Consumers \cup Others \subseteq Tasks /\ Callers \subseteq Tasks
      BY DEF Tasks
    <3>2. QED BY <3>1, RecocoAssumption, FS_Subset
  <2>2. QED BY <2>1, EachFirst DEF Init, Once
<1>2. TypeOK
  <2>1. ready \in Seq(Entries) /\ incoming \in Seq(Tasks)
    BY <1>1, SeqGrows DEF Tasks, Entries
  <2>2. /\ sched \in [at: {"top", "wait", "clear", "cycle", "run", "serve", "again",
                           "sleep", "ping", "last", "done"},
                      task: Tasks \cup {NoTask}]
        /\ hub \in [at: {"top", "select", "drain", "return", "set", "dead", "done"},
                    watched: SUBSET Tasks, back: SUBSET Tasks, next: {"top", "select"}]
    BY DEF Init, HubAt, SchedAt
  <2>3. /\ timeout \in [Tasks -> {"none", "pending", "passed"}]
        /\ idle \in [Tasks -> {"no", "asleep", "blocking", "ended"}]
        /\ \A f \in {work, handing, handed} : f \in [Tasks -> 0 .. MaxWork]
    BY RecocoAssumption DEF Init
  <2>4. /\ event \in BOOLEAN /\ hasQuit \in BOOLEAN /\ setting \in 0 .. MaxThreads
        /\ pinged \in BOOLEAN /\ registered \subseteq Tasks /\ readable \subseteq Tasks
    <3>1. pinged \in BOOLEAN
      BY DEF Init
    <3>2. event \in BOOLEAN /\ hasQuit \in BOOLEAN /\ registered \subseteq Tasks /\ readable \subseteq Tasks
      BY DEF Init
    <3>3. setting \in 0 .. MaxThreads
      BY RecocoAssumption DEF Init
    <3>4. QED BY <3>1, <3>2, <3>3
  <2>5. QED BY <2>1, <2>2, <2>3, <2>4 DEF TypeOK, Entries
<1>3. WorkInv
  BY DEF Init, WorkInv
<1>4. SchedInv /\ HubInv
  BY DEF Init, SchedInv, HubInv, HubAt, SchedAt, Holding
<1>5. PlacesInv
  <2>1. \A t \in Tasks : ~ Running(t) /\ ~ InHub(t) /\ ~ Idle(t)
    BY DEF Init, Running, InHub, Idle, SchedAt, HubAt
  <2>2. \A t \in Tasks : Placed(t)
    BY <1>1, <2>1 DEF Placed, InReady, Queued, Tasks
  <2>3. QED BY <1>1, <2>1, <2>2 DEF PlacesInv, Queued
<1>6. PingInv
  <2>1. incoming # <<>> => Callers # {}
    BY <1>1 DEF ToSet
  <2>2. QED BY <2>1 DEF Init, PingInv, HubAt, SchedAt
<1>7. SchedulerWoken /\ WorkersWoken
  BY DEF Init, SchedulerWoken, WorkersWoken, SchedAt
<1>8. QED BY <1>2, <1>3, <1>4, <1>5, <1>6, <1>7 DEF RecocoInv

LEMMA RecocoHolds == Spec => []RecocoInv
<1>1. RecocoInv /\ [Next]_vars => RecocoInv'
  BY StepTyped, StepKeepsSched, StepKeepsHub, StepKeepsPlaces, StepKeepsPing, StepKeepsWoken,
     StepKeepsWorkers DEF RecocoInv
<1>2. QED BY <1>1, Beginning, PTL DEF Spec

-----------------------------------------------------------------------------
(* What the invariant says of the counts. *)

LEMMA CountedOnce ==
    ASSUME NEW S, NEW s \in Seq(S), Once(s), NEW t \in Tasks
    PROVE  Occurrences(s, t) = Counts(t \in ToSet(s))
<1> DEFINE Where == { i \in DOMAIN s : s[i] = t }
<1>1. Occurrences(s, t) = Cardinality(Where)
  BY DEF Occurrences, Quantify
<1>2. CASE t \in ToSet(s)
  <2>1. PICK i \in DOMAIN s : s[i] = t
    BY <1>2 DEF ToSet
  <2>2. Where = {i}
    BY <2>1 DEF Once
  <2>3. QED BY <1>1, <1>2, <2>2, FS_Singleton DEF Counts
<1>3. CASE t \notin ToSet(s)
  <2>1. Where = {}
    BY <1>3 DEF ToSet
  <2>2. QED BY <1>1, <1>3, <2>1, FS_EmptySet DEF Counts
<1>4. QED BY <1>2, <1>3

LEMMA Located == RecocoInv => OnePlace
<1> SUFFICES ASSUME RecocoInv, NEW t \in Tasks
    PROVE  1 = Occurrences(ready, t) + Counts(sched.task = t) + Occurrences(incoming, t)
               + Counts(t \in registered \cup hub.back) + Counts(idle[t] # "no")
  BY DEF OnePlace, RecocoInv, HubInv
<1>1. /\ Occurrences(ready, t) = Counts(InReady(t))
      /\ Occurrences(incoming, t) = Counts(Queued(t))
  BY CountedOnce, ReadyTyped DEF RecocoInv, PlacesInv, InReady, Queued
<1>2. Placed(t)
  BY DEF RecocoInv, PlacesInv
<1>3. QED BY <1>1, <1>2 DEF Placed, Counts, Running, InHub, Idle

LEMMA Awake == RecocoInv => NoLostWakeup
<1> SUFFICES ASSUME RecocoInv PROVE HubWoken
  BY DEF NoLostWakeup, RecocoInv
<1>1. QED BY DEF RecocoInv, PingInv, HubWoken

-----------------------------------------------------------------------------
(* Two threads pass every task back and forth without a lock, and each     *)
(* task is at any time in exactly one place: ready once, running, on its   *)
(* way to the hub, with the hub, or idle.  So no assert of the hub or of   *)
(* fast_schedule fails, and the hub's thread never ends by one.  The       *)
(* hypothesis picks, of MCRecoco's three populations, that of the          *)
(* constants themselves, which here are any.                               *)
THEOREM OnePlaceHolds == Spec /\ []InWork => []EachInOnePlace
<1>1. RecocoInv /\ InWork => EachInOnePlace
  BY Located DEF EachInOnePlace
<1>2. QED BY <1>1, RecocoHolds, PTL

(* Whoever fills the deque, the registrations or a queue signals           *)
(* afterwards, in a step of its own: the scheduler does not wait with a    *)
(* task ready, the hub does not sit in select with a registration unseen,  *)
(* and work is not left behind by a consumer that is about to sleep,       *)
(* unless the signal is under way.                                         *)
THEOREM NoneOverslept == Spec /\ []InWork => []NobodyOverslept
<1>1. RecocoInv /\ InWork => NobodyOverslept
  BY Awake DEF NobodyOverslept
<1>2. QED BY <1>1, RecocoHolds, PTL
=============================================================================
