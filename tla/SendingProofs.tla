---------------------------- MODULE SendingProofs ----------------------------
(***************************************************************************)
(* The two threads that write to sockets, for any number of connections,   *)
(* any amount of data and buffers of any size.                             *)
(*                                                                         *)
(* Order: while a socket is open, what was written and what is queued form *)
(* a line of whole messages, and what the scheduler's thread holds comes   *)
(* next for that thread.  Both threads make queues longer: the sender's    *)
(* does, in handlers of ConnectionDown.  It is there only while data is    *)
(* queued, though, so the flag is set then, and the scheduler's thread     *)
(* holds a whole message or none: the two halves stay together.            *)
(*                                                                         *)
(* Reports: a thread that found disconnection_raised unset has not raised  *)
(* ConnectionDown before, whatever the other one does meanwhile.           *)
(***************************************************************************)
EXTENDS Sending, SequenceTheorems, TLAPS

Attached ==
    /\ scheduler.doing # "idle" => scheduler.con \in Connections
    /\ scheduler.doing \in {"idle", "raise", "close"} => scheduler.data = <<>>
    /\ sender.doing \in {"raise", "handle"} => sender.con \in Connections

Stream(c)  == buffer[c].stream
Pending(c) == IF scheduler.con = c THEN scheduler.data ELSE <<>>

\* seq holds the chunks of thread t that follow its n-th.
Numbered(seq, t, n) == \A i \in 1..Len(seq) : seq[i] = [by |-> t, no |-> n + i]

\* seq holds the chunks of thread t up to its n-th; half a message is its end.
Covers(seq, t, n) ==
    /\ \A i \in 1..Len(seq) : seq[i].by = t => seq[i].no <= n
    /\ n > 0 => \E i \in 1..Len(seq) : seq[i] = [by |-> t, no |-> n]
    /\ n % 2 = 1 => Len(seq) > 0 /\ seq[Len(seq)] = [by |-> t, no |-> n]

\* line is whole messages of both threads, of which n[t] were handed over by
\* thread t, and held is what the scheduler's thread has yet to add.
InLine(line, held, n) ==
    /\ WellFormed(line)
    /\ Len(held) <= 2 * n["scheduler"]
    /\ Numbered(held, "scheduler", 2 * n["scheduler"] - Len(held))
    /\ Covers(line, "scheduler", 2 * n["scheduler"] - Len(held))
    /\ Covers(line, "sender", 2 * n["sender"])

Line(c) == Stream(c) \o queue[c]

Ordered ==
    /\ \A c \in Connections : WellFormed(Stream(c))
    /\ \A c \in Connections : sock[c] = "open" => InLine(Line(c), Pending(c), sent[c])

\* Nothing is queued while the scheduler's thread writes, or holds a part.
QueuesWait ==
    scheduler.doing = "write" \/ Len(scheduler.data) \notin {0, 2} => Queued = {}

\* The sender's thread serves, and reports, connections that have data.
Serving ==
    /\ sender.doing \in {"select", "serve", "raise", "handle"} =>
         \A c \in sender.cons : queue[c] # <<>>
    /\ sender.doing \in {"raise", "handle"} => queue[sender.con] # <<>>

Reported(c, who) == \E i \in 1..Len(downs[c]) : downs[c][i] = who

Reports ==
    /\ \A c \in Connections : \A i, j \in 1..Len(downs[c]) : downs[c][i] = downs[c][j] => i = j
    /\ \A c \in Connections, who \in Threads : Reported(c, who) => raised[c]
    /\ scheduler.doing = "raise" => ~ Reported(scheduler.con, "scheduler")
    /\ sender.doing = "raise" => ~ Reported(sender.con, "sender")

Typed == TypeOK /\ Attached

-----------------------------------------------------------------------------
(* Sequences, and what a socket takes of one. *)

LEMMA Bounds ==
    /\ MaxSent \in Nat /\ MaxHandled \in Nat /\ Room \in Nat \ {0}
    /\ \A t : Limit(t) \in Nat
    /\ "scheduler" \in Threads /\ "sender" \in Threads
  BY SendingAssumption DEF Limit, Threads

LEMMA Lengths ==
    ASSUME NEW S, NEW s \in Seq(S)
    PROVE  /\ Len(s) \in Nat /\ DOMAIN s = 1..Len(s)
           /\ \A i \in 1..Len(s) : s[i] \in S
           /\ (Len(s) = 0) <=> (s = <<>>)
<1>1. Len(s) \in Nat /\ DOMAIN s = 1..Len(s)
  BY LenProperties
<1>2. \A i \in 1..Len(s) : s[i] \in S
  BY ElementOfSeq
<1>3. (Len(s) = 0) <=> (s = <<>>)
  BY EmptySeq
<1>4. QED BY <1>1, <1>2, <1>3

LEMMA Nothing == Len(<<>>) = 0 /\ \A S : <<>> \in Seq(S)
  BY EmptySeq

\* The two parts of a list that a socket takes in part.
LEMMA Parts ==
    ASSUME NEW S, NEW s \in Seq(S), NEW k \in 0..Len(s)
    PROVE  LET taken == SubSeq(s, 1, k)
               left  == SubSeq(s, k + 1, Len(s))
           IN  /\ taken \in Seq(S) /\ Len(taken) = k
               /\ left \in Seq(S) /\ Len(left) = Len(s) - k
               /\ taken \o left = s
               /\ \A i \in 1..k : taken[i] = s[i]
               /\ \A i \in 1..Len(s) - k : left[i] = s[k + i]
<1> DEFINE taken == SubSeq(s, 1, k)
           left  == SubSeq(s, k + 1, Len(s))
<1>1. Len(s) \in Nat /\ \A i \in 1..Len(s) : s[i] \in S
  BY Lengths
<1>2. /\ taken \in Seq(S) /\ Len(taken) = (IF 1 <= k THEN k - 1 + 1 ELSE 0)
      /\ \A i \in 1..k - 1 + 1 : taken[i] = s[1 + i - 1]
  BY <1>1, SubSeqProperties
<1>3. /\ left \in Seq(S)
      /\ Len(left) = (IF k + 1 <= Len(s) THEN Len(s) - (k + 1) + 1 ELSE 0)
      /\ \A i \in 1..Len(s) - (k + 1) + 1 : left[i] = s[(k + 1) + i - 1]
  BY <1>1, SubSeqProperties
<1>4. taken \o left = s
  <2>1. 1 \in 1..Len(s) + 1 /\ k \in 1 - 1..Len(s) /\ Len(s) \in k..Len(s)
    BY <1>1
  <2>2. taken \o left = SubSeq(s, 1, Len(s))
    BY <2>1, ConcatAdjacentSubSeq
  <2>3. QED BY <2>2, SubSeqFull
<1> HIDE DEF taken, left
<1>5. Len(taken) = k /\ \A i \in 1..k : taken[i] = s[i]
  BY <1>1, <1>2
<1>6. Len(left) = Len(s) - k /\ \A i \in 1..Len(s) - k : left[i] = s[k + i]
  BY <1>1, <1>3
<1>7. QED BY <1>2, <1>3, <1>4, <1>5, <1>6 DEF taken, left

LEMMA TakenInBounds ==
    ASSUME TypeOK, NEW c \in Connections, NEW data \in Seq(Chunks)
    PROVE  /\ Taken(c, data) \in 0..Len(data)
           /\ buffer[c].held + Taken(c, data) \in 0..Room
<1>1. buffer[c].held \in 0..Room /\ Len(data) \in Nat
  BY Lengths DEF TypeOK
<1>2. QED BY <1>1, Bounds DEF Taken

\* A write to a socket: the chunks taken join the stream, the rest is left.
LEMMA Written ==
    ASSUME TypeOK, NEW c \in Connections, NEW data \in Seq(Chunks),
           buffer' = Buffered(c, data)
    PROVE  /\ buffer' \in [Connections -> [held: 0..Room, stream: Seq(Chunks)]]
           /\ \A d \in Connections \ {c} : buffer'[d] = buffer[d]
           /\ Rest(c, data) \in Seq(Chunks)
           /\ \E taken \in Seq(Chunks) :
                /\ buffer'[c].stream = Stream(c) \o taken
                /\ taken \o Rest(c, data) = data
                /\ Len(data) = Len(taken) + Len(Rest(c, data))
                /\ \A i \in 1..Len(taken) : taken[i] = data[i]
                /\ \A i \in 1..Len(Rest(c, data)) : Rest(c, data)[i] = data[Len(taken) + i]
<1> DEFINE k     == Taken(c, data)
           taken == SubSeq(data, 1, k)
           new   == Stream(c) \o taken
<1>1. /\ k \in 0..Len(data) /\ buffer[c].held + k \in 0..Room
  BY TakenInBounds
<1>2. /\ Stream(c) \in Seq(Chunks) /\ Len(data) \in Nat
      /\ buffer \in [Connections -> [held: 0..Room, stream: Seq(Chunks)]]
  BY Lengths DEF TypeOK, Stream
<1>3. /\ taken \in Seq(Chunks) /\ Len(taken) = k
      /\ Rest(c, data) \in Seq(Chunks) /\ Len(Rest(c, data)) = Len(data) - k
      /\ taken \o Rest(c, data) = data
      /\ \A i \in 1..k : taken[i] = data[i]
      /\ \A i \in 1..Len(data) - k : Rest(c, data)[i] = data[k + i]
  BY <1>1, Parts DEF Rest
<1>4. buffer' = [buffer EXCEPT ![c] = [held |-> buffer[c].held + k, stream |-> new]]
  BY <1>2 DEF Buffered, Stream
<1> HIDE DEF k, taken
<1>5. new \in Seq(Chunks)
  BY <1>2, <1>3, ConcatProperties
<1> HIDE DEF new
<1>6. /\ buffer'[c] = [held |-> buffer[c].held + k, stream |-> new]
      /\ \A d \in Connections \ {c} : buffer'[d] = buffer[d]
      /\ buffer' \in [Connections -> [held: 0..Room, stream: Seq(Chunks)]]
  BY <1>1, <1>2, <1>4, <1>5
<1>7. buffer'[c].stream = Stream(c) \o taken
  BY <1>6 DEF new
<1>8. Len(data) = Len(taken) + Len(Rest(c, data))
  BY <1>1, <1>2, <1>3
<1>9. QED BY <1>3, <1>6, <1>7, <1>8

\* The chunks of the next message.
LEMMA MessageTyped ==
    ASSUME TypeOK, NEW c \in Connections, NEW t \in Threads
    PROVE  /\ Message(c, t) \in Seq(Chunks) /\ Len(Message(c, t)) = 2
           /\ Numbered(Message(c, t), t, 2 * sent[c][t])
<1>1. sent[c][t] \in Nat
  BY DEF TypeOK
<1>2. 2 * sent[c][t] + 1 \in Nat /\ 2 * sent[c][t] + 2 \in Nat
  BY <1>1
<1>3. /\ [by |-> t, no |-> 2 * sent[c][t] + 1] \in Chunks
      /\ [by |-> t, no |-> 2 * sent[c][t] + 2] \in Chunks
  BY <1>2 DEF Chunks
<1>4. Message(c, t) \in Seq(Chunks) /\ Len(Message(c, t)) = 2
  BY <1>3 DEF Message
<1>5. Numbered(Message(c, t), t, 2 * sent[c][t])
  BY <1>4 DEF Numbered, Message
<1>6. QED BY <1>4, <1>5

-----------------------------------------------------------------------------
(* Lines of messages. *)

\* What precedes the end of a line is a line.
LEMMA Prefix ==
    ASSUME NEW s \in Seq(Chunks), NEW d \in Seq(Chunks), WellFormed(s \o d)
    PROVE  WellFormed(s)
<1>1. Len(s) \in Nat /\ Len(d) \in Nat
  BY Lengths
<1>2. /\ Len(s \o d) = Len(s) + Len(d)
      /\ \A i \in 1..Len(s) : (s \o d)[i] = s[i]
  BY <1>1, ConcatProperties
<1>3. QED BY <1>1, <1>2 DEF WellFormed

\* The chunks that follow a thread's n-th, added to a line.
LEMMA Lengthened ==
    ASSUME NEW s \in Seq(Chunks), NEW d \in Seq(Chunks), NEW t \in Threads, NEW n \in Nat,
           WellFormed(s), Covers(s, t, n), Numbered(d, t, n)
    PROVE  /\ s \o d \in Seq(Chunks)
           /\ WellFormed(s \o d) /\ Covers(s \o d, t, n + Len(d))
           /\ \A u \in Threads \ {t}, m \in Nat :
                Covers(s, u, m) /\ (m % 2 = 0 \/ d = <<>>) => Covers(s \o d, u, m)
<1> DEFINE e == s \o d
<1>1. /\ Len(s) \in Nat /\ Len(d) \in Nat /\ (Len(d) = 0) <=> (d = <<>>)
      /\ \A i \in 1..Len(s) : s[i] \in [by: Threads, no: Nat]
  BY Lengths DEF Chunks
<1>2. /\ e \in Seq(Chunks) /\ Len(e) = Len(s) + Len(d)
      /\ \A i \in 1..Len(s) + Len(d) : e[i] = IF i <= Len(s) THEN s[i] ELSE d[i - Len(s)]
  BY ConcatProperties
<1> HIDE DEF e
<1>3. \A i \in 1..Len(s) : e[i] = s[i]
  BY <1>1, <1>2
<1>4. ASSUME NEW k \in 1..Len(d) PROVE e[Len(s) + k] = [by |-> t, no |-> n + k]
  <2>1. /\ Len(s) + k \in 1..Len(s) + Len(d) /\ ~ (Len(s) + k <= Len(s))
        /\ (Len(s) + k) - Len(s) = k
    BY <1>1
  <2>2. e[Len(s) + k] = d[(Len(s) + k) - Len(s)]
    BY <1>2, <2>1
  <2>3. QED BY <2>1, <2>2 DEF Numbered
<1>5. ASSUME NEW i \in 1..Len(e), i > Len(s)
      PROVE  \E k \in 1..Len(d) : i = Len(s) + k /\ e[i].by = t /\ e[i].no = n + k
  <2>1. i - Len(s) \in 1..Len(d) /\ i = Len(s) + (i - Len(s))
    BY <1>1, <1>2, <1>5
  <2>2. e[i] = [by |-> t, no |-> n + (i - Len(s))]
    BY <1>4, <2>1
  <2>3. QED BY <2>1, <2>2
<1>6. WellFormed(e)
  <2> SUFFICES ASSUME NEW i \in 1..Len(e)
               PROVE  /\ \A j \in 1..i - 1 : e[j] # e[i]
                      /\ e[i].no > 1 => \E j \in 1..i - 1 : e[j] = Before(e[i])
                      /\ Second(e[i]) => i > 1 /\ e[i - 1] = Before(e[i])
    BY DEF WellFormed
  <2>1. CASE i <= Len(s)
    <3>1. /\ i \in 1..Len(s) /\ e[i] = s[i] /\ \A j \in 1..i - 1 : e[j] = s[j]
          /\ i > 1 => i - 1 \in 1..i - 1
      BY <1>1, <1>3, <2>1
    <3>2. /\ \A j \in 1..i - 1 : s[j] # s[i]
          /\ s[i].no > 1 => \E j \in 1..i - 1 : s[j] = Before(s[i])
          /\ Second(s[i]) => i > 1 /\ s[i - 1] = Before(s[i])
      BY <3>1 DEF WellFormed
    <3>3. QED BY <3>1, <3>2
  <2>2. CASE i > Len(s)
    <3> DEFINE k == i - Len(s)
    <3>1. k \in 1..Len(d) /\ i = Len(s) + k /\ i \in Nat
      BY <1>1, <1>2, <2>2
    <3> HIDE DEF k
    <3>2. e[i] = [by |-> t, no |-> n + k]
      BY <1>4, <3>1
    <3>3. Before(e[i]) = [by |-> t, no |-> n + k - 1]
      BY <3>1, <3>2 DEF Before
    <3>4. \A j \in 1..i - 1 : e[j] # e[i]
      <4> SUFFICES ASSUME NEW j \in 1..i - 1 PROVE e[j] # e[i]
        OBVIOUS
      <4>1. CASE j <= Len(s)
        <5>1. e[j] = s[j] /\ (s[j].by = t => s[j].no <= n)
          BY <1>1, <1>3, <4>1 DEF Covers
        <5>2. e[i].by = t /\ e[i].no = n + k
          BY <3>2
        <5>3. ASSUME e[j] = e[i] PROVE FALSE
          <6>1. n + k <= n
            BY <5>1, <5>2, <5>3
          <6>2. QED BY <6>1, <3>1
        <5>4. QED BY <5>3
      <4>2. CASE j > Len(s)
        <5>1. j \in 1..Len(e) /\ j # i /\ j \in Int
          BY <3>1
        <5>2. PICK l \in 1..Len(d) : j = Len(s) + l /\ e[j].no = n + l
          BY <1>5, <4>2, <5>1
        <5>3. n + l # n + k
          BY <1>1, <3>1, <5>1, <5>2
        <5>4. QED BY <3>2, <5>2, <5>3
      <4>3. QED BY <1>1, <4>1, <4>2
    <3>5. CASE k > 1
      <4>1. k - 1 \in 1..Len(d) /\ i - 1 \in 1..i - 1 /\ i - 1 = Len(s) + (k - 1) /\ i > 1
        BY <1>1, <3>1, <3>5
      <4>2. e[i - 1] = [by |-> t, no |-> n + (k - 1)]
        BY <1>4, <4>1
      <4>3. n + (k - 1) = n + k - 1
        BY <3>1
      <4>4. e[i - 1] = Before(e[i])
        BY <3>3, <4>2, <4>3
      <4>5. QED BY <3>4, <4>1, <4>4
    <3>6. CASE k = 1
      <4>1. n + k - 1 = n /\ e[i].no = n + 1 /\ Before(e[i]) = [by |-> t, no |-> n]
        BY <3>2, <3>3, <3>6
      <4>2. ASSUME e[i].no > 1 PROVE \E j \in 1..i - 1 : e[j] = Before(e[i])
        <5>1. n > 0
          BY <4>1, <4>2
        <5>2. PICK j \in 1..Len(s) : s[j] = [by |-> t, no |-> n]
          BY <5>1 DEF Covers
        <5>3. j \in 1..i - 1 /\ e[j] = s[j]
          BY <1>1, <1>3, <3>1, <3>6
        <5>4. QED BY <4>1, <5>2, <5>3
      <4>3. ASSUME Second(e[i]) PROVE i > 1 /\ e[i - 1] = Before(e[i])
        <5>1. (n + 1) % 2 = 0
          BY <4>1, <4>3 DEF Second
        <5>2. n % 2 = 1
          BY <5>1
        <5>3. Len(s) > 0 /\ s[Len(s)] = [by |-> t, no |-> n]
          BY <5>2 DEF Covers
        <5>4. i > 1 /\ i - 1 = Len(s) /\ Len(s) \in 1..Len(s)
          BY <1>1, <3>1, <3>6, <5>3
        <5>5. QED BY <1>3, <4>1, <5>3, <5>4
      <4>4. QED BY <3>4, <4>2, <4>3
    <3>7. QED BY <3>1, <3>5, <3>6
  <2>3. QED BY <1>1, <1>2, <2>1, <2>2
<1>7. Covers(e, t, n + Len(d))
  <2>1. ASSUME NEW i \in 1..Len(e), e[i].by = t PROVE e[i].no <= n + Len(d)
    <3>1. CASE i <= Len(s)
      <4>1. i \in 1..Len(s) /\ e[i] = s[i] /\ s[i].no \in Nat
        BY <1>1, <1>3, <3>1
      <4>2. s[i].no <= n
        BY <2>1, <4>1 DEF Covers
      <4>3. QED BY <1>1, <4>1, <4>2
    <3>2. CASE i > Len(s)
      <4>1. PICK k \in 1..Len(d) : e[i].no = n + k
        BY <1>5, <3>2
      <4>2. QED BY <1>1, <4>1
    <3>3. QED BY <1>1, <3>1, <3>2
  <2>2. CASE Len(d) = 0
    <3>1. Len(e) = Len(s) /\ n + Len(d) = n
      BY <1>1, <1>2, <2>2
    <3>2. QED BY <1>1, <1>3, <2>1, <3>1 DEF Covers
  <2>3. CASE Len(d) # 0
    <3>1. Len(d) \in 1..Len(d) /\ Len(e) \in 1..Len(e) /\ Len(e) > 0
      BY <1>1, <1>2, <2>3
    <3>2. e[Len(e)] = [by |-> t, no |-> n + Len(d)]
      BY <1>2, <1>4, <3>1
    <3>3. QED BY <2>1, <3>1, <3>2 DEF Covers
  <2>4. QED BY <2>2, <2>3
<1>8. ASSUME NEW u \in Threads \ {t}, NEW m \in Nat, Covers(s, u, m), m % 2 = 0 \/ d = <<>>
      PROVE  Covers(e, u, m)
  <2>1. CASE d = <<>>
    <3>1. Len(e) = Len(s)
      BY <1>1, <1>2, <2>1
    <3>2. QED BY <1>1, <1>3, <1>8, <3>1 DEF Covers
  <2>2. CASE m % 2 = 0
    <3>1. ASSUME NEW i \in 1..Len(e), e[i].by = u PROVE e[i].no <= m
      <4>1. CASE i <= Len(s)
        BY <1>1, <1>3, <1>8, <3>1, <4>1 DEF Covers
      <4>2. CASE i > Len(s)
        <5>1. e[i].by = t
          BY <1>5, <4>2
        <5>2. QED BY <3>1, <5>1
      <4>3. QED BY <1>1, <4>1, <4>2
    <3>2. ASSUME m > 0 PROVE \E i \in 1..Len(e) : e[i] = [by |-> u, no |-> m]
      <4>1. PICK i \in 1..Len(s) : s[i] = [by |-> u, no |-> m]
        BY <1>8, <3>2 DEF Covers
      <4>2. i \in 1..Len(e) /\ e[i] = s[i]
        BY <1>1, <1>2, <1>3
      <4>3. QED BY <4>1, <4>2
    <3>3. m % 2 # 1
      BY <2>2
    <3>4. QED BY <3>1, <3>2, <3>3 DEF Covers
  <2>3. QED BY <1>8, <2>1, <2>2
<1>9. QED BY <1>2, <1>6, <1>7, <1>8 DEF e

-----------------------------------------------------------------------------
(* Types.  The unchanged parts of a step keep theirs. *)

SocketsOK   == sock \in [Connections -> {"open", "shut", "closed"}]
FlagsOK     == /\ disconnected \in [Connections -> BOOLEAN]
               /\ raised \in [Connections -> BOOLEAN]
               /\ sending \in BOOLEAN /\ gone \subseteq MayEnd
               /\ closing \in Connections \cup {NoConnection}
SentOK      == /\ sent \in [Connections -> [Threads -> Nat]]
               /\ \A c \in Connections, t \in Threads : sent[c][t] <= Limit(t)
QueuesOK    == queue \in [Connections -> Seq(Chunks)]
BuffersOK   == buffer \in [Connections -> [held: 0..Room, stream: Seq(Chunks)]]
DownsOK     == downs \in [Connections -> Seq(Threads)]
SchedulerOK ==
    /\ scheduler \in [doing: {"idle", "write", "defer", "raise", "close"},
                      con: Connections \cup {NoConnection}, data: Seq(Chunks)]
    /\ scheduler.doing # "idle" => scheduler.con \in Connections
    /\ scheduler.doing \in {"idle", "raise", "close"} => scheduler.data = <<>>
SenderOK    ==
    /\ sender \in [doing: {"collect", "select", "serve", "raise", "handle", "dead"},
                   cons: SUBSET Connections, con: Connections \cup {NoConnection}]
    /\ sender.doing \in {"raise", "handle"} => sender.con \in Connections

LEMMA TypedParts ==
    /\ Typed <=> /\ SocketsOK /\ FlagsOK /\ SentOK /\ QueuesOK /\ BuffersOK /\ DownsOK
                 /\ SchedulerOK /\ SenderOK
    /\ Typed' <=> /\ SocketsOK' /\ FlagsOK' /\ SentOK' /\ QueuesOK' /\ BuffersOK' /\ DownsOK'
                  /\ SchedulerOK' /\ SenderOK'
  BY DEF Typed, TypeOK, Attached, SocketsOK, FlagsOK, SentOK, QueuesOK, BuffersOK, DownsOK,
         SchedulerOK, SenderOK

LEMMA PartsUntouched ==
    ASSUME Typed
    PROVE  /\ sock' = sock => SocketsOK'
           /\ UNCHANGED <<disconnected, raised, sending, closing, gone>> => FlagsOK'
           /\ sent' = sent => SentOK'
           /\ queue' = queue => QueuesOK'
           /\ buffer' = buffer => BuffersOK'
           /\ downs' = downs => DownsOK'
           /\ scheduler' = scheduler => SchedulerOK'
           /\ sender' = sender => SenderOK'
  BY TypedParts DEF SocketsOK, FlagsOK, SentOK, QueuesOK, BuffersOK, DownsOK, SchedulerOK, SenderOK

\* Values that the threads' states take.
LEMMA ThreadStates ==
    /\ scheduler' = IdleScheduler => SchedulerOK'
    /\ \A c \in Connections, what \in {"close", "raise"} :
         scheduler' = SchedulerDoes(what, c, <<>>) => SchedulerOK'
    /\ \A c \in Connections, d \in Seq(Chunks), what \in {"write", "defer"} :
         scheduler' = SchedulerDoes(what, c, d) => SchedulerOK'
    /\ sender' = Collecting => SenderOK'
    /\ \A cs \in SUBSET Connections, what \in {"collect", "select", "serve", "dead"},
          c \in Connections \cup {NoConnection} :
         sender' = [doing |-> what, cons |-> cs, con |-> c] => SenderOK'
    /\ \A cs \in SUBSET Connections, c \in Connections, what \in {"raise", "handle"} :
         sender' = [doing |-> what, cons |-> cs, con |-> c] => SenderOK'
<1>0. <<>> \in Seq(Chunks)
  BY Nothing
<1>1. scheduler' = IdleScheduler => SchedulerOK'
  BY <1>0 DEF SchedulerOK, IdleScheduler
<1>2. \A c \in Connections, what \in {"close", "raise"} :
         scheduler' = SchedulerDoes(what, c, <<>>) => SchedulerOK'
  BY <1>0 DEF SchedulerOK, SchedulerDoes
<1>3. \A c \in Connections, d \in Seq(Chunks), what \in {"write", "defer"} :
         scheduler' = SchedulerDoes(what, c, d) => SchedulerOK'
  BY DEF SchedulerOK, SchedulerDoes
<1>4. \A cs \in SUBSET Connections, what \in {"collect", "select", "serve", "dead"},
         c \in Connections \cup {NoConnection} :
         sender' = [doing |-> what, cons |-> cs, con |-> c] => SenderOK'
  BY DEF SenderOK
<1>5. sender' = Collecting => SenderOK'
  BY DEF SenderOK, Collecting
<1>6. \A cs \in SUBSET Connections, c \in Connections, what \in {"raise", "handle"} :
         sender' = [doing |-> what, cons |-> cs, con |-> c] => SenderOK'
  BY DEF SenderOK
<1>7. QED BY <1>1, <1>2, <1>3, <1>4, <1>5, <1>6

LEMMA RaiseDownTyped ==
    ASSUME Typed, NEW c \in Connections, NEW who \in Threads, RaiseDown(c, who),
           UNCHANGED <<disconnected, sending, closing, gone>>
    PROVE  FlagsOK' /\ DownsOK'
<1>1. Append(downs[c], who) \in Seq(Threads)
  BY DEF Typed, TypeOK
<1>2. QED BY <1>1, TypedParts DEF RaiseDown, FlagsOK, DownsOK

LEMMA HandOverTyped ==
    ASSUME Typed, NEW c \in Connections, NEW t \in Threads, HandOver(c, t)
    PROVE  /\ SentOK'
           /\ sent'[c][t] = sent[c][t] + 1
           /\ \A u \in Threads \ {t} : sent'[c][u] = sent[c][u]
           /\ \A d \in Connections \ {c} : sent'[d] = sent[d]
<1>1. /\ sent \in [Connections -> [Threads -> Nat]] /\ sent[c][t] < Limit(t)
      /\ \A d \in Connections, u \in Threads : sent[d][u] <= Limit(u)
      /\ sent' = [sent EXCEPT ![c] = [sent[c] EXCEPT ![t] = sent[c][t] + 1]]
  BY DEF HandOver, Typed, TypeOK
<1>2. /\ sent[c][t] \in Nat /\ sent[c][t] + 1 \in Nat /\ sent[c] \in [Threads -> Nat]
      /\ sent[c][t] + 1 <= Limit(t)
  BY <1>1, Bounds
<1>3. /\ sent'[c] = [sent[c] EXCEPT ![t] = sent[c][t] + 1]
      /\ \A d \in Connections \ {c} : sent'[d] = sent[d]
  BY <1>1
<1>4. /\ sent'[c][t] = sent[c][t] + 1 /\ \A u \in Threads \ {t} : sent'[c][u] = sent[c][u]
      /\ sent'[c] \in [Threads -> Nat]
  BY <1>2, <1>3
<1>5. sent' \in [Connections -> [Threads -> Nat]]
  BY <1>1, <1>3, <1>4
<1>6. \A d \in Connections, u \in Threads : sent'[d][u] <= Limit(u)
  BY <1>1, <1>2, <1>3, <1>4
<1>7. SentOK'
  BY <1>5, <1>6 DEF SentOK, Limit
<1>8. QED BY <1>3, <1>4, <1>7

LEMMA SchedulerTyped ==
    ASSUME Typed, Scheduler \/ \E c \in Connections : SendTests(c)
    PROVE  Typed'
<1>0. /\ scheduler.con \in Connections \cup {NoConnection} /\ scheduler.data \in Seq(Chunks)
      /\ scheduler.doing # "idle" => scheduler.con \in Connections
      /\ sock \in [Connections -> {"open", "shut", "closed"}]
      /\ queue \in [Connections -> Seq(Chunks)] /\ TypeOK
      /\ closing \in Connections \cup {NoConnection}
  BY DEF Typed, TypeOK, Attached
<1>1. ASSUME NEW c \in Connections, SendTests(c) PROVE Typed'
  <2>1. Message(c, "scheduler") \in Seq(Chunks)
    BY <1>0, Bounds, MessageTyped
  <2>2. Route \in {"write", "defer"}
    BY DEF Route
  <2>3. SchedulerOK'
    BY <1>1, <2>1, <2>2, ThreadStates DEF SendTests
  <2>4. SentOK'
    BY <1>1, Bounds, HandOverTyped DEF SendTests
  <2>5. QED BY <1>1, <2>3, <2>4, PartsUntouched, TypedParts DEF SendTests
<1>2. CASE SendWrites
  <2>1. scheduler.con \in Connections /\ buffer' = Buffered(scheduler.con, scheduler.data)
    BY <1>0, <1>2 DEF SendWrites
  <2>2. BuffersOK' /\ Rest(scheduler.con, scheduler.data) \in Seq(Chunks)
    BY <1>0, <2>1, Written DEF BuffersOK
  <2>3. SchedulerOK'
    BY <1>2, <2>1, <2>2, ThreadStates DEF SendWrites
  <2>4. QED BY <1>2, <2>2, <2>3, PartsUntouched, TypedParts DEF SendWrites
<1>3. CASE SendDefers
  <2>1. scheduler.con \in Connections /\ queue[scheduler.con] \o scheduler.data \in Seq(Chunks)
    BY <1>0, <1>3, ConcatProperties DEF SendDefers
  <2>2. QueuesOK'
    BY <1>0, <1>3, <2>1 DEF SendDefers, Extended, QueuesOK
  <2>3. FlagsOK'
    BY <1>3, TypedParts DEF SendDefers, FlagsOK
  <2>4. QED BY <1>3, <2>2, <2>3, ThreadStates, PartsUntouched, TypedParts DEF SendDefers
<1>4. CASE SendFails
  <2>1. SocketsOK'
    BY <1>0, <1>4 DEF SendFails, SocketsOK
  <2>2. FlagsOK'
    BY <1>4, TypedParts DEF SendFails, KeepRaised, FlagsOK
  <2>3. QED BY <1>4, <2>1, <2>2, ThreadStates, PartsUntouched, TypedParts DEF SendFails
<1>5. CASE CloseRaises
  <2>1. scheduler.con \in Connections
    BY <1>0, <1>5 DEF CloseRaises
  <2>2. FlagsOK' /\ DownsOK'
    BY <1>5, <2>1, Bounds, RaiseDownTyped DEF CloseRaises
  <2>3. QED BY <1>5, <2>2, ThreadStates, PartsUntouched, TypedParts DEF CloseRaises
<1>6. CASE CloseSocket
  <2>1. SocketsOK'
    BY <1>0, <1>6 DEF CloseSocket, SocketsOK
  <2>2. FlagsOK'
    BY <1>6, TypedParts DEF CloseSocket, FlagsOK
  <2>3. QED BY <1>6, <2>1, <2>2, ThreadStates, PartsUntouched, TypedParts DEF CloseSocket
<1>7. ASSUME NEW c \in Connections, EndIsRead(c) PROVE Typed'
  <2>1. FlagsOK'
    BY <1>7, TypedParts DEF EndIsRead, FlagsOK
  <2>2. SchedulerOK'
    BY <1>7, ThreadStates DEF EndIsRead
  <2>3. QED BY <1>7, <2>1, <2>2, PartsUntouched, TypedParts DEF EndIsRead
<1>8. QED BY <1>1, <1>2, <1>3, <1>4, <1>5, <1>6, <1>7 DEF Scheduler

LEMMA SenderTyped ==
    ASSUME Typed, Sender \/ \E c \in Connections : SenderHandles(c)
    PROVE  Typed'
<1>0. /\ sender.cons \subseteq Connections /\ sender.con \in Connections \cup {NoConnection}
      /\ sender.doing \in {"raise", "handle"} => sender.con \in Connections
      /\ sender = [doing |-> sender.doing, cons |-> sender.cons, con |-> sender.con]
      /\ sock \in [Connections -> {"open", "shut", "closed"}]
      /\ queue \in [Connections -> Seq(Chunks)] /\ TypeOK
      /\ \A c \in Connections : [queue EXCEPT ![c] = <<>>] \in [Connections -> Seq(Chunks)]
  BY Nothing DEF Typed, TypeOK, Attached
<1>1. CASE SenderCollects
  <2>1. sender' = [doing |-> "select", cons |-> Queued, con |-> sender.con]
    BY <1>0, <1>1 DEF SenderCollects
  <2>2. Queued \in SUBSET Connections
    BY DEF Queued
  <2>3. SenderOK'
    BY <1>0, <2>1, <2>2, ThreadStates
  <2>4. QED BY <1>1, <2>3, PartsUntouched, TypedParts DEF SenderCollects
<1>2. CASE SenderSelects
  <2> DEFINE cons == { c \in sender.cons : Writable(c) }
  <2>1. sender' = [doing |-> "serve", cons |-> cons, con |-> sender.con]
    BY <1>0, <1>2 DEF SenderSelects
  <2>2. cons \in SUBSET Connections
    BY <1>0
  <2> HIDE DEF cons
  <2>3. SenderOK'
    BY <1>0, <2>1, <2>2, ThreadStates
  <2>4. QED BY <1>2, <2>3, PartsUntouched, TypedParts DEF SenderSelects
<1>3. CASE SenderDies
  <2>1. SenderOK'
    BY <1>3, ThreadStates DEF SenderDies
  <2>2. QED BY <1>3, <2>1, PartsUntouched, TypedParts DEF SenderDies
<1>4. ASSUME NEW c \in Connections, SenderWrites(c) PROVE Typed'
  <2>1. queue[c] \in Seq(Chunks) /\ buffer' = Buffered(c, queue[c])
    BY <1>0, <1>4 DEF SenderWrites
  <2>2. BuffersOK' /\ Rest(c, queue[c]) \in Seq(Chunks)
    BY <1>0, <2>1, Written DEF BuffersOK
  <2>3. QueuesOK'
    BY <1>0, <1>4, <2>2 DEF SenderWrites, QueuesOK
  <2>4. FlagsOK'
    BY <1>4, TypedParts DEF SenderWrites, FlagsOK, Cleared
  <2>5. sender' = [doing |-> "serve", cons |-> sender.cons \ {c}, con |-> sender.con]
    BY <1>0, <1>4 DEF SenderWrites
  <2>6. sender.cons \ {c} \in SUBSET Connections
    BY <1>0
  <2>7. SenderOK'
    BY <1>0, <2>5, <2>6, ThreadStates
  <2>8. QED BY <1>4, <2>2, <2>3, <2>4, <2>7, PartsUntouched, TypedParts DEF SenderWrites
<1>5. ASSUME NEW c \in Connections, SenderFails(c) PROVE Typed'
  <2>1. SocketsOK'
    BY <1>0, <1>5 DEF SenderFails, SocketsOK
  <2>2. FlagsOK'
    BY <1>5, TypedParts DEF SenderFails, FlagsOK
  <2>3. sender.cons \ {c} \in SUBSET Connections /\ sender.doing = "serve"
    BY <1>0, <1>5 DEF SenderFails
  <2>4. CASE raised[c]
    <3>1. /\ queue' = [queue EXCEPT ![c] = <<>>]
          /\ sender' = [doing |-> "serve", cons |-> sender.cons \ {c}, con |-> sender.con]
      BY <1>0, <1>5, <2>3, <2>4 DEF SenderFails
    <3>2. QueuesOK'
      BY <1>0, <3>1 DEF QueuesOK
    <3>3. SenderOK'
      BY <1>0, <2>3, <3>1, ThreadStates
    <3>4. QED BY <1>5, <2>1, <2>2, <3>2, <3>3, PartsUntouched, TypedParts DEF SenderFails
  <2>5. CASE ~ raised[c]
    <3>1. queue' = queue /\ sender' = [doing |-> "raise", cons |-> sender.cons, con |-> c]
      BY <1>0, <1>5, <2>5 DEF SenderFails
    <3>2. SenderOK'
      BY <1>0, <3>1, ThreadStates
    <3>3. QED BY <1>5, <2>1, <2>2, <3>1, <3>2, PartsUntouched, TypedParts DEF SenderFails
  <2>6. QED BY <2>4, <2>5
<1>6. CASE SenderRaises
  <2>1. sender.con \in Connections
    BY <1>0, <1>6 DEF SenderRaises
  <2>2. FlagsOK' /\ DownsOK'
    BY <1>6, <2>1, Bounds, RaiseDownTyped DEF SenderRaises
  <2>3. sender' = [doing |-> "handle", cons |-> sender.cons, con |-> sender.con]
    BY <1>0, <1>6 DEF SenderRaises
  <2>4. SenderOK'
    BY <1>0, <2>1, <2>3, ThreadStates
  <2>5. QED BY <1>6, <2>2, <2>4, PartsUntouched, TypedParts DEF SenderRaises
<1>7. ASSUME NEW c \in Connections, SenderHandles(c) PROVE Typed'
  <2>1. Message(c, "sender") \in Seq(Chunks) /\ queue[c] \in Seq(Chunks)
    BY <1>0, Bounds, MessageTyped
  <2>2. queue[c] \o Message(c, "sender") \in Seq(Chunks)
    BY <2>1, ConcatProperties
  <2>3. QueuesOK'
    BY <1>0, <1>7, <2>2 DEF SenderHandles, Extended, QueuesOK
  <2>4. SentOK'
    BY <1>7, Bounds, HandOverTyped DEF SenderHandles
  <2>5. QED BY <1>7, <2>3, <2>4, PartsUntouched, TypedParts DEF SenderHandles
<1>8. CASE SenderDrops
  <2>1. SocketsOK'
    BY <1>0, <1>8 DEF SenderDrops, SocketsOK
  <2>2. QueuesOK'
    BY <1>0, <1>8 DEF SenderDrops, QueuesOK
  <2>3. sender.cons \ {sender.con} \in SUBSET Connections
    BY <1>0
  <2>4. SenderOK'
    BY <1>8, <2>3, ThreadStates DEF SenderDrops
  <2>5. QED BY <1>8, <2>1, <2>2, <2>4, PartsUntouched, TypedParts DEF SenderDrops
<1>9. CASE SenderLoops
  BY <1>9, ThreadStates, PartsUntouched, TypedParts DEF SenderLoops
<1>10. QED BY <1>1, <1>2, <1>3, <1>4, <1>5, <1>6, <1>7, <1>8, <1>9 DEF Sender

LEMMA SwitchTyped ==
    ASSUME Typed, NEW c \in Connections, SwitchReads(c) \/ SwitchGoes(c)
    PROVE  Typed'
<1>1. CASE SwitchReads(c)
  <2>1. buffer[c].held \in 0..Room /\ buffer[c].held > 0
    BY <1>1 DEF SwitchReads, Typed, TypeOK
  <2>2. buffer[c].held - 1 \in 0..Room
    BY <2>1, Bounds
  <2>3. BuffersOK'
    BY <1>1, <2>2, TypedParts DEF SwitchReads, BuffersOK
  <2>4. QED BY <1>1, <2>3, PartsUntouched, TypedParts DEF SwitchReads
<1>2. CASE SwitchGoes(c)
  <2>1. FlagsOK'
    BY <1>2, TypedParts DEF SwitchGoes, FlagsOK
  <2>2. QED BY <1>2, <2>1, PartsUntouched, TypedParts DEF SwitchGoes
<1>3. QED BY <1>1, <1>2

LEMMA TypedInit == Init => Typed
<1>1. /\ <<>> \in Seq(Chunks) /\ <<>> \in Seq(Threads) /\ 0 \in 0..Room
      /\ \A t \in Threads : 0 <= Limit(t)
  BY Nothing, Bounds
<1>2. Init => SocketsOK /\ FlagsOK
  BY DEF Init, SocketsOK, FlagsOK
<1>3. ASSUME Init PROVE SentOK
  <2>1. \A c \in Connections : sent[c] = [t \in Threads |-> 0]
    BY <1>3 DEF Init
  <2>2. \A c \in Connections, t \in Threads : sent[c][t] = 0
    BY <2>1
  <2>3. sent \in [Connections -> [Threads -> Nat]]
    BY <1>3 DEF Init
  <2>4. QED BY <1>1, <2>2, <2>3 DEF SentOK
<1>4. Init => QueuesOK /\ DownsOK
  BY <1>1 DEF Init, QueuesOK, DownsOK
<1>5. Init => BuffersOK
  BY <1>1 DEF Init, BuffersOK
<1>6. Init => SchedulerOK /\ SenderOK
  BY <1>1 DEF Init, IdleScheduler, Collecting, SchedulerOK, SenderOK
<1>7. QED BY <1>2, <1>3, <1>4, <1>5, <1>6, TypedParts

LEMMA TypedNext == Typed /\ [Next]_vars => Typed'
<1> SUFFICES ASSUME Typed, [Next]_vars PROVE Typed'
  OBVIOUS
<1>1. CASE UNCHANGED vars
  BY <1>1, PartsUntouched, TypedParts DEF vars
<1>2. CASE Next
  BY <1>2, SchedulerTyped, SenderTyped, SwitchTyped DEF Next
<1>3. QED BY <1>1, <1>2

-----------------------------------------------------------------------------
(* Reports of a lost session. *)

\* Appending a raiser that has not raised before.
LEMMA RaiseOnce ==
    ASSUME Typed, NEW c \in Connections, NEW who \in Threads, RaiseDown(c, who),
           \A i, j \in 1..Len(downs[c]) : downs[c][i] = downs[c][j] => i = j,
           ~ Reported(c, who)
    PROVE  /\ \A i, j \in 1..Len(downs'[c]) : downs'[c][i] = downs'[c][j] => i = j
           /\ \A d \in Connections \ {c} : downs'[d] = downs[d] /\ raised'[d] = raised[d]
           /\ raised'[c]
           /\ \A other \in Threads \ {who} : Reported(c, other)' => Reported(c, other)
<1>1. /\ downs \in [Connections -> Seq(Threads)] /\ raised \in [Connections -> BOOLEAN]
      /\ downs' = [downs EXCEPT ![c] = Append(@, who)]
      /\ raised' = [raised EXCEPT ![c] = TRUE]
  BY DEF Typed, TypeOK, RaiseDown
<1>2. Len(downs[c]) \in Nat /\ downs[c] \in Seq(Threads)
  BY <1>1, Lengths
<1>3. downs'[c] = Append(downs[c], who)
  BY <1>1
<1>4. /\ Len(downs'[c]) = Len(downs[c]) + 1
      /\ downs'[c][Len(downs[c]) + 1] = who
      /\ \A i \in 1..Len(downs[c]) : downs'[c][i] = downs[c][i]
  BY <1>2, <1>3
<1>5. \A i \in 1..Len(downs[c]) : downs[c][i] # who
  BY DEF Reported
<1>6. ASSUME NEW i \in 1..Len(downs'[c]), NEW j \in 1..Len(downs'[c]), downs'[c][i] = downs'[c][j]
      PROVE  i = j
  <2>1. /\ i \in 1..Len(downs[c]) \/ i = Len(downs[c]) + 1
        /\ j \in 1..Len(downs[c]) \/ j = Len(downs[c]) + 1
    BY <1>2, <1>4
  <2>2. CASE i \in 1..Len(downs[c]) /\ j \in 1..Len(downs[c])
    BY <1>4, <1>6, <2>2
  <2>3. QED BY <1>4, <1>5, <1>6, <2>1, <2>2
<1>7. \A other \in Threads \ {who} : Reported(c, other)' => Reported(c, other)
  BY <1>2, <1>4 DEF Reported
<1>8. QED BY <1>1, <1>6, <1>7

LEMMA ReportsUntouched ==
    ASSUME Reports, UNCHANGED <<raised, downs>>,
           scheduler'.doing = "raise" =>
             \/ scheduler.doing = "raise" /\ scheduler'.con = scheduler.con
             \/ scheduler'.con \in Connections /\ ~ raised[scheduler'.con],
           sender'.doing = "raise" =>
             \/ sender.doing = "raise" /\ sender'.con = sender.con
             \/ sender'.con \in Connections /\ ~ raised[sender'.con]
    PROVE  Reports'
<1>1. \A c, who : Reported(c, who)' <=> Reported(c, who)
  BY DEF Reported
<1>2. QED BY <1>1, Bounds DEF Reports

\* ConnectionDown is raised by one of the threads.
LEMMA ReportsRaised ==
    ASSUME Typed, Reports, CloseRaises \/ SenderRaises
    PROVE  Reports'
<1>0. /\ \A c \in Connections : \A i, j \in 1..Len(downs[c]) : downs[c][i] = downs[c][j] => i = j
      /\ scheduler.doing = "raise" => scheduler.con \in Connections
      /\ sender.doing = "raise" => sender.con \in Connections
  BY DEF Reports, Typed, Attached
<1>1. CASE CloseRaises
  <2>0. PICK c \in Connections : c = scheduler.con
    BY <1>0, <1>1 DEF CloseRaises
  <2>1. "scheduler" \in Threads /\ "sender" \in Threads \ {"scheduler"}
        /\ ~ Reported(c, "scheduler") /\ RaiseDown(c, "scheduler")
    BY <1>1, <2>0 DEF Reports, CloseRaises, Threads
  <2>2. scheduler'.doing = "idle" /\ sender' = sender
    BY <1>1 DEF CloseRaises, IdleScheduler
  <2>3. /\ \A i, j \in 1..Len(downs'[c]) : downs'[c][i] = downs'[c][j] => i = j
        /\ \A d \in Connections \ {c} : downs'[d] = downs[d] /\ raised'[d] = raised[d]
        /\ raised'[c]
        /\ Reported(c, "sender")' => Reported(c, "sender")
    BY <1>0, <2>1, RaiseOnce
  <2>4. \A d \in Connections \ {c}, who \in Threads : Reported(d, who)' <=> Reported(d, who)
    BY <2>3 DEF Reported
  <2>5. QED BY <1>0, <2>0, <2>1, <2>2, <2>3, <2>4 DEF Reports, Threads
<1>2. CASE SenderRaises
  <2>0. PICK c \in Connections : c = sender.con
    BY <1>0, <1>2 DEF SenderRaises
  <2>1. "sender" \in Threads /\ "scheduler" \in Threads \ {"sender"}
        /\ ~ Reported(c, "sender") /\ RaiseDown(c, "sender")
    BY <1>2, <2>0 DEF Reports, SenderRaises, Threads
  <2>2. sender'.doing = "handle" /\ scheduler' = scheduler
    BY <1>2 DEF SenderRaises, Typed, TypeOK
  <2>3. /\ \A i, j \in 1..Len(downs'[c]) : downs'[c][i] = downs'[c][j] => i = j
        /\ \A d \in Connections \ {c} : downs'[d] = downs[d] /\ raised'[d] = raised[d]
        /\ raised'[c]
        /\ Reported(c, "scheduler")' => Reported(c, "scheduler")
    BY <1>0, <2>1, RaiseOnce
  <2>4. \A d \in Connections \ {c}, who \in Threads : Reported(d, who)' <=> Reported(d, who)
    BY <2>3 DEF Reported
  <2>5. QED BY <1>0, <2>0, <2>1, <2>2, <2>3, <2>4 DEF Reports, Threads
<1>3. QED BY <1>1, <1>2

LEMMA ReportsNext ==
    ASSUME Typed, Reports, [Next]_vars
    PROVE  Reports'
<1>1. CASE CloseRaises \/ SenderRaises
  BY <1>1, ReportsRaised
<1>2. ASSUME NEW c \in Connections, EndIsRead(c) PROVE Reports'
  <2>1. scheduler' = SchedulerDoes(IF raised[c] THEN "close" ELSE "raise", c, <<>>)
        /\ UNCHANGED <<raised, downs, sender>>
    BY <1>2 DEF EndIsRead
  <2>2. scheduler'.con = c /\ (scheduler'.doing = "raise" => ~ raised[c])
    BY <2>1 DEF SchedulerDoes
  <2>3. QED BY <2>1, <2>2, ReportsUntouched
<1>3. ASSUME NEW c \in Connections, SenderFails(c) PROVE Reports'
  <2>1. UNCHANGED <<raised, downs, scheduler>> /\ sender.doing = "serve"
    BY <1>3 DEF SenderFails
  <2>2. sender'.doing = "raise" => ~ raised[c] /\ sender'.con = c
    BY <1>3 DEF SenderFails, Typed, TypeOK
  <2>3. QED BY <2>1, <2>2, ReportsUntouched
<1>4. CASE SendWrites \/ SendDefers \/ SendFails \/ CloseSocket
           \/ \E c \in Connections : SendTests(c)
  <2>1. UNCHANGED <<raised, downs, sender>>
    BY <1>4 DEF SendWrites, SendDefers, SendFails, CloseSocket, SendTests, KeepRaised
  <2>2. scheduler'.doing # "raise"
    BY <1>4 DEF SendWrites, SendDefers, SendFails, CloseSocket, SendTests, Route,
                IdleScheduler, SchedulerDoes
  <2>3. QED BY <2>1, <2>2, ReportsUntouched
<1>5. CASE SenderCollects \/ SenderSelects \/ SenderDies \/ SenderDrops \/ SenderLoops
           \/ \E c \in Connections : SenderWrites(c) \/ SenderHandles(c)
  <2>1. UNCHANGED <<raised, downs, scheduler>>
    BY <1>5 DEF SenderCollects, SenderSelects, SenderDies, SenderDrops, SenderLoops,
                SenderWrites, SenderHandles
  <2>2. sender = [doing |-> sender.doing, cons |-> sender.cons, con |-> sender.con]
    BY DEF Typed, TypeOK
  <2>3. CASE SenderCollects \/ SenderSelects
    BY <2>1, <2>2, <2>3, ReportsUntouched DEF SenderCollects, SenderSelects
  <2>4. CASE SenderDies \/ SenderDrops \/ SenderLoops
    BY <2>1, <2>4, ReportsUntouched DEF SenderDies, SenderDrops, SenderLoops, Collecting
  <2>5. ASSUME NEW c \in Connections, SenderWrites(c) \/ SenderHandles(c) PROVE Reports'
    BY <2>1, <2>2, <2>5, ReportsUntouched DEF SenderWrites, SenderHandles
  <2>6. QED BY <1>5, <2>3, <2>4, <2>5
<1>6. CASE UNCHANGED vars \/ \E c \in Connections : SwitchReads(c) \/ SwitchGoes(c)
  <2>1. UNCHANGED <<raised, downs, scheduler, sender>>
    BY <1>6 DEF vars, SwitchReads, SwitchGoes
  <2>2. QED BY <2>1, ReportsUntouched
<1>7. QED BY <1>1, <1>2, <1>3, <1>4, <1>5, <1>6 DEF Next, Scheduler, Sender

LEMMA ReportsInit == Init => Reports
  BY Nothing DEF Init, Reports, Reported, IdleScheduler, Collecting

\* Whatever the two threads do, each of them raises ConnectionDown for a
\* connection at most once (disconnect, disconnection_raised).
THEOREM OneReportByEach == Spec => []DownOnceByEach
<1>1. Typed /\ Reports => DownOnceByEach
  <2> SUFFICES ASSUME Typed, Reports PROVE DownOnceByEach
    OBVIOUS
  <2>1. \A c \in Connections : DOMAIN downs[c] = 1..Len(downs[c])
    BY Lengths DEF Typed, TypeOK
  <2>2. QED BY <2>1 DEF Reports, DownOnceByEach
<1>2. Typed /\ Reports /\ [Next]_vars => Reports'
  BY ReportsNext
<1>3. QED BY <1>1, <1>2, TypedInit, TypedNext, ReportsInit, PTL DEF Spec

-----------------------------------------------------------------------------
(* The sender's thread is at work only while data is queued. *)

LEMMA ServingKept ==
    ASSUME Typed, Serving, sender' = sender,
           \A c \in Connections : queue[c] # <<>> => queue'[c] # <<>>
    PROVE  Serving'
<1>1. /\ sender.cons \subseteq Connections
      /\ sender.doing \in {"raise", "handle"} => sender.con \in Connections
  BY DEF Typed, TypeOK, Attached
<1>2. QED BY <1>1 DEF Serving

LEMMA ExtendedTyped ==
    ASSUME Typed, NEW c \in Connections, NEW d \in Seq(Chunks), queue' = Extended(c, d)
    PROVE  /\ queue'[c] = queue[c] \o d
           /\ \A x \in Connections \ {c} : queue'[x] = queue[x]
           /\ \A x \in Connections : queue[x] # <<>> => queue'[x] # <<>>
<1>1. /\ queue \in [Connections -> Seq(Chunks)]
      /\ queue' = [queue EXCEPT ![c] = queue[c] \o d]
  BY DEF Typed, TypeOK, Extended
<1>2. queue'[c] = queue[c] \o d /\ \A x \in Connections \ {c} : queue'[x] = queue[x]
  BY <1>1
<1>3. queue[c] # <<>> => queue[c] \o d # <<>>
  <2>1. queue[c] \in Seq(Chunks)
    BY <1>1
  <2>2. queue[c] \o d = <<>> <=> queue[c] = <<>> /\ d = <<>>
    BY <2>1, ConcatEqualIffEmpty
  <2>3. QED BY <2>2
<1>4. QED BY <1>2, <1>3

LEMMA ServingNext ==
    ASSUME Typed, Serving, [Next]_vars
    PROVE  Serving'
<1>0. /\ sender = [doing |-> sender.doing, cons |-> sender.cons, con |-> sender.con]
      /\ sender.cons \subseteq Connections /\ queue \in [Connections -> Seq(Chunks)]
  BY DEF Typed, TypeOK
<1>1. CASE UNCHANGED vars \/ SendWrites \/ SendFails \/ CloseRaises \/ CloseSocket
           \/ \E c \in Connections : EndIsRead(c) \/ SendTests(c) \/ SwitchReads(c) \/ SwitchGoes(c)
  <2>1. sender' = sender /\ queue' = queue
    BY <1>1 DEF vars, SendWrites, SendFails, CloseRaises, CloseSocket, EndIsRead, SendTests,
                SwitchReads, SwitchGoes
  <2>2. QED BY <2>1, ServingKept
<1>2. CASE SendDefers
  <2>1. PICK c \in Connections : c = scheduler.con
    BY <1>2 DEF SendDefers, Typed, Attached
  <2>2. scheduler.data \in Seq(Chunks) /\ queue' = Extended(c, scheduler.data) /\ sender' = sender
    BY <1>2, <2>1 DEF SendDefers, Typed, TypeOK
  <2>3. QED BY <2>2, ExtendedTyped, ServingKept
<1>3. ASSUME NEW c \in Connections, SenderHandles(c) PROVE Serving'
  <2>1. Message(c, "sender") \in Seq(Chunks)
    BY Bounds, MessageTyped DEF Typed
  <2>2. queue' = Extended(c, Message(c, "sender")) /\ sender' = sender
    BY <1>3 DEF SenderHandles
  <2>3. QED BY <2>1, <2>2, ExtendedTyped, ServingKept
<1>4. CASE SenderCollects \/ SenderSelects \/ SenderDies \/ SenderRaises \/ SenderLoops
  <2>1. queue' = queue
    BY <1>4 DEF SenderCollects, SenderSelects, SenderDies, SenderRaises, SenderLoops
  <2>2. CASE SenderCollects
    <3>1. sender'.doing = "select" /\ sender'.cons = Queued
      BY <1>0, <2>2 DEF SenderCollects
    <3>2. QED BY <2>1, <3>1 DEF Serving, Queued
  <2>3. CASE SenderSelects
    <3>1. /\ sender.doing = "select" /\ sender'.doing = "serve"
          /\ sender'.cons \subseteq sender.cons
      BY <1>0, <2>3 DEF SenderSelects
    <3>2. QED BY <2>1, <3>1 DEF Serving
  <2>4. CASE SenderDies \/ SenderLoops
    BY <2>4 DEF SenderDies, SenderLoops, Serving, Collecting
  <2>5. CASE SenderRaises
    <3>1. /\ sender.doing = "raise" /\ sender'.doing = "handle"
          /\ sender'.cons = sender.cons /\ sender'.con = sender.con
      BY <1>0, <2>5 DEF SenderRaises
    <3>2. QED BY <2>1, <3>1 DEF Serving
  <2>6. QED BY <1>4, <2>2, <2>3, <2>4, <2>5
<1>5. ASSUME NEW c \in Connections, SenderWrites(c) \/ SenderFails(c) PROVE Serving'
  <2>1. /\ sender.doing = "serve" /\ c \in sender.cons
        /\ \A x \in Connections \ {c} : queue'[x] = queue[x]
    BY <1>0, <1>5 DEF SenderWrites, SenderFails
  <2>2. \A x \in sender.cons : queue[x] # <<>>
    BY <2>1 DEF Serving
  <2>3. CASE sender' = [sender EXCEPT !.cons = @ \ {c}]
    <3>1. sender'.doing = "serve" /\ sender'.cons = sender.cons \ {c}
      BY <1>0, <2>1, <2>3
    <3>2. QED BY <1>0, <2>1, <2>2, <3>1 DEF Serving
  <2>4. CASE sender' = [sender EXCEPT !.doing = "raise", !.con = c] /\ queue' = queue
    <3>1. sender'.doing = "raise" /\ sender'.cons = sender.cons /\ sender'.con = c
      BY <1>0, <2>4
    <3>2. QED BY <2>1, <2>2, <2>4, <3>1 DEF Serving
  <2>5. QED BY <1>5, <2>3, <2>4 DEF SenderWrites, SenderFails
<1>6. CASE SenderDrops
  <2>1. /\ sender.doing = "handle" /\ sender'.doing = "serve"
        /\ sender'.cons = sender.cons \ {sender.con}
        /\ \A x \in Connections \ {sender.con} : queue'[x] = queue[x]
    BY <1>0, <1>6 DEF SenderDrops
  <2>2. QED BY <1>0, <2>1 DEF Serving
<1>7. QED BY <1>1, <1>2, <1>3, <1>4, <1>5, <1>6 DEF Next, Scheduler, Sender

-----------------------------------------------------------------------------
(* The order of bytes. *)

InOrder == Ordered /\ NothingStranded /\ QueuesWait

LEMMA LineTyped ==
    ASSUME Typed, NEW c \in Connections
    PROVE  /\ Stream(c) \in Seq(Chunks) /\ queue[c] \in Seq(Chunks) /\ Line(c) \in Seq(Chunks)
           /\ Pending(c) \in Seq(Chunks) /\ Len(Pending(c)) \in Nat
           /\ \A t \in Threads : sent[c][t] \in Nat
<1>1. /\ Stream(c) \in Seq(Chunks) /\ queue[c] \in Seq(Chunks) /\ Pending(c) \in Seq(Chunks)
      /\ \A t \in Threads : sent[c][t] \in Nat
  BY Nothing DEF Typed, TypeOK, Stream, Pending
<1>2. QED BY <1>1, Lengths, ConcatProperties DEF Line

\* Steps that neither move data nor open a socket.
LEMMA OrderUntouched ==
    ASSUME Ordered, UNCHANGED <<queue, sent>>,
           \A c \in Connections : buffer'[c].stream = buffer[c].stream,
           \A c \in Connections : sock'[c] = "open" => sock[c] = "open" /\ Pending(c)' = Pending(c)
    PROVE  Ordered'
<1>1. \A c \in Connections : Stream(c)' = Stream(c) /\ Line(c)' = Line(c)
  BY DEF Stream, Line
<1>2. QED BY <1>1 DEF Ordered

\* A step that moves data of one connection, in order.
LEMMA OneMoves ==
    ASSUME Ordered, NEW c \in Connections, WellFormed(Stream(c)'),
           sock'[c] = "open" => InLine(Line(c)', Pending(c)', sent'[c]),
           \A d \in Connections \ {c} :
             /\ buffer'[d].stream = buffer[d].stream /\ queue'[d] = queue[d]
             /\ sent'[d] = sent[d]
             /\ sock'[d] = "open" => sock[d] = "open" /\ Pending(d)' = Pending(d)
    PROVE  Ordered'
<1>1. \A d \in Connections \ {c} : Stream(d)' = Stream(d) /\ Line(d)' = Line(d)
  BY DEF Stream, Line
<1>2. \A d \in Connections : WellFormed(Stream(d)')
  BY <1>1 DEF Ordered
<1>3. ASSUME NEW d \in Connections, sock'[d] = "open"
      PROVE  InLine(Line(d)', Pending(d)', sent'[d])
  BY <1>1, <1>3 DEF Ordered
<1>4. QED BY <1>2, <1>3 DEF Ordered

\* Nothing new is queued, and the scheduler's thread holds no new part.
LEMMA QueueUntouched ==
    ASSUME NothingStranded, QueuesWait, UNCHANGED sending,
           \A c \in Connections : queue'[c] = queue[c] \/ queue'[c] = <<>>,
           scheduler'.doing = "write" => scheduler.doing = "write",
           scheduler'.data = scheduler.data \/ scheduler'.data = <<>> \/ scheduler.doing = "write"
    PROVE  NothingStranded' /\ QueuesWait'
  BY Nothing DEF NothingStranded, QueuesWait, Queued

LEMMA SendTestsInOrder ==
    ASSUME Typed, InOrder, NEW c \in Connections, SendTests(c)
    PROVE  InOrder'
<1> DEFINE new == Message(c, "scheduler")
           n   == sent[c]["scheduler"]
<1>1. /\ scheduler.data = <<>> /\ scheduler' = SchedulerDoes(Route, c, new)
      /\ UNCHANGED <<sock, buffer, queue, sending>>
  BY DEF SendTests, Typed, Attached
<1>2. \A d \in Connections : Pending(d) = <<>>
  BY <1>1 DEF Pending
<1>3. Pending(c)' = new /\ \A d \in Connections \ {c} : Pending(d)' = <<>>
  BY <1>1 DEF Pending, SchedulerDoes
<1>4. Len(new) = 2 /\ Numbered(new, "scheduler", 2 * n) /\ n \in Nat
  BY Bounds, MessageTyped, LineTyped DEF Typed
<1>5. /\ sent'[c]["scheduler"] = n + 1 /\ sent'[c]["sender"] = sent[c]["sender"]
      /\ \A d \in Connections \ {c} : sent'[d] = sent[d]
  BY Bounds, HandOverTyped DEF SendTests, Threads
<1>6. Stream(c)' = Stream(c) /\ Line(c)' = Line(c)
  BY <1>1 DEF Stream, Line
<1>7. ASSUME sock[c] = "open" PROVE InLine(Line(c)', Pending(c)', sent'[c])
  <2>1. InLine(Line(c), <<>>, sent[c])
    BY <1>2, <1>7 DEF InOrder, Ordered
  <2>2. 2 * n - 0 = 2 * n /\ 2 * (n + 1) - 2 = 2 * n /\ 2 <= 2 * (n + 1)
    BY <1>4
  <2>3. /\ WellFormed(Line(c)) /\ Covers(Line(c), "scheduler", 2 * n)
        /\ Covers(Line(c), "sender", 2 * sent[c]["sender"])
    BY <2>1, <2>2, Nothing DEF InLine
  <2> HIDE DEF new, n
  <2>4. QED BY <1>3, <1>4, <1>5, <1>6, <2>2, <2>3 DEF InLine
<1>8. WellFormed(Stream(c)')
  BY <1>6 DEF InOrder, Ordered
<1>9. Ordered'
  BY <1>1, <1>2, <1>3, <1>5, <1>7, <1>8, OneMoves DEF InOrder
<1>10. scheduler'.data = new /\ (scheduler'.doing = "write" => ~ sending)
  BY <1>1 DEF SchedulerDoes, Route
<1>11. NothingStranded' /\ QueuesWait'
  BY <1>1, <1>4, <1>10 DEF InOrder, NothingStranded, QueuesWait, Queued
<1>12. QED BY <1>9, <1>11 DEF InOrder

LEMMA SendWritesInOrder ==
    ASSUME Typed, InOrder, SendWrites
    PROVE  InOrder'
<1>0. PICK c \in Connections : c = scheduler.con
  BY DEF SendWrites, Typed, Attached
<1> DEFINE d    == scheduler.data
           left == Rest(c, d)
           n    == 2 * sent[c]["scheduler"] - Len(d)
<1>1. /\ d \in Seq(Chunks) /\ sock[c] = "open" /\ buffer' = Buffered(c, d)
      /\ UNCHANGED <<sock, queue, sent, sending>> /\ TypeOK /\ scheduler.doing = "write"
      /\ scheduler' = IF left = <<>> THEN IdleScheduler ELSE SchedulerDoes("defer", c, left)
  BY <1>0 DEF SendWrites, Accepts, Typed, TypeOK
<1>2. Pending(c) = d /\ \A x \in Connections \ {c} : Pending(x) = <<>>
  BY <1>0 DEF Pending
<1>3. queue[c] = <<>>
  BY <1>1 DEF InOrder, QueuesWait, Queued
<1>4. /\ Stream(c) \in Seq(Chunks) /\ Len(d) \in Nat
      /\ sent[c]["scheduler"] \in Nat /\ sent[c]["sender"] \in Nat
  BY <1>2, Bounds, LineTyped
<1>5. Line(c) = Stream(c)
  BY <1>3, <1>4, ConcatEmptySeq DEF Line
<1>6. /\ WellFormed(Stream(c)) /\ n \in Nat /\ Numbered(d, "scheduler", n)
      /\ Covers(Stream(c), "scheduler", n)
      /\ Covers(Stream(c), "sender", 2 * sent[c]["sender"])
  <2>1. InLine(Stream(c), d, sent[c])
    BY <1>1, <1>2, <1>5 DEF InOrder, Ordered
  <2> HIDE DEF d
  <2>2. QED BY <1>4, <2>1 DEF InLine
<1>7. /\ \A x \in Connections \ {c} : buffer'[x] = buffer[x]
      /\ left \in Seq(Chunks)
      /\ \E taken \in Seq(Chunks) :
           /\ buffer'[c].stream = Stream(c) \o taken
           /\ Len(d) = Len(taken) + Len(left)
           /\ \A i \in 1..Len(taken) : taken[i] = d[i]
           /\ \A i \in 1..Len(left) : left[i] = d[Len(taken) + i]
  BY <1>1, Written
<1> HIDE DEF d, left, n
<1>8. PICK taken \in Seq(Chunks) :
           /\ buffer'[c].stream = Stream(c) \o taken
           /\ Len(d) = Len(taken) + Len(left)
           /\ \A i \in 1..Len(taken) : taken[i] = d[i]
           /\ \A i \in 1..Len(left) : left[i] = d[Len(taken) + i]
  BY <1>7
<1>9. Len(taken) \in Nat /\ Len(left) \in Nat /\ n + Len(taken) \in Nat
  BY <1>6, <1>7, Lengths
<1>10. /\ Numbered(taken, "scheduler", n)
       /\ Numbered(left, "scheduler", n + Len(taken))
  <2>1. ASSUME NEW i \in 1..Len(taken) PROVE taken[i] = [by |-> "scheduler", no |-> n + i]
    BY <1>4, <1>6, <1>8, <1>9 DEF Numbered
  <2>2. ASSUME NEW i \in 1..Len(left)
        PROVE  left[i] = [by |-> "scheduler", no |-> n + Len(taken) + i]
    <3>1. Len(taken) + i \in 1..Len(d) /\ n + (Len(taken) + i) = n + Len(taken) + i
      BY <1>6, <1>8, <1>9
    <3>2. d[Len(taken) + i] = [by |-> "scheduler", no |-> n + (Len(taken) + i)]
      BY <1>6, <3>1 DEF Numbered
    <3>3. QED BY <1>8, <3>1, <3>2
  <2>3. QED BY <2>1, <2>2 DEF Numbered
<1>11. /\ WellFormed(Stream(c) \o taken) /\ Stream(c) \o taken \in Seq(Chunks)
       /\ Covers(Stream(c) \o taken, "scheduler", n + Len(taken))
       /\ Covers(Stream(c) \o taken, "sender", 2 * sent[c]["sender"])
  <2>1. (2 * sent[c]["sender"]) % 2 = 0 /\ 2 * sent[c]["sender"] \in Nat
    BY <1>4
  <2>2. "sender" \in Threads \ {"scheduler"} /\ "scheduler" \in Threads
    BY DEF Threads
  <2>3. QED BY <1>4, <1>6, <1>10, <2>1, <2>2, Lengthened
<1>12. /\ Pending(c)' = left /\ scheduler'.doing # "write" /\ scheduler.doing = "write"
       /\ \A x \in Connections \ {c} : Pending(x)' = <<>>
  BY <1>1 DEF Pending, IdleScheduler, SchedulerDoes
<1>13. Stream(c)' = Stream(c) \o taken /\ Line(c)' = Stream(c) \o taken
  <2>1. Stream(c)' = Stream(c) \o taken
    BY <1>8 DEF Stream
  <2>2. Line(c)' = Stream(c)' \o <<>>
    BY <1>1, <1>3 DEF Line
  <2>3. QED BY <1>11, <2>1, <2>2, ConcatEmptySeq
<1>14. InLine(Line(c)', Pending(c)', sent'[c])
  <2>1. 2 * sent[c]["scheduler"] - Len(left) = n + Len(taken)
        /\ Len(left) <= 2 * sent[c]["scheduler"]
    <3> DEFINE s == sent[c]["scheduler"]
    <3>1. Len(d) = Len(taken) + Len(left) /\ n \in Nat
      BY <1>6, <1>8
    <3>2. s \in Nat /\ Len(taken) \in Nat /\ Len(left) \in Nat /\ n = 2 * s - Len(d)
      BY <1>4, <1>9 DEF n
    <3> HIDE DEF s
    <3>3. 2 * s - Len(left) = n + Len(taken) /\ Len(left) <= 2 * s
      BY <3>1, <3>2
    <3>4. QED BY <3>3 DEF s
  <2>2. InLine(Stream(c) \o taken, left, sent[c])
    BY <1>10, <1>11, <2>1 DEF InLine
  <2>3. Line(c)' = Stream(c) \o taken /\ Pending(c)' = left /\ sent'[c] = sent[c]
    BY <1>1, <1>12, <1>13
  <2>4. QED BY <2>2, <2>3
<1>15. Ordered'
  BY <1>1, <1>2, <1>7, <1>11, <1>12, <1>13, <1>14, OneMoves DEF InOrder
<1>16. NothingStranded' /\ QueuesWait'
  BY <1>1, <1>12, QueueUntouched DEF InOrder
<1>17. QED BY <1>15, <1>16 DEF InOrder

\* Data joins the queue of a connection, at the end of its line.
LEMMA ExtendedInOrder ==
    ASSUME Typed, Ordered, NEW c \in Connections, NEW d \in Seq(Chunks),
           queue' = Extended(c, d), UNCHANGED <<sock, buffer>>,
           \A x \in Connections \ {c} : sent'[x] = sent[x] /\ Pending(x)' = Pending(x),
           sock[c] = "open" => InLine(Line(c) \o d, Pending(c)', sent'[c])
    PROVE  Ordered'
<1>1. Stream(c) \in Seq(Chunks) /\ queue[c] \in Seq(Chunks) /\ Stream(c)' = Stream(c)
  BY LineTyped DEF Stream
<1>2. Line(c)' = Line(c) \o d
  <2>1. Line(c)' = Stream(c) \o (queue[c] \o d)
    BY <1>1, ExtendedTyped DEF Line
  <2>2. Stream(c) \in Seq(Chunks) /\ queue[c] \in Seq(Chunks) /\ d \in Seq(Chunks)
    BY <1>1
  <2>3. \A s, t, u \in Seq(Chunks) : (s \o t) \o u = s \o (t \o u)
    BY ConcatAssociative
  <2>4. (Stream(c) \o queue[c]) \o d = Stream(c) \o (queue[c] \o d)
    BY <2>2, <2>3
  <2>5. QED BY <2>1, <2>4 DEF Line
<1>3. WellFormed(Stream(c)')
  BY <1>1 DEF Ordered
<1>4. \A x \in Connections \ {c} : queue'[x] = queue[x]
  BY ExtendedTyped
<1>5. QED BY <1>2, <1>3, <1>4, OneMoves

LEMMA SendDefersInOrder ==
    ASSUME Typed, InOrder, SendDefers
    PROVE  InOrder'
<1>0. PICK c \in Connections : c = scheduler.con
  BY DEF SendDefers, Typed, Attached
<1> DEFINE d == scheduler.data
           n == 2 * sent[c]["scheduler"] - Len(d)
<1>1. /\ d \in Seq(Chunks) /\ queue' = Extended(c, d) /\ scheduler' = IdleScheduler
      /\ sending' = TRUE /\ UNCHANGED <<sock, buffer, sent>>
  BY <1>0 DEF SendDefers, Typed, TypeOK
<1>2. Pending(c) = d /\ \A x \in Connections \ {c} : Pending(x) = <<>>
  BY <1>0 DEF Pending
<1>3. \A x \in Connections : Pending(x)' = <<>>
  BY <1>1 DEF Pending, IdleScheduler
<1>4. /\ Line(c) \in Seq(Chunks) /\ Len(d) \in Nat
      /\ sent[c]["scheduler"] \in Nat /\ sent[c]["sender"] \in Nat
  BY <1>2, Bounds, LineTyped
<1> HIDE DEF d
<1>5. ASSUME sock[c] = "open" PROVE InLine(Line(c) \o d, <<>>, sent[c])
  <2>1. InLine(Line(c), d, sent[c])
    BY <1>2, <1>5 DEF InOrder, Ordered
  <2>2. /\ WellFormed(Line(c)) /\ n \in Nat /\ Numbered(d, "scheduler", n)
        /\ Covers(Line(c), "scheduler", n)
        /\ Covers(Line(c), "sender", 2 * sent[c]["sender"])
    BY <1>4, <2>1 DEF InLine
  <2>3. n + Len(d) = 2 * sent[c]["scheduler"]
    BY <1>4
  <2>4. (2 * sent[c]["sender"]) % 2 = 0 /\ 2 * sent[c]["sender"] \in Nat
    BY <1>4
  <2>5. "sender" \in Threads \ {"scheduler"} /\ "scheduler" \in Threads
    BY DEF Threads
  <2> HIDE DEF n
  <2>6. /\ WellFormed(Line(c) \o d)
        /\ Covers(Line(c) \o d, "scheduler", n + Len(d))
        /\ Covers(Line(c) \o d, "sender", 2 * sent[c]["sender"])
    BY <1>1, <1>4, <2>2, <2>4, <2>5, Lengthened
  <2>7. /\ 2 * sent[c]["scheduler"] - 0 = 2 * sent[c]["scheduler"]
        /\ 0 <= 2 * sent[c]["scheduler"]
    BY <1>4
  <2>8. Numbered(<<>>, "scheduler", 2 * sent[c]["scheduler"])
    BY Nothing DEF Numbered
  <2>9. QED BY <2>3, <2>6, <2>7, <2>8, Nothing DEF InLine
<1>6. Ordered'
  <2>1. sock[c] = "open" => InLine(Line(c) \o d, Pending(c)', sent'[c])
    BY <1>1, <1>3, <1>5
  <2>2. QED BY <1>1, <1>2, <1>3, <2>1, ExtendedInOrder DEF InOrder
<1>7. NothingStranded' /\ QueuesWait'
  BY <1>1, Nothing DEF NothingStranded, QueuesWait, IdleScheduler
<1>8. QED BY <1>6, <1>7 DEF InOrder

LEMMA EvenLeft == \A a \in Nat, l \in {0, 2} : (2 * a - l) % 2 = 0
<1> SUFFICES ASSUME NEW a \in Nat, NEW l \in {0, 2} PROVE (2 * a - l) % 2 = 0
  OBVIOUS
<1>1. CASE l = 0
  BY <1>1
<1>2. CASE l = 2
  <2>1. 2 * a - l = 2 * (a - 1)
    BY <1>2
  <2>2. QED BY <2>1
<1>3. QED BY <1>1, <1>2

\* A handler in the sender's thread meets the flag set, and the scheduler's
\* thread with a whole message or none.
LEMMA HandlersMeet ==
    ASSUME Typed, InOrder, Serving, sender.doing = "handle"
    PROVE  sending /\ scheduler.doing # "write" /\ Len(scheduler.data) \in {0, 2}
<1>1. sender.con \in Connections /\ queue[sender.con] # <<>>
  BY DEF Typed, Attached, Serving
<1>2. Queued # {}
  BY <1>1 DEF Queued
<1>3. QED BY <1>2 DEF InOrder, NothingStranded, QueuesWait

LEMMA SenderHandlesInOrder ==
    ASSUME Typed, InOrder, Serving, NEW c \in Connections, SenderHandles(c)
    PROVE  InOrder'
<1> DEFINE d == Message(c, "sender")
           n == sent[c]["sender"]
           m == 2 * sent[c]["scheduler"] - Len(Pending(c))
<1>1. /\ queue' = Extended(c, d) /\ UNCHANGED <<sock, buffer, scheduler, sending>> /\ sending
      /\ sender.doing = "handle" /\ HandOver(c, "sender")
  BY DEF SenderHandles
<1>2. /\ d \in Seq(Chunks) /\ Len(d) = 2 /\ Numbered(d, "sender", 2 * n) /\ n \in Nat
      /\ sent[c]["scheduler"] \in Nat /\ Line(c) \in Seq(Chunks)
      /\ Len(Pending(c)) \in Nat
  BY Bounds, MessageTyped, LineTyped DEF Typed
<1>3. scheduler.doing # "write" /\ Len(scheduler.data) \in {0, 2}
  BY <1>1, HandlersMeet
<1>4. Len(Pending(c)) \in {0, 2}
  BY <1>3, Nothing DEF Pending
<1>5. \A x \in Connections : Pending(x)' = Pending(x)
  BY <1>1 DEF Pending
<1>6. /\ sent'[c]["sender"] = n + 1 /\ sent'[c]["scheduler"] = sent[c]["scheduler"]
      /\ \A x \in Connections \ {c} : sent'[x] = sent[x]
  BY <1>1, Bounds, HandOverTyped DEF Threads
<1> HIDE DEF d
<1>7. ASSUME sock[c] = "open" PROVE InLine(Line(c) \o d, Pending(c), sent'[c])
  <2>1. InLine(Line(c), Pending(c), sent[c])
    BY <1>7 DEF InOrder, Ordered
  <2>2. /\ WellFormed(Line(c)) /\ m \in Nat /\ Len(Pending(c)) <= 2 * sent[c]["scheduler"]
        /\ Numbered(Pending(c), "scheduler", m)
        /\ Covers(Line(c), "scheduler", m) /\ Covers(Line(c), "sender", 2 * n)
    BY <1>2, <2>1 DEF InLine
  <2>3. m % 2 = 0
    BY <1>2, <1>4, EvenLeft
  <2>4. 2 * n \in Nat /\ 2 * n + 2 = 2 * (n + 1)
    BY <1>2
  <2>5. "scheduler" \in Threads \ {"sender"} /\ "sender" \in Threads
    BY DEF Threads
  <2> HIDE DEF m, n
  <2>6. /\ WellFormed(Line(c) \o d)
        /\ Covers(Line(c) \o d, "sender", 2 * n + Len(d))
        /\ Covers(Line(c) \o d, "scheduler", m)
    BY <1>2, <2>2, <2>3, <2>4, <2>5, Lengthened
  <2>7. m = 2 * sent'[c]["scheduler"] - Len(Pending(c))
    BY <1>6 DEF m
  <2>8. 2 * n + Len(d) = 2 * sent'[c]["sender"]
    BY <1>2, <1>6, <2>4
  <2>9. QED BY <1>6, <2>2, <2>6, <2>7, <2>8 DEF InLine
<1>8. Ordered'
  BY <1>1, <1>2, <1>5, <1>6, <1>7, ExtendedInOrder DEF InOrder
<1>9. NothingStranded' /\ QueuesWait'
  BY <1>1, <1>3 DEF NothingStranded, QueuesWait
<1>10. QED BY <1>8, <1>9 DEF InOrder

LEMMA SenderWritesInOrder ==
    ASSUME Typed, InOrder, NEW c \in Connections, SenderWrites(c)
    PROVE  InOrder'
<1> DEFINE q    == queue[c]
           left == Rest(c, q)
<1>1. /\ q \in Seq(Chunks) /\ queue \in [Connections -> Seq(Chunks)] /\ TypeOK
      /\ sock[c] = "open" /\ buffer' = Buffered(c, q)
      /\ queue' = [queue EXCEPT ![c] = left]
      /\ sending' = (sending /\ ~ (left = <<>> /\ Queued \ {c} = {}))
      /\ UNCHANGED <<sock, sent, scheduler>>
  BY DEF SenderWrites, Accepts, Cleared, Typed, TypeOK
<1>2. \A x \in Connections : Pending(x)' = Pending(x)
  BY <1>1 DEF Pending
<1>3. Stream(c) \in Seq(Chunks) /\ InLine(Line(c), Pending(c), sent[c])
  BY <1>1, LineTyped DEF InOrder, Ordered
<1>4. /\ \A x \in Connections \ {c} : buffer'[x] = buffer[x]
      /\ left \in Seq(Chunks)
      /\ \E taken \in Seq(Chunks) :
           buffer'[c].stream = Stream(c) \o taken /\ taken \o left = q
  BY <1>1, Written
<1>5. q = <<>> => left = <<>>
  <2> SUFFICES ASSUME q = <<>> PROVE left = <<>>
    OBVIOUS
  <2>1. Len(q) = 0 /\ Taken(c, q) \in 0..Len(q)
    BY <1>1, Nothing, TakenInBounds
  <2>2. Taken(c, q) + 1 \in Int /\ Len(q) \in Int /\ Len(q) < Taken(c, q) + 1
    BY <2>1
  <2>3. QED BY <2>2, SubSeqEmpty DEF Rest
<1> HIDE DEF left
<1>6. PICK taken \in Seq(Chunks) :
        buffer'[c].stream = Stream(c) \o taken /\ taken \o left = q
  BY <1>4
<1>7. queue'[c] = left /\ \A x \in Connections \ {c} : queue'[x] = queue[x]
  BY <1>1
<1>8. Stream(c)' = Stream(c) \o taken /\ Stream(c)' \in Seq(Chunks)
  BY <1>3, <1>6, ConcatProperties DEF Stream
<1>9. Line(c)' = Line(c)
  <2>1. (Stream(c) \o taken) \o left = Stream(c) \o (taken \o left)
    BY <1>3, <1>4, ConcatAssociative
  <2>2. QED BY <1>6, <1>7, <1>8, <2>1 DEF Line
<1>10. WellFormed(Stream(c)')
  <2>1. WellFormed(Stream(c)' \o left)
    BY <1>3, <1>7, <1>9 DEF InLine, Line
  <2>2. QED BY <1>4, <1>8, <2>1, Prefix
<1>11. Ordered'
  BY <1>1, <1>2, <1>3, <1>4, <1>7, <1>9, <1>10, OneMoves DEF InOrder
<1>12. NothingStranded'
  <2> SUFFICES ASSUME ~ sending', NEW x \in Connections PROVE queue'[x] = <<>>
    BY DEF NothingStranded, Queued
  <2>1. CASE ~ sending
    <3>1. queue[x] = <<>>
      BY <2>1 DEF InOrder, NothingStranded, Queued
    <3>2. QED BY <1>5, <1>7, <3>1
  <2>2. CASE left = <<>> /\ Queued \ {c} = {}
    BY <1>7, <2>2 DEF Queued
  <2>3. QED BY <1>1, <2>1, <2>2
<1>13. QueuesWait'
  <2> SUFFICES ASSUME scheduler.doing = "write" \/ Len(scheduler.data) \notin {0, 2},
                      NEW x \in Connections
               PROVE  queue'[x] = <<>>
    BY <1>1 DEF QueuesWait, Queued
  <2>1. queue[x] = <<>>
    BY DEF InOrder, QueuesWait, Queued
  <2>2. QED BY <1>5, <1>7, <2>1
<1>14. QED BY <1>11, <1>12, <1>13 DEF InOrder

\* A connection whose data is thrown away has no open socket.
LEMMA DroppedInOrder ==
    ASSUME Typed, InOrder, NEW c \in Connections, sock'[c] # "open",
           \A d \in Connections \ {c} : sock'[d] = sock[d] /\ queue'[d] = queue[d],
           queue'[c] = queue[c] \/ queue'[c] = <<>>,
           UNCHANGED <<buffer, sent, sending>>,
           scheduler' = scheduler
             \/ (scheduler' = IdleScheduler /\ (scheduler.con = c \/ scheduler.data = <<>>))
    PROVE  InOrder'
<1>1. \A d \in Connections \ {c} : Pending(d)' = Pending(d)
  BY DEF Pending, IdleScheduler
<1>2. WellFormed(Stream(c)')
  BY DEF InOrder, Ordered, Stream
<1>3. Ordered'
  BY <1>1, <1>2, OneMoves DEF InOrder
<1>4. /\ scheduler'.doing = "write" => scheduler.doing = "write"
      /\ scheduler'.data = scheduler.data \/ scheduler'.data = <<>>
  BY DEF IdleScheduler
<1>5. \A d \in Connections : queue'[d] = queue[d] \/ queue'[d] = <<>>
  OBVIOUS
<1>6. NothingStranded' /\ QueuesWait'
  BY <1>4, <1>5, QueueUntouched DEF InOrder
<1>7. QED BY <1>3, <1>6 DEF InOrder

\* Steps of the scheduler's thread that hold no data before or after.
LEMMA EmptyHandedInOrder ==
    ASSUME InOrder, UNCHANGED <<sock, queue, buffer, sent, sending>>,
           scheduler.data = <<>>, scheduler'.data = <<>>, scheduler'.doing # "write"
    PROVE  InOrder'
<1>1. \A c \in Connections : Pending(c)' = Pending(c)
  BY DEF Pending
<1>2. Ordered'
  BY <1>1, OrderUntouched DEF InOrder
<1>3. QED BY <1>2, QueueUntouched DEF InOrder

LEMMA SchedulerInOrder ==
    ASSUME Typed, InOrder, Scheduler
    PROVE  InOrder'
<1>0. /\ sock \in [Connections -> {"open", "shut", "closed"}]
      /\ scheduler.doing \in {"idle", "raise", "close"} => scheduler.data = <<>>
  BY DEF Typed, TypeOK, Attached
<1>1. CASE SendWrites \/ SendDefers
  BY <1>1, SendWritesInOrder, SendDefersInOrder
<1>2. CASE SendFails
  <2>1. PICK c \in Connections : c = scheduler.con
    BY <1>2 DEF SendFails, Typed, Attached
  <2>2. /\ sock'[c] # "open" /\ \A d \in Connections \ {c} : sock'[d] = sock[d]
        /\ UNCHANGED <<queue, buffer, sent, sending>> /\ scheduler' = IdleScheduler
    BY <1>0, <1>2, <2>1 DEF SendFails
  <2>3. QED BY <2>1, <2>2, DroppedInOrder
<1>3. CASE CloseSocket
  <2>1. PICK c \in Connections : c = closing
    BY <1>3 DEF CloseSocket, Typed, TypeOK
  <2>2. /\ sock'[c] # "open" /\ \A d \in Connections \ {c} : sock'[d] = sock[d]
        /\ UNCHANGED <<queue, buffer, sent, sending>> /\ scheduler' = IdleScheduler
        /\ scheduler.data = <<>>
    BY <1>0, <1>3, <2>1 DEF CloseSocket
  <2>3. QED BY <2>2, DroppedInOrder
<1>4. CASE CloseRaises
  BY <1>0, <1>4, EmptyHandedInOrder DEF CloseRaises, IdleScheduler
<1>5. ASSUME NEW c \in Connections, EndIsRead(c) PROVE InOrder'
  <2>1. /\ UNCHANGED <<sock, queue, buffer, sent, sending>> /\ scheduler.data = <<>>
        /\ scheduler' = SchedulerDoes(IF raised[c] THEN "close" ELSE "raise", c, <<>>)
    BY <1>0, <1>5 DEF EndIsRead
  <2>2. scheduler'.data = <<>> /\ scheduler'.doing # "write"
    BY <2>1 DEF SchedulerDoes
  <2>3. QED BY <2>1, <2>2, EmptyHandedInOrder
<1>6. QED BY <1>1, <1>2, <1>3, <1>4, <1>5 DEF Scheduler

LEMMA StepAsideInOrder ==
    ASSUME InOrder, UNCHANGED <<sock, queue, sent, sending, scheduler>>,
           \A c \in Connections : buffer'[c].stream = buffer[c].stream
    PROVE  InOrder'
<1>1. \A c \in Connections : Pending(c)' = Pending(c)
  BY DEF Pending
<1>2. Ordered'
  BY <1>1, OrderUntouched DEF InOrder
<1>3. QED BY <1>2, QueueUntouched DEF InOrder

LEMMA SenderInOrder ==
    ASSUME Typed, InOrder, Sender
    PROVE  InOrder'
<1>0. /\ sock \in [Connections -> {"open", "shut", "closed"}]
      /\ queue \in [Connections -> Seq(Chunks)]
  BY DEF Typed, TypeOK
<1>1. CASE SenderCollects \/ SenderSelects \/ SenderDies \/ SenderRaises \/ SenderLoops
  BY <1>1, StepAsideInOrder DEF SenderCollects, SenderSelects, SenderDies, SenderRaises, SenderLoops
<1>2. ASSUME NEW c \in Connections, SenderWrites(c) PROVE InOrder'
  BY <1>2, SenderWritesInOrder
<1>3. ASSUME NEW c \in Connections, SenderFails(c) PROVE InOrder'
  <2>1. UNCHANGED <<buffer, sent, sending, scheduler>>
    BY <1>3 DEF SenderFails
  <2>2. CASE raised[c]
    <3>1. /\ sock'[c] # "open" /\ queue'[c] = <<>>
          /\ \A d \in Connections \ {c} : sock'[d] = sock[d] /\ queue'[d] = queue[d]
      BY <1>0, <1>3, <2>2 DEF SenderFails
    <3>2. QED BY <2>1, <3>1, DroppedInOrder
  <2>3. CASE ~ raised[c]
    <3>1. queue' = queue /\ sock' = sock
      BY <1>0, <1>3, <2>3 DEF SenderFails
    <3>2. QED BY <2>1, <3>1, StepAsideInOrder
  <2>4. QED BY <2>2, <2>3
<1>4. CASE SenderDrops
  <2>1. PICK c \in Connections : c = sender.con
    BY <1>4 DEF SenderDrops, Typed, Attached
  <2>2. /\ sock'[c] # "open" /\ queue'[c] = <<>>
        /\ \A d \in Connections \ {c} : sock'[d] = sock[d] /\ queue'[d] = queue[d]
        /\ UNCHANGED <<buffer, sent, sending, scheduler>>
    BY <1>0, <1>4, <2>1 DEF SenderDrops
  <2>3. QED BY <2>2, DroppedInOrder
<1>5. QED BY <1>1, <1>2, <1>3, <1>4 DEF Sender

LEMMA InOrderInit == Init => InOrder /\ Serving
<1> SUFFICES ASSUME Init PROVE InOrder /\ Serving
  OBVIOUS
<1>1. ASSUME NEW c \in Connections
      PROVE  /\ Stream(c) = <<>> /\ queue[c] = <<>> /\ Pending(c) = <<>>
             /\ \A t \in Threads : sent[c][t] = 0
  BY DEF Init, Stream, Pending, IdleScheduler
<1>2. WellFormed(<<>>)
  BY Nothing DEF WellFormed
<1>3. \A t : Covers(<<>>, t, 0) /\ Numbered(<<>>, t, 0)
  BY Nothing DEF Covers, Numbered
<1>4. ASSUME NEW c \in Connections PROVE InLine(Line(c), Pending(c), sent[c])
  <2>1. <<>> \o <<>> = <<>>
    BY Nothing, ConcatEmptySeq
  <2>2. Line(c) = <<>> /\ sent[c]["scheduler"] = 0 /\ sent[c]["sender"] = 0
    BY <1>1, <2>1, Bounds DEF Line
  <2>3. QED BY <1>1, <1>2, <1>3, <2>2, Nothing DEF InLine
<1>5. Ordered
  BY <1>1, <1>2, <1>4 DEF Ordered
<1>6. NothingStranded /\ QueuesWait /\ Serving
  BY <1>1 DEF Init, NothingStranded, QueuesWait, Queued, Serving, Collecting
<1>7. QED BY <1>5, <1>6 DEF InOrder

LEMMA InOrderNext == Typed /\ InOrder /\ Serving /\ [Next]_vars => InOrder'
<1> SUFFICES ASSUME Typed, InOrder, Serving, [Next]_vars PROVE InOrder'
  OBVIOUS
<1>1. CASE UNCHANGED vars
  BY <1>1, StepAsideInOrder DEF vars
<1>2. CASE Scheduler
  BY <1>2, SchedulerInOrder
<1>3. CASE Sender
  BY <1>3, SenderInOrder
<1>4. ASSUME NEW c \in Connections, SendTests(c) PROVE InOrder'
  BY <1>4, SendTestsInOrder
<1>5. ASSUME NEW c \in Connections, SenderHandles(c) PROVE InOrder'
  BY <1>5, SenderHandlesInOrder
<1>6. ASSUME NEW c \in Connections, SwitchReads(c) PROVE InOrder'
  <2>1. /\ UNCHANGED <<sock, queue, sent, sending, scheduler>>
        /\ \A d \in Connections : buffer'[d].stream = buffer[d].stream
    BY <1>6 DEF SwitchReads, Typed, TypeOK
  <2>2. QED BY <2>1, StepAsideInOrder
<1>7. ASSUME NEW c \in Connections, SwitchGoes(c) PROVE InOrder'
  BY <1>7, StepAsideInOrder DEF SwitchGoes
<1>8. QED BY <1>1, <1>2, <1>3, <1>4, <1>5, <1>6, <1>7 DEF Next

\* A session carries whole messages, none cut by another one, and those of a
\* thread in the order in which it handed them to send, although the flag that
\* says whether some are deferred is read without the lock and handlers queue
\* messages in both threads (Connection.send and disconnect, DeferredSender).
THEOREM StreamsInOrder == Spec => []BytesInOrder
<1>1. Typed /\ InOrder => BytesInOrder
  BY DEF InOrder, Ordered, BytesInOrder, Stream
<1>2. Typed /\ Serving /\ [Next]_vars => Serving'
  BY ServingNext
<1>3. QED BY <1>1, <1>2, TypedInit, TypedNext, InOrderInit, InOrderNext, PTL DEF Spec
=============================================================================
