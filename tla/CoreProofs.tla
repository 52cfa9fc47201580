----------------------------- MODULE CoreProofs -----------------------------
(***************************************************************************)
(* Callbacks of call_when_ready, for any components and waiters, however   *)
(* deep registrations, handlers and callbacks nest.                        *)
(*                                                                         *)
(* The properties are not inductive: a waiter whose components are all     *)
(* there may well be listed while a call is under way.  What holds         *)
(* throughout is that some call on the stack will still try it: handlers   *)
(* are running, or a round of _try_waiters has it ahead, or a round that   *)
(* called something and hence is followed by another.                      *)
(***************************************************************************)
EXTENDS Boot, SequenceTheorems, TLAPS

Frames == [at: {"callback", "handlers", "trying"}, of: Waiters \cup {"none"},
           todo: Seq(Waiters), changed: BOOLEAN]

Distinct(seq) == \A i, j \in DOMAIN seq : seq[i] = seq[j] => i = j

\* The frame will have w tried.
Tries(frame, w) ==
    \/ frame.at = "handlers"
    \/ /\ frame.at = "trying"
       /\ frame.changed \/ \E j \in DOMAIN frame.todo : frame.todo[j] = w

WaitersOnce ==
    /\ Distinct(waiters) /\ Distinct(calls)
    /\ \A i \in DOMAIN waiters : waiters[i] \in asked
    /\ \A i \in DOMAIN calls : calls[i] \in asked
    /\ \A i \in DOMAIN waiters, j \in DOMAIN calls : waiters[i] # calls[j]

CalledReady == \A i \in DOMAIN calls : Ready(calls[i])

ReadyTried ==
    \A i \in DOMAIN waiters :
      Ready(waiters[i]) => \E k \in DOMAIN stack : Tries(stack[k], waiters[i])

CoreInv == TypeOK /\ WaitersOnce /\ CalledReady /\ ReadyTried

-----------------------------------------------------------------------------
(* Sequences. *)

LEMMA Pushed ==
    ASSUME NEW S, NEW s \in Seq(S), NEW x \in S
    PROVE  /\ <<x>> \o s \in Seq(S)
           /\ DOMAIN (<<x>> \o s) = 1..Len(s) + 1
           /\ (<<x>> \o s)[1] = x
           /\ \A k \in 1..Len(s) : (<<x>> \o s)[k + 1] = s[k]
<1>1. <<x>> \in Seq(S) /\ Len(<<x>>) = 1 /\ <<x>>[1] = x
  OBVIOUS
<1>2. Len(s) \in Nat
  BY LenProperties
<1>3. QED
  BY <1>1, <1>2, ConcatProperties, LenProperties

LEMMA Popped ==
    ASSUME NEW S, NEW s \in Seq(S), s # <<>>
    PROVE  /\ Tail(s) \in Seq(S) /\ Head(s) = s[1] /\ s[1] \in S
           /\ Len(s) \in Nat \ {0} /\ DOMAIN s = 1..Len(s)
           /\ DOMAIN Tail(s) = 1..Len(s) - 1
           /\ \A k \in 1..Len(s) - 1 : Tail(s)[k] = s[k + 1]
<1>1. Len(s) \in Nat \ {0} /\ DOMAIN s = 1..Len(s)
  BY EmptySeq, LenProperties
<1>2. Tail(s) \in Seq(S) /\ Len(Tail(s)) = Len(s) - 1
      /\ \A k \in 1..Len(Tail(s)) : Tail(s)[k] = s[k + 1]
  BY HeadTailProperties
<1>3. DOMAIN Tail(s) = 1..Len(Tail(s))
  BY <1>2, LenProperties
<1>4. Head(s) = s[1] /\ s[1] \in S
  BY <1>1
<1>5. QED BY <1>1, <1>2, <1>3, <1>4

LEMMA Appended ==
    ASSUME NEW S, NEW s \in Seq(S), NEW x \in S
    PROVE  /\ Append(s, x) \in Seq(S)
           /\ DOMAIN s = 1..Len(s) /\ Len(s) \in Nat
           /\ DOMAIN Append(s, x) = 1..Len(s) + 1
           /\ Append(s, x)[Len(s) + 1] = x
           /\ \A k \in 1..Len(s) : Append(s, x)[k] = s[k]
  BY LenProperties

\* Removing an entry of a list without duplicates leaves the others.
LEMMA RemovedEntries ==
    ASSUME waiters \in Seq(Waiters), Distinct(waiters), NEW w, Listed(w)
    PROVE  /\ Removed(w) \in Seq(Waiters)
           /\ Distinct(Removed(w))
           /\ \A i \in DOMAIN Removed(w) :
                Removed(w)[i] # w /\ \E j \in DOMAIN waiters : Removed(w)[i] = waiters[j]
<1> DEFINE i == CHOOSE j \in DOMAIN waiters : waiters[j] = w
           n == Len(waiters)
           front == SubSeq(waiters, 1, i - 1)
           back == SubSeq(waiters, i + 1, n)
<1>1. n \in Nat /\ DOMAIN waiters = 1..n /\ i \in 1..n /\ waiters[i] = w
  BY LenProperties DEF Listed
<1>2. \A k \in 1..n : waiters[k] \in Waiters
  BY <1>1, ElementOfSeq
<1> HIDE DEF i, n
<1>3. front \in Seq(Waiters) /\ Len(front) = i - 1
      /\ \A k \in 1..i - 1 : front[k] = waiters[k]
  BY <1>1, <1>2, SubSeqProperties
<1>4. back \in Seq(Waiters) /\ Len(back) = n - i
      /\ \A k \in 1..n - i : back[k] = waiters[k + i]
  BY <1>1, <1>2, SubSeqProperties
<1> HIDE DEF front, back
<1>5. /\ front \o back \in Seq(Waiters)
      /\ Len(front \o back) = n - 1
      /\ \A k \in 1..n - 1 : (front \o back)[k] = IF k < i THEN waiters[k] ELSE waiters[k + 1]
  <2>1. /\ front \o back \in Seq(Waiters)
        /\ Len(front \o back) = Len(front) + Len(back)
        /\ \A k \in 1..Len(front) + Len(back) :
             (front \o back)[k] = IF k <= Len(front) THEN front[k] ELSE back[k - Len(front)]
    BY <1>3, <1>4, ConcatProperties
  <2>2. QED BY <1>1, <1>3, <1>4, <2>1
<1>6. DOMAIN (front \o back) = 1..n - 1
  BY <1>5, LenProperties
<1>7. Removed(w) = front \o back
  BY DEF Removed, front, back, i, n
<1> DEFINE from(k) == IF k < i THEN k ELSE k + 1
<1>8. \A k \in DOMAIN Removed(w) :
         from(k) \in DOMAIN waiters \ {i} /\ Removed(w)[k] = waiters[from(k)]
  BY <1>1, <1>5, <1>6, <1>7
<1>9. \A j, k \in DOMAIN Removed(w) : from(j) = from(k) => j = k
  BY <1>1, <1>6, <1>7
<1> HIDE DEF from
<1>10. Distinct(Removed(w))
  <2>1. ASSUME NEW j \in DOMAIN Removed(w), NEW k \in DOMAIN Removed(w),
               Removed(w)[j] = Removed(w)[k]
        PROVE  j = k
    <3>1. waiters[from(j)] = waiters[from(k)]
      BY <1>8, <2>1
    <3>2. from(j) = from(k)
      BY <1>8, <3>1 DEF Distinct
    <3>3. QED BY <1>9, <3>2
  <2>2. QED BY <2>1 DEF Distinct
<1>11. ASSUME NEW k \in DOMAIN Removed(w)
       PROVE  Removed(w)[k] # w /\ \E j \in DOMAIN waiters : Removed(w)[k] = waiters[j]
  BY <1>1, <1>8 DEF Distinct
<1>12. QED BY <1>5, <1>7, <1>10, <1>11

-----------------------------------------------------------------------------
(* Each step keeps the invariant. *)

\* A step that pushes a frame, or replaces the innermost one, disturbs no
\* frame below.
LEMMA FrameTypes ==
    /\ \A w \in Waiters : Callback(w) \in Frames
    /\ Handlers \in Frames
    /\ \A ws \in Seq(Waiters), ch \in BOOLEAN : Trying(ws, ch) \in Frames
  BY EmptySeq DEF Callback, Handlers, Trying, Frames

LEMMA RegisterKeepsInv ==
    ASSUME CoreInv, NEW c \in Components, Register(c)
    PROVE  CoreInv'
<1>1. stack \in Seq(Frames) /\ stack' = <<Handlers>> \o stack /\ components \subseteq components'
  BY DEF CoreInv, TypeOK, Frames, Register
<1>2. stack' \in Seq(Frames) /\ 1 \in DOMAIN stack' /\ stack'[1] = Handlers
  <2>1. Len(stack) \in Nat
    BY <1>1, LenProperties
  <2>2. QED BY <1>1, <2>1, FrameTypes, Pushed
<1>3. TypeOK'
  BY <1>2, CoreAssumption DEF CoreInv, TypeOK, Frames, Register
<1>4. WaitersOnce'
  BY DEF CoreInv, WaitersOnce, Distinct, Register
<1>5. CalledReady'
  BY <1>1 DEF CoreInv, CalledReady, Ready, Register
<1>6. ReadyTried'
  BY <1>2 DEF ReadyTried, Tries, Handlers
<1>7. QED BY <1>3, <1>4, <1>5, <1>6 DEF CoreInv

\* The copy of the list that a round walks has every waiter.
LEMMA NewRoundTriesAll ==
    ASSUME CoreInv, stack # <<>>, stack' = <<Trying(waiters, FALSE)>> \o Tail(stack),
           UNCHANGED <<components, waiters, registers, asked, calls>>
    PROVE  CoreInv'
<1>1. waiters \in Seq(Waiters) /\ stack \in Seq(Frames)
  BY DEF CoreInv, TypeOK, Frames
<1>2. Tail(stack) \in Seq(Frames) /\ Len(Tail(stack)) \in Nat
  BY <1>1, Popped, LenProperties
<1>3. stack' \in Seq(Frames) /\ 1 \in DOMAIN stack' /\ stack'[1] = Trying(waiters, FALSE)
  <2>1. Trying(waiters, FALSE) \in Frames
    BY <1>1, FrameTypes
  <2>2. /\ stack' \in Seq(Frames) /\ DOMAIN stack' = 1..Len(Tail(stack)) + 1
        /\ stack'[1] = Trying(waiters, FALSE)
    BY <1>2, <2>1, Pushed
  <2>3. 1 \in 1..Len(Tail(stack)) + 1
    BY <1>2
  <2>4. QED BY <2>2, <2>3, Zenon
<1>4. TypeOK'
  BY <1>3 DEF CoreInv, TypeOK, Frames
<1>5. WaitersOnce' /\ CalledReady'
  BY DEF CoreInv, WaitersOnce, CalledReady, Ready, Distinct
<1>6. ReadyTried'
  BY <1>3 DEF ReadyTried, Tries, Trying
<1>7. QED BY <1>4, <1>5, <1>6 DEF CoreInv

\* A frame that tries nobody can be dropped.
LEMMA DroppingKeepsInv ==
    ASSUME CoreInv, stack # <<>>, stack' = Tail(stack),
           \A i \in DOMAIN waiters : ~ Tries(Head(stack), waiters[i]),
           UNCHANGED <<components, waiters, registers, asked, calls>>
    PROVE  CoreInv'
<1>1. stack \in Seq(Frames)
  BY DEF CoreInv, TypeOK, Frames
<1>2. /\ stack' \in Seq(Frames) /\ Head(stack) = stack[1] /\ Len(stack) \in Nat \ {0}
      /\ DOMAIN stack = 1..Len(stack) /\ DOMAIN stack' = 1..Len(stack) - 1
      /\ \A k \in 1..Len(stack) - 1 : stack'[k] = stack[k + 1]
  BY <1>1, Popped
<1>3. TypeOK'
  BY <1>2 DEF CoreInv, TypeOK, Frames
<1>4. WaitersOnce' /\ CalledReady'
  BY DEF CoreInv, WaitersOnce, CalledReady, Ready, Distinct
<1>5. ASSUME NEW i \in DOMAIN waiters, Ready(waiters[i])
      PROVE  \E k \in DOMAIN stack' : Tries(stack'[k], waiters[i])
  <2>1. PICK k \in DOMAIN stack : Tries(stack[k], waiters[i])
    BY <1>5 DEF CoreInv, ReadyTried
  <2>2. k # 1
    BY <1>2, <2>1
  <2>3. k - 1 \in DOMAIN stack' /\ stack'[k - 1] = stack[k]
    BY <1>2, <2>2
  <2>4. QED BY <2>1, <2>3
<1>6. ReadyTried'
  BY <1>5 DEF ReadyTried, Ready, Tries
<1>7. QED BY <1>3, <1>4, <1>6 DEF CoreInv

\* A waiter whose callback is called: the stack below, or the round that goes
\* on, still tries those that are left.
LEMMA CallingKeepsInv ==
    ASSUME CoreInv, NEW w \in Waiters, Ready(w), NEW under \in Seq(Frames),
           Calls(w, under), UNCHANGED <<components, registers>>,
           waiters' \in Seq(Waiters), Distinct(waiters'), w \in asked', asked \subseteq asked',
           asked' \subseteq Waiters, \A i \in DOMAIN calls : calls[i] # w,
           \A i \in DOMAIN waiters' :
             waiters'[i] # w /\ \E j \in DOMAIN waiters : waiters'[i] = waiters[j],
           \A i \in DOMAIN waiters' :
             Ready(waiters'[i]) => \E k \in DOMAIN under : Tries(under[k], waiters'[i])
    PROVE  CoreInv'
<1>1. calls \in Seq(Waiters) /\ calls' = Append(calls, w)
  BY DEF CoreInv, TypeOK, Calls
<1>2. /\ calls' \in Seq(Waiters) /\ Len(calls) \in Nat /\ DOMAIN calls = 1..Len(calls)
      /\ DOMAIN calls' = 1..Len(calls) + 1 /\ calls'[Len(calls) + 1] = w
      /\ \A k \in 1..Len(calls) : calls'[k] = calls[k]
  BY <1>1, Appended
<1>3. /\ stack' \in Seq(Frames) /\ Len(under) \in Nat /\ DOMAIN under = 1..Len(under)
      /\ DOMAIN stack' = 1..Len(under) + 1
      /\ \A k \in 1..Len(under) : stack'[k + 1] = under[k]
  BY FrameTypes, Pushed, LenProperties DEF Calls
<1>4. TypeOK'
  BY <1>2, <1>3 DEF CoreInv, TypeOK, Frames
<1>5. WaitersOnce'
  <2>1. Distinct(calls')
    BY <1>2 DEF CoreInv, WaitersOnce, Distinct
  <2>2. \A i \in DOMAIN waiters' : waiters'[i] \in asked'
    BY DEF CoreInv, WaitersOnce
  <2>3. \A i \in DOMAIN calls' : calls'[i] \in asked'
    BY <1>2 DEF CoreInv, WaitersOnce
  <2>4. \A i \in DOMAIN waiters', j \in DOMAIN calls' : waiters'[i] # calls'[j]
    BY <1>2 DEF CoreInv, WaitersOnce
  <2>5. QED BY <2>1, <2>2, <2>3, <2>4 DEF WaitersOnce, Distinct
<1>6. CalledReady'
  BY <1>2 DEF CoreInv, CalledReady, Ready
<1>7. ASSUME NEW i \in DOMAIN waiters', Ready(waiters'[i])
      PROVE  \E k \in DOMAIN stack' : Tries(stack'[k], waiters'[i])
  <2>1. PICK k \in DOMAIN under : Tries(under[k], waiters'[i])
    BY <1>7
  <2>2. k + 1 \in DOMAIN stack' /\ stack'[k + 1] = under[k]
    BY <1>3
  <2>3. QED BY <2>1, <2>2
<1>8. ReadyTried'
  BY <1>7 DEF ReadyTried, Ready, Tries
<1>9. QED BY <1>4, <1>5, <1>6, <1>8 DEF CoreInv

LEMMA CallWhenReadyKeepsInv ==
    ASSUME CoreInv, NEW w \in Waiters, CallWhenReady(w)
    PROVE  CoreInv'
<1>1. /\ waiters \in Seq(Waiters) /\ stack \in Seq(Frames) /\ asked \subseteq Waiters
      /\ w \notin asked /\ asked' = asked \cup {w} /\ UNCHANGED <<components, registers>>
  BY DEF CoreInv, TypeOK, Frames, CallWhenReady
<1>2. \A i \in DOMAIN waiters : waiters[i] # w
  BY <1>1 DEF CoreInv, WaitersOnce
<1>3. \A i \in DOMAIN calls : calls[i] # w
  BY <1>1 DEF CoreInv, WaitersOnce
<1>4. CASE Ready(w)
  <2>1. Calls(w, stack) /\ waiters' = waiters
    BY <1>4 DEF CallWhenReady
  <2>2. \A i \in DOMAIN waiters :
           Ready(waiters[i]) => \E k \in DOMAIN stack : Tries(stack[k], waiters[i])
    BY DEF CoreInv, ReadyTried
  <2>3. Distinct(waiters)
    BY DEF CoreInv, WaitersOnce
  <2>4. QED BY <1>1, <1>2, <1>3, <1>4, <2>1, <2>2, <2>3, CallingKeepsInv
<1>5. CASE ~ Ready(w)
  <2>1. waiters' = Append(waiters, w) /\ UNCHANGED <<stack, calls>>
    BY <1>5 DEF CallWhenReady
  <2>2. /\ waiters' \in Seq(Waiters) /\ Len(waiters) \in Nat
        /\ DOMAIN waiters = 1..Len(waiters) /\ DOMAIN waiters' = 1..Len(waiters) + 1
        /\ waiters'[Len(waiters) + 1] = w
        /\ \A k \in 1..Len(waiters) : waiters'[k] = waiters[k]
    BY <1>1, <2>1, Appended
  <2>3. TypeOK'
    BY <1>1, <2>1, <2>2 DEF CoreInv, TypeOK
  <2>4. WaitersOnce'
    <3>1. Distinct(waiters')
      BY <1>2, <2>2 DEF CoreInv, WaitersOnce, Distinct
    <3>2. \A i \in DOMAIN waiters' : waiters'[i] \in asked'
      BY <1>1, <2>2 DEF CoreInv, WaitersOnce
    <3>3. \A i \in DOMAIN waiters', j \in DOMAIN calls' : waiters'[i] # calls'[j]
      BY <1>3, <2>1, <2>2 DEF CoreInv, WaitersOnce
    <3>4. QED BY <1>1, <2>1, <3>1, <3>2, <3>3 DEF CoreInv, WaitersOnce, Distinct
  <2>5. CalledReady'
    BY <1>1, <2>1 DEF CoreInv, CalledReady, Ready
  <2>6. ReadyTried'
    BY <1>1, <1>5, <2>1, <2>2 DEF CoreInv, ReadyTried, Ready, Tries
  <2>7. QED BY <2>3, <2>4, <2>5, <2>6 DEF CoreInv
<1>6. QED BY <1>4, <1>5

LEMMA TryWaiterKeepsInv ==
    ASSUME CoreInv, TryWaiter
    PROVE  CoreInv'
<1> DEFINE top == Head(stack)
           w == Head(top.todo)
           called == <<Trying(Tail(top.todo), TRUE)>> \o Tail(stack)
           passed == <<Trying(Tail(top.todo), top.changed)>> \o Tail(stack)
<1>1. /\ waiters \in Seq(Waiters) /\ stack \in Seq(Frames) /\ asked \subseteq Waiters
      /\ stack # <<>> /\ top.at = "trying" /\ top.todo # <<>>
      /\ UNCHANGED <<components, registers, asked>>
  BY DEF CoreInv, TypeOK, Frames, TryWaiter
<1>2. /\ Tail(stack) \in Seq(Frames) /\ top = stack[1] /\ top \in Frames
      /\ Len(stack) \in Nat \ {0} /\ DOMAIN stack = 1..Len(stack)
      /\ Len(Tail(stack)) = Len(stack) - 1 /\ DOMAIN Tail(stack) = 1..Len(stack) - 1
      /\ \A k \in 1..Len(stack) - 1 : Tail(stack)[k] = stack[k + 1]
  BY <1>1, Popped, HeadTailProperties
<1>3. top.todo \in Seq(Waiters) /\ top.changed \in BOOLEAN
  BY <1>2 DEF Frames
<1>4. /\ Tail(top.todo) \in Seq(Waiters) /\ w = top.todo[1] /\ w \in Waiters
      /\ Len(top.todo) \in Nat \ {0} /\ DOMAIN top.todo = 1..Len(top.todo)
      /\ DOMAIN Tail(top.todo) = 1..Len(top.todo) - 1
      /\ \A k \in 1..Len(top.todo) - 1 : Tail(top.todo)[k] = top.todo[k + 1]
  BY <1>1, <1>3, Popped
<1>5. CASE Listed(w) /\ Ready(w)
  <2>1. waiters' = Removed(w) /\ Calls(w, called)
    BY <1>5 DEF TryWaiter
  <2>2. called \in Seq(Frames) /\ 1 \in DOMAIN called /\ called[1] = Trying(Tail(top.todo), TRUE)
    <3>0. Tail(stack) \in Seq(Frames)
      BY <1>2
    <3>1. Trying(Tail(top.todo), TRUE) \in Frames
      BY <1>4, FrameTypes
    <3> HIDE DEF top
    <3>2. /\ called \in Seq(Frames) /\ DOMAIN called = 1..Len(Tail(stack)) + 1
          /\ called[1] = Trying(Tail(top.todo), TRUE)
      BY <3>0, <3>1, Pushed
    <3>3. 1 \in 1..Len(Tail(stack)) + 1
      BY <1>2
    <3>4. QED BY <3>2, <3>3, Zenon
  <2>3. Distinct(waiters) /\ \A i \in DOMAIN calls : calls[i] # w
    BY <1>5 DEF CoreInv, WaitersOnce, Listed
  <2>4. w \in asked
    BY <1>5 DEF CoreInv, WaitersOnce, Listed
  <2>5. /\ waiters' \in Seq(Waiters) /\ Distinct(waiters')
        /\ \A i \in DOMAIN waiters' :
             waiters'[i] # w /\ \E j \in DOMAIN waiters : waiters'[i] = waiters[j]
    BY <1>1, <1>5, <2>1, <2>3, RemovedEntries
  <2>6. \A i \in DOMAIN waiters' : \E k \in DOMAIN called : Tries(called[k], waiters'[i])
    BY <2>2 DEF Tries, Trying
  <2> HIDE DEF called, w, top
  <2>7. QED BY <1>1, <1>4, <1>5, <2>1, <2>2, <2>3, <2>4, <2>5, <2>6, CallingKeepsInv
<1>6. CASE ~ (Listed(w) /\ Ready(w))
  <2>1. stack' = passed /\ UNCHANGED <<waiters, calls>>
    BY <1>6 DEF TryWaiter
  <2>2. /\ stack' \in Seq(Frames) /\ DOMAIN stack' = 1..Len(stack)
        /\ stack'[1] = Trying(Tail(top.todo), top.changed)
        /\ \A k \in 1..Len(stack) - 1 : stack'[k + 1] = stack[k + 1]
    <3>1. Trying(Tail(top.todo), top.changed) \in Frames
      BY <1>3, <1>4, FrameTypes
    <3> HIDE DEF top
    <3>2. /\ passed \in Seq(Frames) /\ DOMAIN passed = 1..Len(Tail(stack)) + 1
          /\ passed[1] = Trying(Tail(top.todo), top.changed)
          /\ \A k \in 1..Len(Tail(stack)) : passed[k + 1] = Tail(stack)[k]
      BY <1>2, <3>1, Pushed
    <3>3. QED BY <1>2, <2>1, <3>2
  <2>3. TypeOK'
    BY <1>1, <2>1, <2>2 DEF CoreInv, TypeOK, Frames
  <2>4. WaitersOnce' /\ CalledReady'
    BY <1>1, <2>1 DEF CoreInv, WaitersOnce, CalledReady, Ready, Distinct
  <2>5. ASSUME NEW i \in DOMAIN waiters, Ready(waiters[i])
        PROVE  \E k \in DOMAIN stack' : Tries(stack'[k], waiters[i])
    <3>1. PICK k \in DOMAIN stack : Tries(stack[k], waiters[i])
      BY <2>5 DEF CoreInv, ReadyTried
    <3>2. CASE k # 1
      <4>1. k - 1 \in 1..Len(stack) - 1
        BY <1>2, <3>2
      <4>2. stack'[(k - 1) + 1] = stack[(k - 1) + 1] /\ (k - 1) + 1 = k
        BY <1>2, <2>2, <4>1
      <4>3. k \in DOMAIN stack' /\ stack'[k] = stack[k]
        BY <1>2, <2>2, <4>2
      <4>4. QED BY <3>1, <4>3
    <3>3. CASE k = 1
      <4>1. waiters[i] # w
        BY <1>6, <2>5 DEF Listed
      <4>2. top.changed \/ \E j \in DOMAIN top.todo : top.todo[j] = waiters[i]
        BY <1>1, <1>2, <3>1, <3>3 DEF Tries
      <4>3. CASE top.changed
        BY <1>2, <2>2, <4>3 DEF Tries, Trying
      <4>4. CASE \E j \in DOMAIN top.todo : top.todo[j] = waiters[i]
        <5>1. PICK j \in DOMAIN top.todo : top.todo[j] = waiters[i]
          BY <4>4
        <5>2. j - 1 \in DOMAIN Tail(top.todo) /\ Tail(top.todo)[j - 1] = waiters[i]
          BY <1>4, <4>1, <5>1
        <5>3. Tries(Trying(Tail(top.todo), top.changed), waiters[i])
          BY <5>2 DEF Tries, Trying
        <5>4. QED BY <1>2, <2>2, <5>3
      <4>5. QED BY <4>2, <4>3, <4>4
    <3>4. QED BY <3>2, <3>3
  <2>6. ReadyTried'
    BY <1>1, <2>1, <2>5 DEF ReadyTried, Ready, Tries
  <2>7. QED BY <2>3, <2>4, <2>6 DEF CoreInv
<1>7. QED BY <1>5, <1>6

-----------------------------------------------------------------------------
LEMMA CoreInvInit == Init => CoreInv
  BY EmptySeq, CoreAssumption
     DEF Init, CoreInv, TypeOK, WaitersOnce, CalledReady, ReadyTried, Distinct

LEMMA CoreInvNext == CoreInv /\ [Next]_vars => CoreInv'
<1> SUFFICES ASSUME CoreInv, [Next]_vars PROVE CoreInv'
  OBVIOUS
<1>1. CASE UNCHANGED vars
  BY <1>1 DEF vars, CoreInv, TypeOK, WaitersOnce, CalledReady, ReadyTried, Ready, Tries, Distinct
<1>2. ASSUME NEW c \in Components, Register(c) PROVE CoreInv'
  BY <1>2, RegisterKeepsInv
<1>3. ASSUME NEW w \in Waiters, CallWhenReady(w) PROVE CoreInv'
  BY <1>3, CallWhenReadyKeepsInv
<1>4. CASE HandlersReturn
  BY <1>4, NewRoundTriesAll DEF HandlersReturn
<1>5. CASE CallbackReturns
  BY <1>5, DroppingKeepsInv DEF CallbackReturns, Tries
<1>6. CASE TryWaiter
  BY <1>6, TryWaiterKeepsInv
<1>7. CASE RoundEnds
  <2>1. CASE Head(stack).changed
    BY <1>7, <2>1, NewRoundTriesAll DEF RoundEnds
  <2>2. CASE ~ Head(stack).changed
    BY <1>7, <2>2, DroppingKeepsInv DEF RoundEnds, Tries
  <2>3. QED BY <2>1, <2>2
<1>8. QED BY <1>1, <1>2, <1>3, <1>4, <1>5, <1>6, <1>7 DEF Next, Core

LEMMA CoreInvSuffices == CoreInv => CalledOnceReady /\ NobodyForgotten
<1> SUFFICES ASSUME CoreInv PROVE CalledOnceReady /\ NobodyForgotten
  OBVIOUS
<1>1. CalledOnceReady
  BY DEF CoreInv, WaitersOnce, CalledReady, Distinct, Ready, CalledOnceReady
<1>2. NobodyForgotten
  BY DEF CoreInv, ReadyTried, Ready, NobodyForgotten
<1>3. QED BY <1>1, <1>2

\* However registrations and callbacks of core nest, a callback is called at
\* most once, and with all its components there (call_when_ready).
THEOREM CallbacksOnce == Spec => []CalledOnceReady
<1>1. QED BY CoreInvInit, CoreInvNext, CoreInvSuffices, PTL DEF Spec

\* No order of registering and waiting loses a callback: when no call is
\* under way, no ready waiter is left (register, _try_waiters).
THEOREM NobodyIsForgotten == Spec => []NobodyForgotten
<1>1. QED BY CoreInvInit, CoreInvNext, CoreInvSuffices, PTL DEF Spec

\* Both hold of POX as it boots, where launching stops at any time for a quit.
THEOREM BootCalls == BootSpec => []CalledOnceReady /\ []NobodyForgotten
<1>1. BootInit => Init
  BY DEF BootInit
<1>2. [BootNext]_<<vars, goingVars>> => [Next]_vars
  BY DEF BootNext
<1>3. QED BY <1>1, <1>2, CoreInvInit, CoreInvNext, CoreInvSuffices, PTL DEF BootSpec
=============================================================================
