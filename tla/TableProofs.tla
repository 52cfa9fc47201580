---------------------------- MODULE TableProofs ----------------------------
(***************************************************************************)
(* The software switch and a controller that may ask it for anything, for  *)
(* any ports, packets, requests, limits and lengths of the table.          *)
(*                                                                         *)
(* Types: entries are made of what was asked for, and messages of what     *)
(* arrived.  The actions of a request are a fold over a list; a fold is    *)
(* shown to be the last member of a chain of states, one for each action,  *)
(* along which facts are kept by induction on the place in the list.       *)
(*                                                                         *)
(* Ports: the last port_status on its way about a port tells the truth     *)
(* about it, and where none is on its way the controller knows the port.   *)
(*                                                                         *)
(* Buffers: every slot in use, other than the one whose packet is being    *)
(* processed, is what exactly one message is about, held by the controller *)
(* or on its way to it.                                                    *)
(*                                                                         *)
(* Table: sorted by effective priority and without two entries of the same *)
(* match and priority, which the binary search of add_entry keeps, so that *)
(* the first entry that matches is one of the highest and a limit on the   *)
(* length of the list is one on the number of entries.                     *)
(***************************************************************************)
EXTENDS MCSoftSwitch, FiniteSetTheorems, SequenceTheorems, TLAPS

-----------------------------------------------------------------------------
(* Induction over numbers, and folds over lists.                            *)

\* A set of numbers that has 0 and the successor of each of its members has
\* them all.
LEMMA Induct ==
    ASSUME NEW T \in SUBSET Nat, 0 \in T, \A n \in T : n + 1 \in T
    PROVE  T = Nat
<1>1. SUFFICES ASSUME NEW n \in Nat, n \notin T PROVE FALSE
  OBVIOUS
<1> DEFINE S == { m \in 0 .. n : m \in T }
           next == [m \in S |-> m + 1]
<1>2. IsFiniteSet(S) /\ 0 \in S
  <2>1. IsFiniteSet(0 .. n)
    BY <1>1, FS_Interval
  <2>2. S \in SUBSET (0 .. n)
    OBVIOUS
  <2>3. QED BY <2>1, <2>2, FS_Subset
<1>3. IsFiniteSet(S \ {0}) /\ Cardinality(S \ {0}) = Cardinality(S) - 1 /\ Cardinality(S) \in Nat
  <2> HIDE DEF S
  <2>1. QED BY <1>2, FS_RemoveElement, FS_CardinalityType
<1>4. next \in [S -> S \ {0}]
  <2>1. ASSUME NEW m \in S PROVE m + 1 \in S \ {0}
    BY <1>1
  <2>2. QED BY <2>1
<1>5. PICK x, y \in S : x # y /\ next[x] = next[y]
  <2>1. Cardinality(S \ {0}) < Cardinality(S)
    <3> HIDE DEF S
    <3>1. QED BY <1>3
  <2> HIDE DEF S, next
  <2>2. QED BY <1>2, <1>3, <1>4, <2>1, FS_PigeonHole
<1>6. QED BY <1>5

\* The least of some numbers, and the greatest of some below a bound.
LEMMA Least ==
    ASSUME NEW T \in SUBSET Nat, T # {}
    PROVE  Min(T) \in T /\ \A m \in T : Min(T) <= m
<1> DEFINE L == { n \in Nat : \A m \in T : n <= m }
<1>1. \E n \in T : \A m \in T : n <= m
  <2>1. SUFFICES ASSUME \A n \in T : \E m \in T : ~ (n <= m) PROVE FALSE
    OBVIOUS
  <2>2. 0 \in L
    OBVIOUS
  <2>3. \A n \in L : n + 1 \in L
    BY <2>1
  <2>4. L = Nat
    <3>1. L \in SUBSET Nat
      OBVIOUS
    <3> HIDE DEF L
    <3>2. QED BY <2>2, <2>3, <3>1, Induct
  <2>5. PICK t \in T : TRUE
    OBVIOUS
  <2>6. t \in Nat /\ t + 1 \in L
    <3> HIDE DEF L
    <3>1. QED BY <2>4
  <2>7. QED BY <2>5, <2>6
<1>2. QED BY <1>1 DEF Min

LEMMA Greatest ==
    ASSUME NEW S \in SUBSET Nat, S # {}, NEW b \in Nat, \A x \in S : x <= b
    PROVE  Max(S) \in S /\ \A x \in S : x <= Max(S)
<1> DEFINE T == { n \in Nat : \A x \in S : x <= n }
<1>1. T \in SUBSET Nat /\ T # {}
  BY DEF T
<1>2. Min(T) \in T /\ \A m \in T : Min(T) <= m
  <2> HIDE DEF T
  <2>1. QED BY <1>1, Least
<1> DEFINE m == Min(T)
<1>3. m \in Nat /\ \A x \in S : x <= m
  BY <1>2
<1>4. m \in S
  <2>1. SUFFICES ASSUME m \notin S PROVE FALSE
    OBVIOUS
  <2> HIDE DEF m
  <2>2. PICK x \in S : TRUE
    OBVIOUS
  <2>3. \A y \in S : y <= m - 1 /\ y \in Nat
    BY <1>3, <2>1
  <2>4. m - 1 \in Nat /\ m - 1 \in T
    BY <1>3, <2>2, <2>3
  <2>5. m <= m - 1
    BY <1>2, <2>4 DEF m
  <2>6. QED BY <1>3, <2>5
<1> HIDE DEF m
<1>5. \E x \in S : \A y \in S : x >= y
  BY <1>3, <1>4
<1>6. Max(S) \in S /\ \A y \in S : Max(S) >= y
  BY <1>5 DEF Max
<1>7. QED BY <1>6

\* A recursion over the sets of positions of a list, from the greatest one
\* down, has a solution.
Solutions(m, S, base, step) ==
    { g \in [SUBSET (1 .. m) -> S] :
        \A s \in SUBSET (1 .. m) :
          g[s] = IF s = {} THEN base ELSE step[<<Max(s), g[s \ {Max(s)}]>>] }

LEMMA FoldRecursion ==
    ASSUME NEW S, NEW base \in S, NEW n \in Nat, NEW step \in [(1 .. n) \X S -> S]
    PROVE  Solutions(n, S, base, step) # {}
<1> DEFINE T == { m \in Nat : m <= n => Solutions(m, S, base, step) # {} }
<1>1. 0 \in T
  <2> DEFINE g == [s \in SUBSET (1 .. 0) |-> base]
  <2>1. g \in [SUBSET (1 .. 0) -> S] /\ \A s \in SUBSET (1 .. 0) : s = {} /\ g[s] = base
    OBVIOUS
  <2>2. g \in Solutions(0, S, base, step)
    <3> HIDE DEF g
    <3>1. QED BY <2>1 DEF Solutions
  <2> HIDE DEF g
  <2>3. QED BY <2>2
<1>2. ASSUME NEW m \in T PROVE m + 1 \in T
  <2>1. m \in Nat
    OBVIOUS
  <2>2. SUFFICES ASSUME m + 1 <= n PROVE Solutions(m + 1, S, base, step) # {}
    BY <2>1
  <2>3. PICK g \in Solutions(m, S, base, step) : TRUE
    BY <2>1, <2>2
  <2>9. g \in [SUBSET (1 .. m) -> S]
    BY <2>3 DEF Solutions
  <2> DEFINE h == [s \in SUBSET (1 .. m + 1) |->
                     IF m + 1 \in s THEN step[<<m + 1, g[s \ {m + 1}]>>] ELSE g[s]]
  <2>4. /\ \A s \in SUBSET (1 .. m + 1) : s \ {m + 1} \in SUBSET (1 .. m)
        /\ \A s \in SUBSET (1 .. m + 1) : m + 1 \notin s => s \in SUBSET (1 .. m)
        /\ m + 1 \in 1 .. n
    BY <2>1, <2>2
  <2>5. h \in [SUBSET (1 .. m + 1) -> S]
    <3>1. \A s \in SUBSET (1 .. m + 1) : (IF m + 1 \in s THEN step[<<m + 1, g[s \ {m + 1}]>>] ELSE g[s]) \in S
      <4>1. TAKE s \in SUBSET (1 .. m + 1)
      <4>2. g[s \ {m + 1}] \in S
        BY <2>9, <2>4
      <4>3. <<m + 1, g[s \ {m + 1}]>> \in (1 .. n) \X S
        BY <2>4, <4>2
      <4>4. step[<<m + 1, g[s \ {m + 1}]>>] \in S
        BY <4>3
      <4>5. m + 1 \notin s => g[s] \in S
        BY <2>9, <2>4
      <4>6. QED BY <4>4, <4>5
    <3>2. QED BY <3>1
  <2>6. ASSUME NEW s \in SUBSET (1 .. m + 1)
        PROVE  h[s] = IF s = {} THEN base ELSE step[<<Max(s), h[s \ {Max(s)}]>>]
    <3>1. CASE m + 1 \in s
      <4>1. Max(s) = m + 1
        <5>1. Max(s) \in s /\ \A x \in s : x <= Max(s)
          <6>1. s \in SUBSET Nat /\ s # {} /\ m + 1 \in Nat /\ \A x \in s : x <= m + 1
            BY <2>1, <3>1
          <6>2. QED BY <6>1, Greatest
        <5>2. Max(s) \in 1 .. m + 1 /\ m + 1 <= Max(s)
          BY <3>1, <5>1
        <5>3. QED BY <2>1, <5>2
      <4>2. s \ {m + 1} \in SUBSET (1 .. m + 1) /\ m + 1 \notin s \ {m + 1}
        OBVIOUS
      <4>3. h[s \ {m + 1}] = g[s \ {m + 1}]
        BY <4>2
      <4>4. QED BY <3>1, <4>1, <4>3
    <3>2. CASE m + 1 \notin s
      <4>1. s \in SUBSET (1 .. m) /\ h[s] = g[s]
        BY <2>4, <3>2
      <4>2. h[s \ {Max(s)}] = g[s \ {Max(s)}]
        <5>1. s \ {Max(s)} \in SUBSET (1 .. m + 1) /\ m + 1 \notin s \ {Max(s)}
          BY <3>2
        <5>2. QED BY <5>1
      <4> HIDE DEF h
      <4>3. QED BY <2>3, <4>1, <4>2 DEF Solutions
    <3>3. QED BY <3>1, <3>2
  <2> HIDE DEF h
  <2>7. h \in Solutions(m + 1, S, base, step)
    BY <2>5, <2>6 DEF Solutions
  <2>8. QED BY <2>7
<1>3. n \in T
  <2>1. T \in SUBSET Nat
    OBVIOUS
  <2> HIDE DEF T
  <2>2. QED BY <1>1, <1>2, <2>1, Induct
<1>4. QED BY <1>3

\* What such a recursion gives, followed along the list.
Folds(iter, n, S, base, step) ==
    /\ iter[{}] = base
    /\ \A s \in SUBSET (1 .. n) : s # {} /\ iter[s \ {Max(s)}] \in S
                                    => iter[s] = step[<<Max(s), iter[s \ {Max(s)}]>>]

Chains(n, S, base, step) ==
    { h \in [0 .. n -> S] : h[0] = base /\ \A i \in 1 .. n : h[i] = step[<<i, h[i - 1]>>] }

LEMMA FoldChain ==
    ASSUME NEW S, NEW base \in S, NEW n \in Nat, NEW step \in [(1 .. n) \X S -> S], NEW iter,
           Folds(iter, n, S, base, step)
    PROVE  iter[1 .. n] \in { h[n] : h \in Chains(n, S, base, step) }
<1> DEFINE T == { m \in Nat : m <= n => iter[1 .. m] \in S }
<1>1. ASSUME NEW m \in Nat, m + 1 <= n, iter[1 .. m] \in S
      PROVE  iter[1 .. m + 1] = step[<<m + 1, iter[1 .. m]>>] /\ iter[1 .. m + 1] \in S
  <2>1. 1 .. m + 1 \in SUBSET (1 .. n) /\ 1 .. m + 1 # {} /\ m + 1 \in 1 .. n
    <3>1. \A x \in 1 .. m + 1 : x \in 1 .. n
      BY <1>1
    <3>2. m + 1 \in 1 .. m + 1
      BY <1>1
    <3>3. QED BY <3>1, <3>2
  <2>2. Max(1 .. m + 1) = m + 1
    <3>1. /\ 1 .. m + 1 \in SUBSET Nat /\ m + 1 \in 1 .. m + 1
          /\ m + 1 \in Nat /\ \A x \in 1 .. m + 1 : x <= m + 1
      BY <1>1
    <3>2. Max(1 .. m + 1) \in 1 .. m + 1 /\ m + 1 <= Max(1 .. m + 1)
      BY <3>1, Greatest
    <3>3. QED BY <3>2
  <2>3. (1 .. m + 1) \ {m + 1} = 1 .. m
    BY <1>1
  <2>4. iter[1 .. m + 1] = step[<<m + 1, iter[1 .. m]>>]
    BY <1>1, <2>1, <2>2, <2>3 DEF Folds
  <2>5. <<m + 1, iter[1 .. m]>> \in (1 .. n) \X S
    BY <1>1, <2>1
  <2>6. QED BY <2>4, <2>5
<1>2. \A m \in 0 .. n : iter[1 .. m] \in S
  <2>1. 0 \in T
    <3>1. 1 .. 0 = {}
      OBVIOUS
    <3>2. QED BY <3>1 DEF Folds
  <2>2. ASSUME NEW m \in T PROVE m + 1 \in T
    <3>1. m \in Nat /\ m + 1 \in Nat /\ (m + 1 <= n => m <= n)
      OBVIOUS
    <3>2. m + 1 <= n => iter[1 .. m + 1] \in S
      BY <1>1, <3>1
    <3>3. QED BY <3>1, <3>2
  <2>3. T \in SUBSET Nat
    OBVIOUS
  <2>4. T = Nat
    <3> HIDE DEF T
    <3>1. QED BY <2>1, <2>2, <2>3, Induct
  <2>5. QED BY <2>4
<1> DEFINE h == [m \in 0 .. n |-> iter[1 .. m]]
<1>3. h \in [0 .. n -> S]
  BY <1>2
<1>4. h[0] = base /\ h[n] = iter[1 .. n]
  <2>1. 1 .. 0 = {}
    OBVIOUS
  <2>2. QED BY <2>1 DEF Folds
<1>5. ASSUME NEW i \in 1 .. n PROVE h[i] = step[<<i, h[i - 1]>>]
  <2>1. i - 1 \in Nat /\ (i - 1) + 1 = i /\ i - 1 \in 0 .. n /\ i \in 0 .. n
    OBVIOUS
  <2>2. iter[1 .. i] = step[<<i, iter[1 .. i - 1]>>]
    <3>1. iter[1 .. i - 1] \in S
      BY <1>2, <2>1
    <3>2. QED BY <1>1, <2>1, <3>1
  <2>3. QED BY <2>1, <2>2
<1> HIDE DEF h
<1>6. h \in Chains(n, S, base, step)
  BY <1>3, <1>4, <1>5 DEF Chains
<1>7. QED BY <1>4, <1>6

LEMMA GreatestPlace ==
    ASSUME NEW n \in Nat, NEW t \in SUBSET (1 .. n), t # {}
    PROVE  Max(t) \in t
<1>1. t \in SUBSET Nat /\ \A x \in t : x <= n
  OBVIOUS
<1>2. QED BY <1>1, Greatest

\* The lists of entries picked up to each place.
Pickings(S, s, places) ==
    { h \in [0 .. Len(s) -> Seq(S)] :
        h[0] = <<>> /\ \A i \in 1 .. Len(s) : h[i] = IF i \in places THEN Append(h[i - 1], s[i]) ELSE h[i - 1] }

LEMMA PickedChain ==
    ASSUME NEW S, NEW s \in Seq(S), NEW places
    PROVE  Picked(s, places) \in { h[Len(s)] : h \in Pickings(S, s, places) }
<1> DEFINE n == Len(s)
           Q == Seq(S)
           base == <<>>
           step == [x \in (1 .. n) \X Q |-> IF x[1] \in places THEN Append(x[2], s[x[1]]) ELSE x[2]]
           Eq(f) == f = [t \in SUBSET (1 .. n) |->
                          IF t = {} THEN base
                          ELSE IF Max(t) \in places THEN Append(f[t \ {Max(t)}], s[Max(t)]) ELSE f[t \ {Max(t)}]]
           iter == CHOOSE f : Eq(f)
<1>1. step \in [(1 .. n) \X Q -> Q] /\ base \in Q /\ n \in Nat /\ DOMAIN s = 1 .. n
  OBVIOUS
<1>2. \A i \in 1 .. n, q \in Q : step[<<i, q>>] = IF i \in places THEN Append(q, s[i]) ELSE q
  OBVIOUS
<1> HIDE DEF step
<1>3. PICK g \in Solutions(n, Q, base, step) : TRUE
  BY <1>1, FoldRecursion
<1>4. Eq(g)
  <2>1. /\ g \in [SUBSET (1 .. n) -> Q]
        /\ \A t \in SUBSET (1 .. n) : g[t] = IF t = {} THEN base ELSE step[<<Max(t), g[t \ {Max(t)}]>>]
    BY <1>3 DEF Solutions
  <2>2. ASSUME NEW t \in SUBSET (1 .. n), t # {}
        PROVE  g[t] = IF Max(t) \in places THEN Append(g[t \ {Max(t)}], s[Max(t)]) ELSE g[t \ {Max(t)}]
    <3>1. Max(t) \in 1 .. n /\ g[t \ {Max(t)}] \in Q
      BY <1>1, <2>1, <2>2, GreatestPlace
    <3>2. QED BY <1>2, <2>1, <2>2, <3>1
  <2>3. QED BY <2>1, <2>2
<1>5. Eq(iter)
  <2> HIDE DEF Eq
  <2>1. QED BY <1>4
<1>6. Picked(s, places) = iter[1 .. n]
  <2>1. /\ DOMAIN [i \in 1 .. n |-> i] = 1 .. n
        /\ \A t \in SUBSET (1 .. n) : t # {} => Max(t) \in 1 .. n
    BY <1>1, GreatestPlace
  <2>2. Picked(s, places) =
          LET it[t \in SUBSET (1 .. n)] ==
                IF t = {} THEN base
                ELSE IF [i \in 1 .. n |-> i][Max(t)] \in places
                     THEN Append(it[t \ {Max(t)}], s[[i \in 1 .. n |-> i][Max(t)]])
                     ELSE it[t \ {Max(t)}]
          IN  it[1 .. n]
    BY <1>1, <2>1 DEF Picked, FoldLeftDomain, FoldLeft, MapThenFoldSet
  <2>3. QED BY <2>1, <2>2
<1> HIDE DEF iter
<1>7. Folds(iter, n, Q, base, step)
  <2>1. iter[{}] = base
    BY <1>5
  <2>2. ASSUME NEW t \in SUBSET (1 .. n), t # {}, iter[t \ {Max(t)}] \in Q
        PROVE  iter[t] = step[<<Max(t), iter[t \ {Max(t)}]>>]
    <3>1. Max(t) \in 1 .. n
      BY <1>1, <2>2, GreatestPlace
    <3>2. iter[t] = IF Max(t) \in places THEN Append(iter[t \ {Max(t)}], s[Max(t)]) ELSE iter[t \ {Max(t)}]
      BY <1>5, <2>2
    <3>3. QED BY <1>2, <2>2, <3>1, <3>2
  <2>3. QED BY <2>1, <2>2 DEF Folds
<1> HIDE DEF Eq, n, Q, base
<1>8. PICK h \in Chains(n, Q, base, step) : h[n] = iter[1 .. n]
  <2>1. iter[1 .. n] \in { h[n] : h \in Chains(n, Q, base, step) }
    BY <1>1, <1>7, FoldChain
  <2>2. QED BY <2>1
<1>9. h \in Pickings(S, s, places)
  <2>1. /\ h \in [0 .. n -> Q] /\ h[0] = base
        /\ \A i \in 1 .. n : h[i] = step[<<i, h[i - 1]>>] /\ i - 1 \in 0 .. n
    BY <1>8, <1>1 DEF Chains
  <2>2. \A i \in 1 .. n : h[i] = IF i \in places THEN Append(h[i - 1], s[i]) ELSE h[i - 1]
    BY <1>2, <2>1
  <2>3. QED BY <2>1, <2>2 DEF Pickings, n, Q, base
<1>10. QED BY <1>6, <1>8, <1>9 DEF n

\* The states of a packet that is processed, after each action.
Runs(S, st, actions) ==
    { h \in [0 .. Len(actions) -> S] :
        h[0] = st /\ \A i \in 1 .. Len(actions) : h[i] = Do(h[i - 1], actions[i]) }

RunsAny(S, st, actions) ==
    { h \in [0 .. Len(actions) -> S] :
        h[0] = st /\ \A i \in 1 .. Len(actions) : h[i] = DoAny(h[i - 1], actions[i]) }

LEMMA DoChain ==
    ASSUME NEW A, NEW actions \in Seq(A), NEW S, NEW st \in S, \A u \in S, a \in A : Do(u, a) \in S
    PROVE  FoldLeft(Do, st, actions) \in { h[Len(actions)] : h \in Runs(S, st, actions) }
<1> DEFINE n == Len(actions)
           Q == S
           base == st
           step == [x \in (1 .. n) \X Q |-> Do(x[2], actions[x[1]])]
           Eq(f) == f = [t \in SUBSET (1 .. n) |->
                          IF t = {} THEN base
                          ELSE Do(f[t \ {Max(t)}], actions[Max(t)])]
           iter == CHOOSE f : Eq(f)
<1>1. step \in [(1 .. n) \X Q -> Q] /\ base \in Q /\ n \in Nat /\ DOMAIN actions = 1 .. n
  <2>1. \A i \in 1 .. n : actions[i] \in A
    OBVIOUS
  <2>2. QED BY <2>1
<1>2. \A i \in 1 .. n, q \in Q : step[<<i, q>>] = Do(q, actions[i])
  OBVIOUS
<1> HIDE DEF step
<1>3. PICK g \in Solutions(n, Q, base, step) : TRUE
  BY <1>1, FoldRecursion
<1>4. Eq(g)
  <2>1. /\ g \in [SUBSET (1 .. n) -> Q]
        /\ \A t \in SUBSET (1 .. n) : g[t] = IF t = {} THEN base ELSE step[<<Max(t), g[t \ {Max(t)}]>>]
    BY <1>3 DEF Solutions
  <2>2. ASSUME NEW t \in SUBSET (1 .. n), t # {}
        PROVE  g[t] = Do(g[t \ {Max(t)}], actions[Max(t)])
    <3>1. Max(t) \in 1 .. n /\ g[t \ {Max(t)}] \in Q
      BY <1>1, <2>1, <2>2, GreatestPlace
    <3>2. QED BY <1>2, <2>1, <2>2, <3>1
  <2>3. QED BY <2>1, <2>2
<1>5. Eq(iter)
  <2> HIDE DEF Eq
  <2>1. QED BY <1>4
<1>6. FoldLeft(Do, st, actions) = iter[1 .. n]
  BY <1>1 DEF FoldLeft, MapThenFoldSet
<1> HIDE DEF iter
<1>7. Folds(iter, n, Q, base, step)
  <2>1. iter[{}] = base
    BY <1>5
  <2>2. ASSUME NEW t \in SUBSET (1 .. n), t # {}, iter[t \ {Max(t)}] \in Q
        PROVE  iter[t] = step[<<Max(t), iter[t \ {Max(t)}]>>]
    <3>1. Max(t) \in 1 .. n
      BY <1>1, <2>2, GreatestPlace
    <3>2. iter[t] = Do(iter[t \ {Max(t)}], actions[Max(t)])
      BY <1>5, <2>2
    <3>3. QED BY <1>2, <2>2, <3>1, <3>2
  <2>3. QED BY <2>1, <2>2 DEF Folds
<1> HIDE DEF Eq, n, Q, base
<1>8. PICK h \in Chains(n, Q, base, step) : h[n] = iter[1 .. n]
  <2>1. iter[1 .. n] \in { h[n] : h \in Chains(n, Q, base, step) }
    BY <1>1, <1>7, FoldChain
  <2>2. QED BY <2>1
<1>9. h \in Runs(S, st, actions)
  <2>1. /\ h \in [0 .. n -> Q] /\ h[0] = base
        /\ \A i \in 1 .. n : h[i] = step[<<i, h[i - 1]>>] /\ i - 1 \in 0 .. n
    BY <1>8, <1>1 DEF Chains
  <2>2. \A i \in 1 .. n : h[i] = Do(h[i - 1], actions[i])
    BY <1>2, <2>1
  <2>3. QED BY <2>1, <2>2 DEF Runs, n, Q, base
<1>10. QED BY <1>6, <1>8, <1>9 DEF n

LEMMA DoAnyChain ==
    ASSUME NEW A, NEW actions \in Seq(A), NEW S, NEW st \in S, \A u \in S, a \in A : DoAny(u, a) \in S
    PROVE  FoldLeft(DoAny, st, actions) \in { h[Len(actions)] : h \in RunsAny(S, st, actions) }
<1> DEFINE n == Len(actions)
           Q == S
           base == st
           step == [x \in (1 .. n) \X Q |-> DoAny(x[2], actions[x[1]])]
           Eq(f) == f = [t \in SUBSET (1 .. n) |->
                          IF t = {} THEN base
                          ELSE DoAny(f[t \ {Max(t)}], actions[Max(t)])]
           iter == CHOOSE f : Eq(f)
<1>1. step \in [(1 .. n) \X Q -> Q] /\ base \in Q /\ n \in Nat /\ DOMAIN actions = 1 .. n
  <2>1. \A i \in 1 .. n : actions[i] \in A
    OBVIOUS
  <2>2. QED BY <2>1
<1>2. \A i \in 1 .. n, q \in Q : step[<<i, q>>] = DoAny(q, actions[i])
  OBVIOUS
<1> HIDE DEF step
<1>3. PICK g \in Solutions(n, Q, base, step) : TRUE
  BY <1>1, FoldRecursion
<1>4. Eq(g)
  <2>1. /\ g \in [SUBSET (1 .. n) -> Q]
        /\ \A t \in SUBSET (1 .. n) : g[t] = IF t = {} THEN base ELSE step[<<Max(t), g[t \ {Max(t)}]>>]
    BY <1>3 DEF Solutions
  <2>2. ASSUME NEW t \in SUBSET (1 .. n), t # {}
        PROVE  g[t] = DoAny(g[t \ {Max(t)}], actions[Max(t)])
    <3>1. Max(t) \in 1 .. n /\ g[t \ {Max(t)}] \in Q
      BY <1>1, <2>1, <2>2, GreatestPlace
    <3>2. QED BY <1>2, <2>1, <2>2, <3>1
  <2>3. QED BY <2>1, <2>2
<1>5. Eq(iter)
  <2> HIDE DEF Eq
  <2>1. QED BY <1>4
<1>6. FoldLeft(DoAny, st, actions) = iter[1 .. n]
  BY <1>1 DEF FoldLeft, MapThenFoldSet
<1> HIDE DEF iter
<1>7. Folds(iter, n, Q, base, step)
  <2>1. iter[{}] = base
    BY <1>5
  <2>2. ASSUME NEW t \in SUBSET (1 .. n), t # {}, iter[t \ {Max(t)}] \in Q
        PROVE  iter[t] = step[<<Max(t), iter[t \ {Max(t)}]>>]
    <3>1. Max(t) \in 1 .. n
      BY <1>1, <2>2, GreatestPlace
    <3>2. iter[t] = DoAny(iter[t \ {Max(t)}], actions[Max(t)])
      BY <1>5, <2>2
    <3>3. QED BY <1>2, <2>2, <3>1, <3>2
  <2>3. QED BY <2>1, <2>2 DEF Folds
<1> HIDE DEF Eq, n, Q, base
<1>8. PICK h \in Chains(n, Q, base, step) : h[n] = iter[1 .. n]
  <2>1. iter[1 .. n] \in { h[n] : h \in Chains(n, Q, base, step) }
    BY <1>1, <1>7, FoldChain
  <2>2. QED BY <2>1
<1>9. h \in RunsAny(S, st, actions)
  <2>1. /\ h \in [0 .. n -> Q] /\ h[0] = base
        /\ \A i \in 1 .. n : h[i] = step[<<i, h[i - 1]>>] /\ i - 1 \in 0 .. n
    BY <1>8, <1>1 DEF Chains
  <2>2. \A i \in 1 .. n : h[i] = DoAny(h[i - 1], actions[i])
    BY <1>2, <2>1
  <2>3. QED BY <2>1, <2>2 DEF RunsAny, n, Q, base
<1>10. QED BY <1>6, <1>8, <1>9 DEF n

-----------------------------------------------------------------------------
(* Lists of entries that are picked from another one, or inserted.          *)

\* The places in a list that the members of another one come from, in order.
Origins(s, places, t) ==
    { c \in [1 .. Len(t) -> 1 .. Len(s)] :
        /\ \A k \in 1 .. Len(t) : c[k] \in places /\ t[k] = s[c[k]]
        /\ \A k, l \in 1 .. Len(t) : k < l => c[k] < c[l]
        /\ \A i \in 1 .. Len(s) : i \in places => \E k \in 1 .. Len(t) : c[k] = i }

LEMMA PickedOrigins ==
    ASSUME NEW S, NEW s \in Seq(S), NEW places
    PROVE  Picked(s, places) \in Seq(S) /\ Origins(s, places, Picked(s, places)) # {}
<1> DEFINE n == Len(s)
<1>1. PICK h \in Pickings(S, s, places) : h[n] = Picked(s, places)
  BY PickedChain
<1>2. /\ h \in [0 .. n -> Seq(S)] /\ h[0] = <<>> /\ n \in Nat
      /\ \A i \in 1 .. n : h[i] = IF i \in places THEN Append(h[i - 1], s[i]) ELSE h[i - 1]
  BY <1>1 DEF Pickings
<1> DEFINE Goal(m) == \E c \in [1 .. Len(h[m]) -> 1 .. m] :
                        /\ \A k \in 1 .. Len(h[m]) : c[k] \in places /\ h[m][k] = s[c[k]]
                        /\ \A k, l \in 1 .. Len(h[m]) : k < l => c[k] < c[l]
                        /\ \A i \in 1 .. m : i \in places => \E k \in 1 .. Len(h[m]) : c[k] = i
           T == { m \in Nat : m <= n => Goal(m) }
<1>3. 0 \in T
  <2>1. Len(h[0]) = 0 /\ 1 .. 0 = {}
    BY <1>2
  <2>2. [k \in 1 .. 0 |-> 0] \in [1 .. 0 -> 1 .. 0]
    OBVIOUS
  <2>3. QED BY <2>1, <2>2
<1>4. ASSUME NEW m \in T PROVE m + 1 \in T
  <2>1. m \in Nat /\ m + 1 \in Nat
    OBVIOUS
  <2>2. SUFFICES ASSUME m + 1 <= n PROVE Goal(m + 1)
    BY <2>1
  <2>3. m \in 0 .. n /\ m + 1 \in 1 .. n /\ m + 1 \in 0 .. n /\ (m + 1) - 1 = m /\ m <= n
    BY <1>2, <2>1, <2>2
  <2>4. h[m] \in Seq(S) /\ h[m + 1] \in Seq(S) /\ Goal(m)
        /\ h[m + 1] = IF m + 1 \in places THEN Append(h[m], s[m + 1]) ELSE h[m]
    BY <1>2, <2>3
  <2> DEFINE L == Len(h[m])
  <2>5. PICK c \in [1 .. L -> 1 .. m] :
          /\ \A k \in 1 .. L : c[k] \in places /\ h[m][k] = s[c[k]]
          /\ \A k, l \in 1 .. L : k < l => c[k] < c[l]
          /\ \A i \in 1 .. m : i \in places => \E k \in 1 .. L : c[k] = i
    BY <2>4
  <2>6. CASE m + 1 \in places
    <3> DEFINE d == [k \in 1 .. L + 1 |-> IF k = L + 1 THEN m + 1 ELSE c[k]]
    <3>1. L \in Nat /\ Len(h[m + 1]) = L + 1 /\ h[m + 1][L + 1] = s[m + 1]
          /\ \A k \in 1 .. L : h[m + 1][k] = h[m][k]
      BY <2>3, <2>4, <2>6
    <3> HIDE DEF L
    <3>2. /\ \A k \in 1 .. L : k \in 1 .. L + 1 /\ d[k] = c[k] /\ d[k] \in 1 .. m
          /\ L + 1 \in 1 .. L + 1 /\ d[L + 1] = m + 1
          /\ \A k \in 1 .. L + 1 : k \in 1 .. L \/ k = L + 1
      BY <2>1, <3>1, <2>5
    <3>3. d \in [1 .. L + 1 -> 1 .. m + 1]
      BY <2>1, <3>1, <2>5
    <3> HIDE DEF d
    <3>4. \A k \in 1 .. L + 1 : d[k] \in places /\ h[m + 1][k] = s[d[k]]
      BY <2>5, <2>6, <3>1, <3>2
    <3>5. ASSUME NEW k \in 1 .. L + 1, NEW l \in 1 .. L + 1, k < l PROVE d[k] < d[l]
      <4>1. k \in 1 .. L /\ d[k] = c[k] /\ d[k] \in 1 .. m
        BY <3>1, <3>2, <3>5
      <4>2. CASE l = L + 1
        BY <2>1, <3>2, <4>1, <4>2
      <4>3. CASE l \in 1 .. L
        BY <2>5, <3>2, <3>5, <4>1, <4>3
      <4>4. QED BY <3>2, <4>2, <4>3
    <3>6. \A i \in 1 .. m + 1 : i \in places => \E k \in 1 .. L + 1 : d[k] = i
      BY <2>1, <2>5, <3>2
    <3>7. /\ d \in [1 .. Len(h[m + 1]) -> 1 .. m + 1]
          /\ \A k \in 1 .. Len(h[m + 1]) : d[k] \in places /\ h[m + 1][k] = s[d[k]]
          /\ \A k, l \in 1 .. Len(h[m + 1]) : k < l => d[k] < d[l]
          /\ \A i \in 1 .. m + 1 : i \in places => \E k \in 1 .. Len(h[m + 1]) : d[k] = i
      BY <3>1, <3>3, <3>4, <3>5, <3>6
    <3>8. QED BY <3>7
  <2>7. CASE m + 1 \notin places
    <3>1. h[m + 1] = h[m] /\ c \in [1 .. L -> 1 .. m + 1]
      BY <2>1, <2>4, <2>5, <2>7
    <3>2. \A i \in 1 .. m + 1 : i \in places => i \in 1 .. m
      BY <2>1, <2>7
    <3>3. Len(h[m + 1]) = L
      BY <3>1
    <3>4. \A k \in 1 .. L : c[k] \in places /\ h[m + 1][k] = s[c[k]]
      BY <2>5, <3>1
    <3>5. \A i \in 1 .. m + 1 : i \in places => \E k \in 1 .. L : c[k] = i
      BY <2>5, <3>2
    <3> HIDE DEF L
    <3>6. /\ c \in [1 .. Len(h[m + 1]) -> 1 .. m + 1]
          /\ \A k \in 1 .. Len(h[m + 1]) : c[k] \in places /\ h[m + 1][k] = s[c[k]]
          /\ \A k, l \in 1 .. Len(h[m + 1]) : k < l => c[k] < c[l]
          /\ \A i \in 1 .. m + 1 : i \in places => \E k \in 1 .. Len(h[m + 1]) : c[k] = i
      BY <2>5, <3>1, <3>3, <3>4, <3>5
    <3>7. QED BY <3>6
  <2>8. QED BY <2>6, <2>7
<1>5. T = Nat
  <2>1. T \in SUBSET Nat
    OBVIOUS
  <2> HIDE DEF T
  <2>2. QED BY <1>3, <1>4, <2>1, Induct
<1>6. Goal(n)
  <2>1. n \in T
    BY <1>2, <1>5
  <2>2. QED BY <1>2, <2>1
<1>7. Picked(s, places) \in Seq(S)
  BY <1>1, <1>2
<1>8. QED BY <1>1, <1>6, <1>7 DEF Origins

LEMMA InsertedAt ==
    ASSUME NEW S, NEW s \in Seq(S), NEW e \in S, NEW i \in 1 .. Len(s) + 1
    PROVE  /\ InsertAt(s, i, e) \in Seq(S)
           /\ Len(InsertAt(s, i, e)) = Len(s) + 1
           /\ \A k \in 1 .. Len(s) + 1 :
                InsertAt(s, i, e)[k] = IF k < i THEN s[k] ELSE IF k = i THEN e ELSE s[k - 1]
<1> DEFINE a == SubSeq(s, 1, i - 1)
           b == SubSeq(s, i, Len(s))
<1>1. Len(s) \in Nat
  OBVIOUS
<1>2. a \in Seq(S) /\ Len(a) = i - 1 /\ \A k \in 1 .. i - 1 : a[k] = s[k]
  BY <1>1, SubSeqProperties
<1>3. b \in Seq(S) /\ Len(b) = Len(s) - i + 1 /\ \A k \in 1 .. Len(s) - i + 1 : b[k] = s[k + i - 1]
  BY <1>1, SubSeqProperties
<1>4. InsertAt(s, i, e) = a \o <<e>> \o b
  BY DEF InsertAt
<1> HIDE DEF a, b
<1>5. a \o <<e>> \in Seq(S) /\ Len(a \o <<e>>) = i /\ (a \o <<e>>)[i] = e
      /\ \A k \in 1 .. i - 1 : (a \o <<e>>)[k] = s[k]
  BY <1>1, <1>2
<1> DEFINE c == a \o <<e>>
<1> HIDE DEF c
<1>6. c \o b \in Seq(S) /\ Len(c \o b) = Len(s) + 1
  BY <1>1, <1>3, <1>5 DEF c
<1>7. ASSUME NEW k \in 1 .. Len(s) + 1
      PROVE  (c \o b)[k] = IF k < i THEN s[k] ELSE IF k = i THEN e ELSE s[k - 1]
  <2>1. k <= i => (c \o b)[k] = c[k]
    BY <1>1, <1>3, <1>5 DEF c
  <2>2. k > i => (c \o b)[k] = b[k - i] /\ k - i \in 1 .. Len(s) - i + 1 /\ b[k - i] = s[k - 1]
    <3>1. k > i => (c \o b)[k] = b[k - i] /\ k - i \in 1 .. Len(s) - i + 1
      BY <1>1, <1>3, <1>5 DEF c
    <3>2. (k - i) + i - 1 = k - 1
      BY <1>1
    <3>3. QED BY <1>3, <3>1, <3>2
  <2>3. k < i => k \in 1 .. i - 1 /\ c[k] = s[k]
    BY <1>1, <1>5 DEF c
  <2>4. k = i => c[k] = e
    BY <1>5 DEF c
  <2>5. k < i \/ k = i \/ k > i
    BY <1>1
  <2> HIDE DEF c
  <2>6. k < i => k # i /\ k <= i /\ ~ (k > i)
    BY <1>1
  <2>7. k > i => k # i /\ ~ (k < i)
    BY <1>1
  <2>8. k = i => k <= i /\ ~ (k < i)
    BY <1>1
  <2>9. QED BY <2>1, <2>2, <2>3, <2>4, <2>5, <2>6, <2>7, <2>8
<1>8. QED BY <1>4, <1>6, <1>7 DEF c

-----------------------------------------------------------------------------
(* The table, and the place of a new entry in it.                           *)

Sorted(s) == \A i, j \in DOMAIN s : i < j => EffectivePriority(s[i]) >= EffectivePriority(s[j])

LEMMA PrioritiesBelow == \A x \in Priorities : x \in Nat /\ x < 65537
  BY DEF Priorities

LEMMA Requested ==
    ASSUME NEW fm \in FlowMods
    PROVE  /\ fm.command \in {"ADD", "MODIFY", "MODIFY_STRICT", "DELETE", "DELETE_STRICT"}
           /\ fm.match \in Matches /\ fm.priority \in Priorities /\ fm.actions \in Seq(EntryActions)
           /\ fm.flags \in SUBSET {"SEND_FLOW_REM", "CHECK_OVERLAP", "EMERG"}
           /\ fm.idle \in BOOLEAN /\ fm.hard \in BOOLEAN
           /\ fm.out_port \in Int \cup {None} /\ fm.buffer \in Nat
           /\ fm \in FlowModMessages
<1>1. fm \in FlowModMessages
  BY AnyControllerAssumption
<1>2. QED BY <1>1 DEF FlowModMessages

LEMMA EntryTypes ==
    ASSUME NEW e \in Entries
    PROVE  /\ e = [match |-> e.match, priority |-> e.priority, actions |-> e.actions,
                   flags |-> e.flags, idle |-> e.idle, hard |-> e.hard]
           /\ e.match \in Matches /\ e.priority \in Priorities /\ e.actions \in Seq(EntryActions)
           /\ e.flags \in SUBSET {"SEND_FLOW_REM", "CHECK_OVERLAP", "EMERG"}
           /\ e.idle \in BOOLEAN /\ e.hard \in BOOLEAN
           /\ EffectivePriority(e) \in Nat
<1>1. /\ e = [match |-> e.match, priority |-> e.priority, actions |-> e.actions,
              flags |-> e.flags, idle |-> e.idle, hard |-> e.hard]
      /\ e.match \in { fm.match : fm \in FlowMods } /\ e.priority \in { fm.priority : fm \in FlowMods }
      /\ e.actions \in { fm.actions : fm \in FlowMods } /\ e.flags \in { fm.flags : fm \in FlowMods }
      /\ e.idle \in BOOLEAN /\ e.hard \in BOOLEAN
  BY DEF Entries
<1>2. e.match \in Matches
  <2>1. PICK fm \in FlowMods : e.match = fm.match
    BY <1>1
  <2>2. QED BY <2>1, Requested
<1>3. e.priority \in Priorities
  <2>1. PICK fm \in FlowMods : e.priority = fm.priority
    BY <1>1
  <2>2. QED BY <2>1, Requested
<1>4. e.actions \in Seq(EntryActions)
  <2>1. PICK fm \in FlowMods : e.actions = fm.actions
    BY <1>1
  <2>2. QED BY <2>1, Requested
<1>5. e.flags \in SUBSET {"SEND_FLOW_REM", "CHECK_OVERLAP", "EMERG"}
  <2>1. PICK fm \in FlowMods : e.flags = fm.flags
    BY <1>1
  <2>2. QED BY <2>1, Requested
<1>6. EffectivePriority(e) \in Nat
  <2>1. e.priority \in Nat
    BY <1>3, PrioritiesBelow
  <2>2. QED BY <2>1 DEF EffectivePriority
<1>7. QED BY <1>1, <1>2, <1>3, <1>4, <1>5, <1>6

\* A function repeated some times.
Repeats(after, n, base, f) == after = CHOOSE g : g = [i \in 0 .. n |-> IF i = 0 THEN base ELSE f[g[i - 1]]]

LEMMA Repeated ==
    ASSUME NEW S, NEW base \in S, NEW n \in Nat, NEW f \in [S -> S], NEW after, Repeats(after, n, base, f)
    PROVE  /\ after \in [0 .. n -> S]
           /\ after[0] = base /\ \A i \in 1 .. n : after[i] = f[after[i - 1]]
<1> DEFINE step == [x \in (1 .. n) \X S |-> f[x[2]]]
           Eq(g) == g = [i \in 0 .. n |-> IF i = 0 THEN base ELSE f[g[i - 1]]]
<1>0. step \in [(1 .. n) \X S -> S] /\ base \in S /\ n \in Nat
  OBVIOUS
<1>1. step \in [(1 .. n) \X S -> S] /\ \A i \in 1 .. n, x \in S : step[<<i, x>>] = f[x]
  OBVIOUS
<1> HIDE DEF step
<1>2. PICK it \in Solutions(n, S, base, step) : TRUE
  <2>1. Solutions(n, S, base, step) # {}
    BY <1>0, FoldRecursion
  <2>2. QED BY <2>1
<1>3. Folds(it, n, S, base, step)
  BY <1>2 DEF Solutions, Folds
<1>4. PICK h \in Chains(n, S, base, step) : TRUE
  <2>1. it[1 .. n] \in { h[n] : h \in Chains(n, S, base, step) }
    BY <1>1, <1>3, FoldChain
  <2>2. QED BY <2>1
<1>5. /\ h \in [0 .. n -> S] /\ h[0] = base
      /\ \A i \in 1 .. n : h[i] = step[<<i, h[i - 1]>>]
  BY <1>4 DEF Chains
<1>6. \A i \in 0 .. n : h[i] = IF i = 0 THEN base ELSE f[h[i - 1]]
  <2>1. TAKE i \in 0 .. n
  <2>2. CASE i # 0
    <3>1. i \in 1 .. n /\ i - 1 \in 0 .. n
      BY <2>2
    <3>2. h[i - 1] \in S
      BY <1>5, <3>1
    <3>3. QED BY <1>1, <1>5, <2>2, <3>1, <3>2
  <2>3. QED BY <1>5, <2>2
<1>7. Eq(h)
  BY <1>5, <1>6
<1>8. Eq(after)
  <2> HIDE DEF Eq
  <2>1. after = CHOOSE g : Eq(g)
    BY DEF Eq, Repeats
  <2>2. QED BY <1>7, <2>1
<1>9. \A i \in 0 .. n : after[i] = IF i = 0 THEN base ELSE f[after[i - 1]]
  BY <1>8
<1> DEFINE T == { m \in Nat : m <= n => after[m] \in S }
<1>10. 0 \in T
  BY <1>9
<1>11. ASSUME NEW m \in T PROVE m + 1 \in T
  <2>1. m \in Nat /\ m + 1 \in Nat /\ m + 1 # 0 /\ (m + 1) - 1 = m /\ (m + 1 <= n => m <= n /\ m + 1 \in 0 .. n)
    OBVIOUS
  <2>2. m + 1 <= n => after[m + 1] = f[after[m]] /\ after[m] \in S
    BY <1>9, <2>1
  <2>3. QED BY <2>1, <2>2
<1>12. T = Nat
  <2>1. T \in SUBSET Nat
    OBVIOUS
  <2> HIDE DEF T
  <2>2. QED BY <1>10, <1>11, <2>1, Induct
<1>13. \A i \in 0 .. n : after[i] \in S
  BY <1>12
<1>14. after \in [0 .. n -> S]
  BY <1>8, <1>9, <1>13
<1>15. \A i \in 1 .. n : i \in 0 .. n /\ i # 0
  OBVIOUS
<1>16. 0 \in 0 .. n
  OBVIOUS
<1> HIDE DEF Eq, T
<1>17. QED BY <1>9, <1>14, <1>15, <1>16

LEMMA Placed ==
    ASSUME NEW s \in Seq(Entries), NEW p \in Nat
    PROVE  /\ Place(s, p) \in 0 .. Len(s)
           /\ Sorted(s) => \A j \in 1 .. Len(s) :
                 IF j <= Place(s, p) THEN EffectivePriority(s[j]) > p
                                     ELSE EffectivePriority(s[j]) <= p
<1> DEFINE n == Len(s)
           R == (0 .. n) \X (0 .. n)
           f == Halve(s, p)
           after == CHOOSE g : g = [i \in 0 .. n |-> IF i = 0 THEN <<0, n>> ELSE f[g[i - 1]]]
           Kept(r, i) == /\ r[1] <= r[2] /\ r[2] - r[1] <= n - i
                         /\ Sorted(s) => \A j \in 1 .. n : /\ j <= r[1] => EffectivePriority(s[j]) > p
                                                           /\ j > r[2] => EffectivePriority(s[j]) <= p
<1>1. n \in Nat /\ DOMAIN s = 1 .. n /\ \A j \in 1 .. n : EffectivePriority(s[j]) \in Nat
  BY EntryTypes
<1>2. /\ f \in [R -> R]
      /\ \A r \in R, i \in 1 .. n : Kept(r, i - 1) => Kept(f[r], i)
  <2> HIDE DEF n
  <2>1. ASSUME NEW r \in R
        PROVE  /\ f[r] \in R
               /\ \A i \in 1 .. n : Kept(r, i - 1) => Kept(f[r], i)
    <3> DEFINE low == r[1]
               high == r[2]
               middle == (low + high) \div 2
    <3>1. low \in 0 .. n /\ high \in 0 .. n
      OBVIOUS
    <3>2. f[r] = IF low >= high THEN r
                 ELSE IF p >= EffectivePriority(s[middle + 1]) THEN <<low, middle>> ELSE <<middle + 1, high>>
      BY DEF Halve, n
    <3> HIDE DEF f
    <3>3. CASE low >= high
      BY <3>1, <3>2, <3>3, <1>1
    <3>4. CASE low < high
      <4>1. low <= middle /\ middle < high /\ middle \in 0 .. n /\ middle + 1 \in 1 .. n
        BY <1>1, <3>1, <3>4
      <4> HIDE DEF middle
      <4>2. EffectivePriority(s[middle + 1]) \in Nat
        BY <1>1, <4>1
      <4>3. CASE p >= EffectivePriority(s[middle + 1])
        <5>1. f[r] = <<low, middle>> /\ f[r][1] = low /\ f[r][2] = middle
          BY <3>1, <3>2, <3>4, <4>1, <4>3
        <5>2. ASSUME Sorted(s), NEW j \in 1 .. n, j > middle PROVE EffectivePriority(s[j]) <= p
          <6>1. j = middle + 1 \/ middle + 1 < j
            BY <4>1, <5>2
          <6>2. EffectivePriority(s[j]) \in Nat
            BY <1>1
          <6>3. middle + 1 < j => EffectivePriority(s[middle + 1]) >= EffectivePriority(s[j])
            BY <1>1, <4>1, <5>2 DEF Sorted
          <6>4. p \in Nat
            OBVIOUS
          <6>5. QED BY <4>2, <4>3, <6>1, <6>2, <6>3, <6>4
        <5>3. f[r] \in R
          BY <3>1, <4>1, <5>1
        <5>4. ASSUME NEW i \in 1 .. n, Kept(r, i - 1) PROVE Kept(f[r], i)
          <6>1. f[r][1] <= f[r][2] /\ f[r][2] - f[r][1] <= n - i
            BY <1>1, <3>1, <3>4, <4>1, <5>1, <5>4
          <6>2. ASSUME Sorted(s), NEW j \in 1 .. n
                PROVE  /\ j <= f[r][1] => EffectivePriority(s[j]) > p
                       /\ j > f[r][2] => EffectivePriority(s[j]) <= p
            BY <5>1, <5>2, <5>4, <6>2
          <6>3. QED BY <6>1, <6>2
        <5>5. QED BY <5>3, <5>4
      <4>4. CASE ~ (p >= EffectivePriority(s[middle + 1]))
        <5>1. f[r] = <<middle + 1, high>> /\ f[r][1] = middle + 1 /\ f[r][2] = high
          BY <3>1, <3>2, <3>4, <4>1, <4>4
        <5>2. ASSUME Sorted(s), NEW j \in 1 .. n, j <= middle + 1 PROVE EffectivePriority(s[j]) > p
          <6>1. j = middle + 1 \/ j < middle + 1
            BY <4>1, <5>2
          <6>2. EffectivePriority(s[j]) \in Nat
            BY <1>1
          <6>3. j < middle + 1 => EffectivePriority(s[j]) >= EffectivePriority(s[middle + 1])
            BY <1>1, <4>1, <5>2 DEF Sorted
          <6>4. p \in Nat
            OBVIOUS
          <6>5. QED BY <4>2, <4>4, <6>1, <6>2, <6>3, <6>4
        <5>3. f[r] \in R
          BY <3>1, <4>1, <5>1
        <5>4. ASSUME NEW i \in 1 .. n, Kept(r, i - 1) PROVE Kept(f[r], i)
          <6>1. f[r][1] <= f[r][2] /\ f[r][2] - f[r][1] <= n - i
            BY <1>1, <3>1, <3>4, <4>1, <5>1, <5>4
          <6>2. ASSUME Sorted(s), NEW j \in 1 .. n
                PROVE  /\ j <= f[r][1] => EffectivePriority(s[j]) > p
                       /\ j > f[r][2] => EffectivePriority(s[j]) <= p
            BY <5>1, <5>2, <5>4, <6>2
          <6>3. QED BY <6>1, <6>2
        <5>5. QED BY <5>3, <5>4
      <4>5. QED BY <4>3, <4>4
    <3>5. QED BY <3>1, <3>3, <3>4
  <2>2. f = [r \in R |-> f[r]]
    BY DEF Halve, n
  <2> HIDE DEF f, Kept, R
  <2>3. QED BY <2>1, <2>2
<1>3. Place(s, p) = after[n][1]
  BY DEF Place
<1>4. /\ after \in [0 .. n -> R]
      /\ after[0] = <<0, n>> /\ \A i \in 1 .. n : after[i] = f[after[i - 1]]
  <2>1. <<0, n>> \in R
    BY <1>1
  <2>2. Repeats(after, n, <<0, n>>, f)
    BY DEF Repeats
  <2> DEFINE base == <<0, n>>
  <2> HIDE DEF f, R, n, after, base
  <2>3. base \in R /\ Repeats(after, n, base, f)
    BY <2>1, <2>2 DEF base
  <2>4. /\ after \in [0 .. n -> R]
        /\ after[0] = base /\ \A i \in 1 .. n : after[i] = f[after[i - 1]]
    BY <1>1, <1>2, <2>3, Repeated
  <2>5. QED BY <2>4 DEF base
<1> HIDE DEF after, f
<1>5. Kept(after[0], 0)
  BY <1>1, <1>4
<1> DEFINE T == { m \in Nat : m <= n => Kept(after[m], m) }
<1>6. ASSUME NEW m \in T PROVE m + 1 \in T
  <2>1. m \in Nat /\ m + 1 \in Nat /\ (m + 1) - 1 = m /\ (m + 1 <= n => m <= n /\ m + 1 \in 1 .. n /\ m \in 0 .. n)
    BY <1>1
  <2>2. m <= n => Kept(after[m], m)
    OBVIOUS
  <2>3. m + 1 <= n => after[m] \in R /\ after[m + 1] = f[after[m]]
    BY <1>4, <2>1
  <2> HIDE DEF Kept, R, n
  <2>4. QED BY <1>2, <2>1, <2>2, <2>3
<1>7. T = Nat
  <2>1. T \in SUBSET Nat /\ 0 \in T
    BY <1>5
  <2> HIDE DEF T
  <2>2. QED BY <1>6, <2>1, Induct
<1>8. Kept(after[n], n) /\ after[n] \in R
  <2>1. n \in T /\ n \in 0 .. n
    BY <1>1, <1>7
  <2>2. after[n] \in R
    BY <1>4, <2>1
  <2>3. Kept(after[n], n)
    <3> HIDE DEF Kept
    <3>1. QED BY <1>1, <2>1
  <2>4. QED BY <2>2, <2>3
<1>9. after[n][1] = after[n][2] /\ after[n][1] \in 0 .. n
  BY <1>1, <1>8
<1>10. QED BY <1>1, <1>3, <1>8, <1>9

LEMMA EntryOf ==
    ASSUME NEW fm \in FlowMods
    PROVE  Entry(fm) \in Entries
<1>1. /\ fm.match \in { g.match : g \in FlowMods } /\ fm.priority \in { g.priority : g \in FlowMods }
      /\ fm.actions \in { g.actions : g \in FlowMods } /\ fm.flags \in { g.flags : g \in FlowMods }
      /\ fm.idle \in BOOLEAN /\ fm.hard \in BOOLEAN
  BY Requested
<1>2. QED BY <1>1 DEF Entry, Entries

LEMMA Modified ==
    ASSUME NEW fm \in FlowMods, NEW e \in Entries
    PROVE  /\ [e EXCEPT !.actions = fm.actions] \in Entries
           /\ [e EXCEPT !.actions = fm.actions].match = e.match
           /\ [e EXCEPT !.actions = fm.actions].priority = e.priority
  BY DEF Entries

LEMMA PickedTyped ==
    ASSUME NEW t \in Seq(Entries), NEW some
    PROVE  /\ Without(t, some) \in Seq(Entries) /\ Among(t, some) \in Seq(Entries)
           /\ ToBeNotified(t) \in Seq(Entries)
  BY PickedOrigins DEF Without, Among, ToBeNotified

LEMMA AddEntryTyped ==
    ASSUME NEW t \in Seq(Entries), NEW e \in Entries
    PROVE  AddEntry(t, e) \in Seq(Entries)
<1>1. Place(t, EffectivePriority(e)) + 1 \in 1 .. Len(t) + 1
  <2>1. EffectivePriority(e) \in Nat
    BY EntryTypes
  <2>2. Place(t, EffectivePriority(e)) \in 0 .. Len(t) /\ Len(t) \in Nat
    BY <2>1, Placed
  <2>3. QED BY <2>2
<1>2. QED BY <1>1, InsertedAt DEF AddEntry

\* What is done for a flow_mod does not depend on the buffer it names.
LEMMA BufferIgnored ==
    ASSUME NEW fm \in FlowMods, NEW b, NEW t
    PROVE  FlowMod(t, [fm EXCEPT !.buffer = b]) = FlowMod(t, fm)
<1> DEFINE g == [fm EXCEPT !.buffer = b]
<1>1. /\ g.command = fm.command /\ g.match = fm.match /\ g.priority = fm.priority
      /\ g.actions = fm.actions /\ g.flags = fm.flags /\ g.idle = fm.idle /\ g.hard = fm.hard
      /\ g.out_port = fm.out_port
  BY Requested DEF FlowModMessages
<1> HIDE DEF g
<1>2. Entry(g) = Entry(fm)
  BY <1>1 DEF Entry
<1>3. FlowModAdd(t, g) = FlowModAdd(t, fm)
  BY <1>1, <1>2 DEF FlowModAdd
<1>4. \A strict : FlowModModify(t, g, strict) = FlowModModify(t, fm, strict)
  BY <1>1, <1>3 DEF FlowModModify
<1>5. \A strict : FlowModDelete(t, g, strict) = FlowModDelete(t, fm, strict)
  BY <1>1 DEF FlowModDelete
<1>6. FlowMod(t, g) = FlowMod(t, fm)
  BY <1>1, <1>3, <1>4, <1>5 DEF FlowMod
<1>7. QED BY <1>6 DEF g

Results == [table : Seq(Entries), removed : Seq(Entries), error : BOOLEAN]

LEMMA AddTyped ==
    ASSUME NEW t \in Seq(Entries), NEW fm \in FlowMods
    PROVE  FlowModAdd(t, fm) \in Results
<1> DEFINE same == IF fm.command # "ADD" THEN {} ELSE MatchingEntries(t, fm.match, fm.priority, TRUE, None)
           kept == Without(t, same)
<1>1. kept \in Seq(Entries) /\ Entry(fm) \in Entries
  BY PickedTyped, EntryOf
<1>2. AddEntry(kept, Entry(fm)) \in Seq(Entries)
  <2> HIDE DEF kept
  <2>1. QED BY <1>1, AddEntryTyped
<1> HIDE DEF kept
<1>3. /\ Failed(t) \in Results /\ Failed(kept) \in Results
      /\ Done(AddEntry(kept, Entry(fm))) \in Results
  BY <1>1, <1>2 DEF Failed, Done, Results
<1>4. FlowModAdd(t, fm) \in {Failed(t), Failed(kept), Done(AddEntry(kept, Entry(fm)))}
  BY DEF FlowModAdd, kept
<1>5. QED BY <1>3, <1>4

LEMMA FlowModTyped ==
    ASSUME NEW t \in Seq(Entries), NEW fm \in FlowMods
    PROVE  FlowMod(t, fm) \in Results
<1>1. FlowModAdd(t, fm) \in Results
  BY AddTyped
<1>2. ASSUME NEW strict \in BOOLEAN PROVE FlowModModify(t, fm, strict) \in Results
  <2> DEFINE u == [i \in DOMAIN t |-> IF IsMatchedBy(t[i], fm.match, fm.priority, strict, None)
                                      THEN [t[i] EXCEPT !.actions = fm.actions] ELSE t[i]]
  <2>1. \A i \in 1 .. Len(t) : t[i] \in Entries /\ [t[i] EXCEPT !.actions = fm.actions] \in Entries
    BY Modified
  <2>2. u \in [1 .. Len(t) -> Entries]
    BY <2>1
  <2>3. u \in Seq(Entries)
    <3> HIDE DEF u
    <3>1. QED BY <2>2
  <2> HIDE DEF u
  <2>4. Done(u) \in Results
    BY <2>3 DEF Done, Results
  <2>5. FlowModModify(t, fm, strict) \in {FlowModAdd(t, fm), Done(u)}
    BY DEF FlowModModify, u
  <2>6. QED BY <1>1, <2>4, <2>5
<1>3. ASSUME NEW strict \in BOOLEAN PROVE FlowModDelete(t, fm, strict) \in Results
  <2> DEFINE gone == MatchingEntries(t, fm.match, fm.priority, strict, fm.out_port)
  <2>1. /\ Without(t, gone) \in Seq(Entries)
        /\ ToBeNotified(Among(t, gone)) \in Seq(Entries)
    BY PickedTyped
  <2>2. FlowModDelete(t, fm, strict) =
          [table |-> Without(t, gone), error |-> FALSE, removed |-> ToBeNotified(Among(t, gone))]
    BY DEF FlowModDelete
  <2> HIDE DEF gone
  <2>3. QED BY <2>1, <2>2 DEF Results
<1>4. QED BY <1>1, <1>2, <1>3, Requested DEF FlowMod

LEMMA ExpiredTyped ==
    ASSUME NEW t \in Seq(Entries), NEW idle, NEW hard
    PROVE  /\ RemoveExpired(t, idle, hard).table \in Seq(Entries)
           /\ RemoveExpired(t, idle, hard).removed \in Seq(Entries)
<1> DEFINE a == Among(t, idle)
           b == Among(t, hard \ idle)
<1>1. a \in Seq(Entries) /\ b \in Seq(Entries) /\ Without(t, idle \cup hard) \in Seq(Entries)
  BY PickedTyped
<1> HIDE DEF a, b
<1>2. a \o b \in Seq(Entries)
  BY <1>1
<1>3. ToBeNotified(a \o b) \in Seq(Entries)
  BY <1>2, PickedTyped
<1>4. QED BY <1>1, <1>3 DEF RemoveExpired, a, b

\* The entry for a packet is the first of those that match.
LEMMA FirstEntry ==
    ASSUME NEW t \in Seq(Entries), NEW m
    PROVE  \/ /\ EntryFor(t, m) = None
              /\ \A i \in DOMAIN t : ~ Encompasses(t[i].match, m)
           \/ \E i \in DOMAIN t : /\ EntryFor(t, m) = t[i] /\ t[i] \in Entries
                                  /\ Encompasses(t[i].match, m)
                                  /\ \A j \in DOMAIN t : Encompasses(t[j].match, m) => i <= j
<1> DEFINE I == { i \in 1 .. Len(t) : Encompasses(t[i].match, m) }
<1>1. EntryFor(t, m) = IF (IF I # {} THEN Min(I) ELSE 0) = 0 THEN None ELSE t[IF I # {} THEN Min(I) ELSE 0]
  BY DEF EntryFor, SelectInSeq
<1>2. DOMAIN t = 1 .. Len(t) /\ \A i \in 1 .. Len(t) : t[i] \in Entries
  OBVIOUS
<1>3. CASE I = {}
  BY <1>1, <1>2, <1>3
<1>4. CASE I # {}
  <2>1. I \in SUBSET Nat
    OBVIOUS
  <2>2. Min(I) \in I /\ \A j \in I : Min(I) <= j
    <3> HIDE DEF I
    <3>1. QED BY <1>4, <2>1, Least
  <2>3. Min(I) \in DOMAIN t /\ Encompasses(t[Min(I)].match, m) /\ Min(I) # 0
    BY <1>2, <2>2
  <2>4. EntryFor(t, m) = t[Min(I)] /\ t[Min(I)] \in Entries
    BY <1>1, <1>2, <1>4, <2>3
  <2>5. \A j \in DOMAIN t : Encompasses(t[j].match, m) => Min(I) <= j
    BY <1>2, <2>2
  <2> HIDE DEF I
  <2>6. QED BY <2>3, <2>4, <2>5
<1>5. QED BY <1>3, <1>4

-----------------------------------------------------------------------------
(* What happens to a packet.                                                *)

\* A packet on its way through the actions.
Found(tab, m) == [packet |-> m, entry |-> EntryFor(tab, m)]

Slots == [1 .. MaxBuffers -> Buffered \cup {None}]

ProcessRecords(tab) ==
    [packet : AllPackets, in_port : Int, table : {tab}, buffers : Slots,
     slots : SUBSET (0 .. MaxBuffers), out : SUBSET ((DOMAIN ports) \X AllPackets), told : Seq(PacketIns),
     last : {last} \cup { Found(tab, m) : m \in PacketMatches }]

States(tab) == { st \in ProcessRecords(tab) : \A i \in st.slots : i # 0 => st.buffers[i] # None }

PortsTyped == DOMAIN ports \subseteq AllPorts /\ \A p \in DOMAIN ports : ports[p] \subseteq ConfigBits

LEMMA FreeSlotIs ==
    ASSUME NEW buffers
    PROVE  /\ FreeSlot(buffers) \in 0 .. MaxBuffers
           /\ FreeSlot(buffers) # 0 => buffers[FreeSlot(buffers)] = None
<1> DEFINE free == { i \in 1 .. MaxBuffers : buffers[i] = None }
<1>1. FreeSlot(buffers) = IF free = {} THEN 0 ELSE Min(free)
  BY DEF FreeSlot
<1>2. free \in SUBSET Nat /\ MaxBuffers \in Nat
  BY SoftSwitchAssumption
<1>3. free # {} => Min(free) \in free
  <2> HIDE DEF free
  <2>1. QED BY <1>2, Least
<1>4. QED BY <1>1, <1>2, <1>3

\* The packet_in that is sent, and the slot that is filled.
LEMMA Asked ==
    ASSUME NEW tab, NEW st \in States(tab), NEW reason \in {"ACTION", "NO_MATCH"}
    PROVE  /\ AskController(st, reason) \in States(tab)
           /\ LET i == FreeSlot(st.buffers)
                  m == [type |-> "packet_in", buffer |-> i, reason |-> reason,
                        packet |-> st.packet, in_port |-> st.in_port]
              IN  /\ m \in PacketIns
                  /\ AskController(st, reason).told = Append(st.told, m)
                  /\ AskController(st, reason).slots = st.slots \cup {i}
                  /\ \A j \in 1 .. MaxBuffers : AskController(st, reason).buffers[j] =
                       IF j = i THEN [packet |-> st.packet, in_port |-> st.in_port] ELSE st.buffers[j]
<1> DEFINE i == FreeSlot(st.buffers)
           b == [packet |-> st.packet, in_port |-> st.in_port]
           m == [type |-> "packet_in", buffer |-> i, reason |-> reason,
                 packet |-> st.packet, in_port |-> st.in_port]
           buffers == [j \in 1 .. MaxBuffers |-> IF j = i THEN b ELSE st.buffers[j]]
           new == AskController(st, reason)
<1>1. i \in 0 .. MaxBuffers /\ (i # 0 => st.buffers[i] = None)
  BY FreeSlotIs
<1> HIDE DEF i
<1>2. /\ st.packet \in AllPackets /\ st.in_port \in Int /\ st.table = tab /\ st.buffers \in Slots
      /\ st.slots \in SUBSET (0 .. MaxBuffers) /\ st.out \in SUBSET ((DOMAIN ports) \X AllPackets)
      /\ st.told \in Seq(PacketIns) /\ st.last \in {last} \cup { Found(tab, x) : x \in PacketMatches }
      /\ \A k \in st.slots : k # 0 => st.buffers[k] # None
      /\ st = [packet |-> st.packet, in_port |-> st.in_port, table |-> st.table, buffers |-> st.buffers,
               slots |-> st.slots, out |-> st.out, told |-> st.told, last |-> st.last]
  BY DEF States, ProcessRecords
<1>3. m \in PacketIns
  BY <1>1, <1>2 DEF PacketIns
<1>4. b \in Buffered /\ b # None
  BY <1>2, AnyControllerAssumption DEF Buffered
<1>5. buffers \in Slots
  <2>1. \A j \in 1 .. MaxBuffers : st.buffers[j] \in Buffered \cup {None}
    BY <1>2 DEF Slots
  <2> HIDE DEF b
  <2>2. QED BY <1>4, <2>1 DEF Slots
<1>6. new = [packet |-> st.packet, in_port |-> st.in_port, table |-> st.table, buffers |-> buffers,
             slots |-> st.slots \cup {i}, out |-> st.out, told |-> Append(st.told, m), last |-> st.last]
  <2>1. new = [st EXCEPT !.slots = st.slots \cup {i}, !.buffers = buffers, !.told = Append(st.told, m)]
    BY DEF AskController, i
  <2> HIDE DEF new, buffers, m
  <2>2. QED BY <1>2, <2>1
<1>7. \A j \in 1 .. MaxBuffers : buffers[j] = IF j = i THEN b ELSE st.buffers[j]
  OBVIOUS
<1> HIDE DEF buffers, m, b, new
<1>8. new.buffers = buffers /\ new.slots = st.slots \cup {i} /\ new.told = Append(st.told, m)
  BY <1>6
<1>9. Append(st.told, m) \in Seq(PacketIns) /\ st.slots \cup {i} \in SUBSET (0 .. MaxBuffers)
  BY <1>1, <1>2, <1>3
<1>10. new \in ProcessRecords(tab)
  BY <1>2, <1>5, <1>6, <1>9 DEF ProcessRecords
<1>11. ASSUME NEW k \in new.slots, k # 0 PROVE new.buffers[k] # None
  <2>1. k \in 1 .. MaxBuffers /\ (k \in st.slots \/ k = i)
    BY <1>8, <1>9, <1>11, SoftSwitchAssumption
  <2>2. QED BY <1>2, <1>4, <1>7, <1>8, <1>11, <2>1
<1>12. new \in States(tab)
  BY <1>10, <1>11 DEF States
<1>13. QED BY <1>3, <1>7, <1>8, <1>12 DEF new, m, b, i

\* A packet is rewritten in the slots that hold it too.
LEMMA Rewritten ==
    ASSUME NEW tab, NEW st \in States(tab), NEW addr \in Addresses
    PROVE  /\ Rewrite(st, addr) \in States(tab)
           /\ Rewrite(st, addr).told = st.told /\ Rewrite(st, addr).slots = st.slots
           /\ \A j \in 1 .. MaxBuffers : j \notin st.slots => Rewrite(st, addr).buffers[j] = st.buffers[j]
<1> DEFINE buffers == [j \in 1 .. MaxBuffers |->
                         IF j \in st.slots THEN [packet |-> [st.buffers[j].packet EXCEPT !.dst = addr],
                                                 in_port |-> st.buffers[j].in_port]
                         ELSE st.buffers[j]]
           packet == [st.packet EXCEPT !.dst = addr]
           new == Rewrite(st, addr)
<1>1. /\ st.packet \in AllPackets /\ st.in_port \in Int /\ st.table = tab /\ st.buffers \in Slots
      /\ st.slots \in SUBSET (0 .. MaxBuffers) /\ st.out \in SUBSET ((DOMAIN ports) \X AllPackets)
      /\ st.told \in Seq(PacketIns) /\ st.last \in {last} \cup { Found(tab, x) : x \in PacketMatches }
      /\ \A k \in st.slots : k # 0 => st.buffers[k] # None
      /\ st = [packet |-> st.packet, in_port |-> st.in_port, table |-> st.table, buffers |-> st.buffers,
               slots |-> st.slots, out |-> st.out, told |-> st.told, last |-> st.last]
  BY DEF States, ProcessRecords
<1>2. \A x \in AllPackets : [x EXCEPT !.dst = addr] \in AllPackets
  BY DEF AllPackets
<1>3. \A x \in Buffered : x.packet \in AllPackets /\ x.in_port \in Int /\ x # None
  BY AnyControllerAssumption DEF Buffered
<1>4. ASSUME NEW j \in 1 .. MaxBuffers
      PROVE  /\ buffers[j] \in Buffered \cup {None}
             /\ j \in st.slots => buffers[j] # None
             /\ j \notin st.slots => buffers[j] = st.buffers[j]
  <2>1. CASE j \in st.slots
    <3> DEFINE x == st.buffers[j]
    <3>1. x \in Buffered
      <4>1. st.buffers[j] \in Buffered \cup {None}
        BY <1>1 DEF Slots
      <4>2. j # 0 /\ st.buffers[j] # None
        BY <1>1, <2>1
      <4>3. QED BY <4>1, <4>2
    <3>2. buffers[j] = [packet |-> [x.packet EXCEPT !.dst = addr], in_port |-> x.in_port]
      BY <2>1
    <3> HIDE DEF x, buffers
    <3>3. [x.packet EXCEPT !.dst = addr] \in AllPackets /\ x.in_port \in Int
      BY <1>2, <1>3, <3>1
    <3>4. buffers[j] \in Buffered
      BY <3>2, <3>3 DEF Buffered
    <3>5. QED BY <1>3, <2>1, <3>4
  <2>2. CASE j \notin st.slots
    BY <1>1, <2>2 DEF Slots
  <2>3. QED BY <2>1, <2>2
<1>5. buffers \in Slots
  BY <1>4 DEF Slots
<1>6. new = [packet |-> packet, in_port |-> st.in_port, table |-> st.table, buffers |-> buffers,
             slots |-> st.slots, out |-> st.out, told |-> st.told, last |-> st.last]
  <2>1. new = [st EXCEPT !.packet.dst = addr, !.buffers = buffers]
    BY DEF Rewrite
  <2>2. new = [st EXCEPT !.packet = packet, !.buffers = buffers]
    <3> HIDE DEF new, buffers
    <3>1. QED BY <2>1
  <2> HIDE DEF new, buffers, packet
  <2>3. QED BY <1>1, <2>2
<1>7. packet \in AllPackets
  BY <1>1, <1>2
<1> HIDE DEF buffers, new, packet
<1>8. new.buffers = buffers /\ new.slots = st.slots /\ new.told = st.told
  BY <1>6
<1>9. new \in ProcessRecords(tab)
  BY <1>1, <1>5, <1>6, <1>7 DEF ProcessRecords
<1>10. \A k \in new.slots : k # 0 => new.buffers[k] # None
  <2>1. \A k \in st.slots : k # 0 => k \in 1 .. MaxBuffers
    BY <1>1, SoftSwitchAssumption
  <2>2. QED BY <1>4, <1>8, <2>1
<1>11. new \in States(tab)
  BY <1>9, <1>10 DEF States
<1>12. QED BY <1>4, <1>8, <1>11 DEF new

LEMMA ActionKinds ==
    /\ \A a \in EntryActions :
         /\ a.type \in {"controller", "set_dst", "output", "in_port", "flood", "all"}
         /\ a.type = "set_dst" => a.addr \in Addresses
    /\ \A a \in OutActions : a \in EntryActions \/ a.type = "table"
  BY DEF EntryActions, OutActions

LEMMA Sent ==
    ASSUME NEW tab, NEW st \in States(tab), NEW a, a.type \in {"output", "in_port", "flood", "all"}
    PROVE  /\ Do(st, a) \in States(tab)
           /\ Do(st, a).told = st.told /\ Do(st, a).slots = st.slots /\ Do(st, a).buffers = st.buffers
<1> DEFINE out == st.out \cup { <<p, st.packet>> : p \in { q \in Targets(a, st.in_port) : CanSend(q) } }
           new == Do(st, a)
<1>1. /\ st.packet \in AllPackets /\ st.in_port \in Int /\ st.table = tab /\ st.buffers \in Slots
      /\ st.slots \in SUBSET (0 .. MaxBuffers) /\ st.out \in SUBSET ((DOMAIN ports) \X AllPackets)
      /\ st.told \in Seq(PacketIns) /\ st.last \in {last} \cup { Found(tab, x) : x \in PacketMatches }
      /\ \A k \in st.slots : k # 0 => st.buffers[k] # None
      /\ st = [packet |-> st.packet, in_port |-> st.in_port, table |-> st.table, buffers |-> st.buffers,
               slots |-> st.slots, out |-> st.out, told |-> st.told, last |-> st.last]
  BY DEF States, ProcessRecords
<1>2. out \in SUBSET ((DOMAIN ports) \X AllPackets)
  BY <1>1 DEF CanSend
<1>3. new = [st EXCEPT !.out = out]
  BY DEF Do
<1> HIDE DEF out, new
<1>4. new = [packet |-> st.packet, in_port |-> st.in_port, table |-> st.table, buffers |-> st.buffers,
             slots |-> st.slots, out |-> out, told |-> st.told, last |-> st.last]
  BY <1>1, <1>3
<1>5. new.buffers = st.buffers /\ new.slots = st.slots /\ new.told = st.told
  BY <1>4
<1>6. new \in ProcessRecords(tab)
  BY <1>1, <1>2, <1>4 DEF ProcessRecords
<1>7. QED BY <1>1, <1>5, <1>6 DEF States, new

LEMMA DoTyped ==
    ASSUME NEW tab, NEW st \in States(tab), NEW a \in EntryActions
    PROVE  Do(st, a) \in States(tab)
<1>1. CASE a.type = "controller"
  <2>1. Do(st, a) = AskController(st, "ACTION")
    BY <1>1 DEF Do
  <2>2. AskController(st, "ACTION") \in States(tab)
    BY Asked
  <2>3. QED BY <2>1, <2>2
<1>2. CASE a.type = "set_dst"
  <2>1. Do(st, a) = Rewrite(st, a.addr) /\ a.addr \in Addresses
    BY <1>2, ActionKinds DEF Do
  <2>2. QED BY <2>1, Rewritten
<1>3. CASE a.type \in {"output", "in_port", "flood", "all"}
  BY <1>3, Sent
<1>4. QED BY <1>1, <1>2, <1>3, ActionKinds

\* A packet that is looked up: what the table has for it is done, or the
\* controller is asked, or nothing happens.
Hit(st) == [st EXCEPT !.last = Found(st.table, PacketMatch(st))]

LEMMA LookedUp ==
    ASSUME NEW tab \in Seq(Entries), NEW st \in States(tab), PortsTyped
    PROVE  LET e == EntryFor(tab, PacketMatch(st))
           IN  \/ Lookup(st) = st
               \/ /\ PacketMatch(st) \in PacketMatches
                  /\ Hit(st) \in States(tab)
                  /\ Hit(st).told = st.told /\ Hit(st).slots = st.slots /\ Hit(st).buffers = st.buffers
                  /\ \/ e \in Entries /\ Lookup(st) = FoldLeft(Do, Hit(st), e.actions)
                     \/ Lookup(st) = Hit(st)
                     \/ Lookup(st) = AskController(Hit(st), "NO_MATCH")
<1> DEFINE e == EntryFor(tab, PacketMatch(st))
<1>1. /\ st.packet \in AllPackets /\ st.in_port \in Int /\ st.table = tab /\ st.buffers \in Slots
      /\ st.slots \in SUBSET (0 .. MaxBuffers) /\ st.out \in SUBSET ((DOMAIN ports) \X AllPackets)
      /\ st.told \in Seq(PacketIns) /\ st.last \in {last} \cup { Found(tab, x) : x \in PacketMatches }
      /\ \A k \in st.slots : k # 0 => st.buffers[k] # None
      /\ st = [packet |-> st.packet, in_port |-> st.in_port, table |-> st.table, buffers |-> st.buffers,
               slots |-> st.slots, out |-> st.out, told |-> st.told, last |-> st.last]
  BY DEF States, ProcessRecords
<1>2. CASE ~ Receives(st.in_port, st.packet)
  BY <1>2 DEF Lookup
<1>3. CASE Receives(st.in_port, st.packet)
  <2>1. st.in_port \in AllPorts /\ st.packet.src \in Addresses /\ st.packet.dst \in Addresses
    BY <1>1, <1>3 DEF Receives, PortsTyped, AllPackets
  <2>2. PacketMatch(st) \in PacketMatches
    BY <2>1 DEF PacketMatch, PacketMatches
  <2> DEFINE look == Found(tab, PacketMatch(st))
  <2>3. look \in {last} \cup { Found(tab, x) : x \in PacketMatches }
    BY <2>2
  <2>4. Hit(st) = [st EXCEPT !.last = look]
    BY <1>1 DEF Hit
  <2> HIDE DEF look
  <2>5. Hit(st) = [packet |-> st.packet, in_port |-> st.in_port, table |-> st.table, buffers |-> st.buffers,
                   slots |-> st.slots, out |-> st.out, told |-> st.told, last |-> look]
    BY <1>1, <2>4
  <2>6. Hit(st).buffers = st.buffers /\ Hit(st).slots = st.slots /\ Hit(st).told = st.told
    BY <2>5
  <2>7. Hit(st) \in ProcessRecords(tab)
    BY <1>1, <2>3, <2>5 DEF ProcessRecords
  <2>8. Hit(st) \in States(tab)
    BY <1>1, <2>6, <2>7 DEF States
  <2>9. Hit(st) = [st EXCEPT !.last = [packet |-> PacketMatch(st), entry |-> e]]
    BY <1>1 DEF Hit, Found
  <2>10. Lookup(st) = IF e # None THEN FoldLeft(Do, Hit(st), e.actions)
                      ELSE IF "NO_PACKET_IN" \in ports[st.in_port] THEN Hit(st)
                      ELSE AskController(Hit(st), "NO_MATCH")
    BY <1>1, <1>3, <2>9 DEF Lookup
  <2>11. e = None \/ e \in Entries
    BY FirstEntry
  <2> HIDE DEF e
  <2>12. QED BY <2>2, <2>6, <2>8, <2>10, <2>11 DEF e
<1>4. QED BY <1>2, <1>3

LEMMA LookupTyped ==
    ASSUME NEW tab \in Seq(Entries), NEW st \in States(tab), PortsTyped
    PROVE  Lookup(st) \in States(tab)
<1>1. ASSUME NEW hit \in States(tab), NEW e \in Entries
      PROVE  FoldLeft(Do, hit, e.actions) \in States(tab)
  <2>1. e.actions \in Seq(EntryActions)
    BY EntryTypes
  <2> DEFINE actions == e.actions
             S == States(tab)
  <2>2. \A u \in S, a \in EntryActions : Do(u, a) \in S
    BY DoTyped
  <2> HIDE DEF actions, S
  <2>3. actions \in Seq(EntryActions) /\ hit \in S
    BY <1>1, <2>1 DEF actions, S
  <2>4. PICK h \in Runs(S, hit, actions) : FoldLeft(Do, hit, actions) = h[Len(actions)]
    <3>1. FoldLeft(Do, hit, actions) \in { h[Len(actions)] : h \in Runs(S, hit, actions) }
      BY <2>2, <2>3, DoChain
    <3>2. QED BY <3>1
  <2>5. h \in [0 .. Len(actions) -> S] /\ Len(actions) \in 0 .. Len(actions)
    BY <2>3, <2>4 DEF Runs
  <2>6. h[Len(actions)] \in S
    BY <2>5
  <2>7. QED BY <2>4, <2>6 DEF S, actions
<1>2. \A hit \in States(tab) : AskController(hit, "NO_MATCH") \in States(tab)
  BY Asked
<1>3. QED BY <1>1, <1>2, LookedUp

LEMMA DoAnyTyped ==
    ASSUME NEW tab \in Seq(Entries), NEW st \in States(tab), NEW a \in OutActions, PortsTyped
    PROVE  DoAny(st, a) \in States(tab)
<1>1. CASE a.type = "table"
  BY <1>1, LookupTyped DEF DoAny
<1>2. CASE a.type # "table"
  BY <1>2, ActionKinds, DoTyped DEF DoAny
<1>3. QED BY <1>1, <1>2

LEMMA ProcessTyped ==
    ASSUME NEW tab \in Seq(Entries), NEW st \in States(tab), NEW actions \in Seq(OutActions), PortsTyped
    PROVE  /\ Process(actions, st) \in States(tab)
           /\ Process(actions, st) \in { h[Len(actions)] : h \in RunsAny(States(tab), st, actions) }
<1> DEFINE S == States(tab)
<1>1. \A u \in S, a \in OutActions : DoAny(u, a) \in S
  BY DoAnyTyped
<1> HIDE DEF S
<1>2. st \in S /\ actions \in Seq(OutActions)
  BY DEF S
<1>3. PICK h \in RunsAny(S, st, actions) : Process(actions, st) = h[Len(actions)]
  <2>1. FoldLeft(DoAny, st, actions) \in { h[Len(actions)] : h \in RunsAny(S, st, actions) }
    BY <1>1, <1>2, DoAnyChain
  <2>2. QED BY <2>1 DEF Process
<1>4. h \in [0 .. Len(actions) -> S] /\ Len(actions) \in 0 .. Len(actions)
  BY <1>2, <1>3 DEF RunsAny
<1>5. h[Len(actions)] \in S
  BY <1>4
<1>6. QED BY <1>3, <1>5 DEF S

LEMMA StartTyped ==
    ASSUME NEW tab, NEW packet \in AllPackets, NEW p \in Int, packetBuffer \in Slots
    PROVE  /\ Start(packet, p, tab) \in States(tab)
           /\ Start(packet, p, tab).told = <<>> /\ Start(packet, p, tab).slots = {}
           /\ Start(packet, p, tab).buffers = packetBuffer /\ Start(packet, p, tab).in_port = p
           /\ Start(packet, p, tab).packet = packet
  BY DEF Start, States, ProcessRecords

LEMMA SeqWider ==
    ASSUME NEW A, NEW B, A \subseteq B, NEW s \in Seq(A)
    PROVE  s \in Seq(B)
<1>1. Len(s) \in Nat /\ s \in [1 .. Len(s) -> B]
  <2>1. s \in [1 .. Len(s) -> A] /\ Len(s) \in Nat
    OBVIOUS
  <2>2. QED BY <2>1
<1>2. QED BY <1>1

LEMMA Joined ==
    ASSUME NEW S, NEW a \in Seq(S), NEW b \in Seq(S)
    PROVE  /\ a \o b \in Seq(S) /\ Len(a \o b) = Len(a) + Len(b)
           /\ \A i \in 1 .. Len(a) : (a \o b)[i] = a[i]
           /\ \A i \in 1 .. Len(b) : (a \o b)[Len(a) + i] = b[i]
  OBVIOUS

Lasts == [packet : PacketMatches, entry : Entries \cup {None}] \cup {None}

\* What becomes of the packet of a buffer.
LEMMA FromBuffer ==
    ASSUME NEW tab \in Seq(Entries), NEW actions \in Seq(OutActions), NEW i \in 0 .. MaxBuffers,
           PortsTyped, packetBuffer \in Slots
    PROVE  \/ /\ i = 0 \/ packetBuffer[i] = None
              /\ ProcessBuffered(actions, i, tab) = Start(None, None, tab)
           \/ /\ i \in 1 .. MaxBuffers /\ packetBuffer[i] \in Buffered
              /\ LET first == Start(packetBuffer[i].packet, packetBuffer[i].in_port, tab)
                     final == Process(actions, first)
                 IN  /\ first \in States(tab) /\ final \in States(tab)
                     /\ ProcessBuffered(actions, i, tab) = [final EXCEPT !.buffers[i] = None]
<1>1. CASE i = 0 \/ packetBuffer[i] = None
  BY <1>1 DEF ProcessBuffered
<1>2. CASE ~ (i = 0 \/ packetBuffer[i] = None)
  <2>1. i \in 1 .. MaxBuffers
    BY <1>2, SoftSwitchAssumption
  <2>2. packetBuffer[i] \in Buffered
    <3>1. packetBuffer[i] \in Buffered \cup {None}
      BY <2>1 DEF Slots
    <3>2. QED BY <1>2, <3>1
  <2>3. packetBuffer[i].packet \in AllPackets /\ packetBuffer[i].in_port \in Int
    BY <2>2 DEF Buffered
  <2> DEFINE first == Start(packetBuffer[i].packet, packetBuffer[i].in_port, tab)
             final == Process(actions, first)
  <2>4. first \in States(tab)
    BY <2>3, StartTyped
  <2>5. ProcessBuffered(actions, i, tab) = [final EXCEPT !.buffers[i] = None]
    BY <1>2 DEF ProcessBuffered
  <2> HIDE DEF first
  <2>6. final \in States(tab)
    BY <2>4, ProcessTyped
  <2>7. QED BY <2>1, <2>2, <2>4, <2>5, <2>6 DEF first
<1>3. QED BY <1>1, <1>2

\* What is committed in the end.
Outcomes(tab) ==
    [packet : AllPackets \cup {None}, in_port : Int \cup {None}, table : {tab}, buffers : Slots,
     slots : SUBSET (0 .. MaxBuffers), out : SUBSET ((DOMAIN ports) \X AllPackets), told : Seq(PacketIns),
     last : {last} \cup { Found(tab, m) : m \in PacketMatches }]

LEMMA Outcome ==
    ASSUME NEW tab \in Seq(Entries), NEW actions \in Seq(OutActions), NEW i \in 0 .. MaxBuffers,
           PortsTyped, packetBuffer \in Slots
    PROVE  /\ States(tab) \subseteq Outcomes(tab)
           /\ ProcessBuffered(actions, i, tab) \in Outcomes(tab)
<1>1. States(tab) \subseteq Outcomes(tab)
  BY DEF States, ProcessRecords, Outcomes
<1>2. Start(None, None, tab) \in Outcomes(tab)
  BY DEF Start, Outcomes
<1>3. ASSUME NEW st \in States(tab), i \in 1 .. MaxBuffers PROVE [st EXCEPT !.buffers[i] = None] \in Outcomes(tab)
  <2> DEFINE b == [st.buffers EXCEPT ![i] = None]
  <2>1. b \in Slots
    BY <1>3 DEF States, ProcessRecords, Slots
  <2> HIDE DEF b
  <2>2. [st EXCEPT !.buffers = b] \in Outcomes(tab)
    <3>1. st \in Outcomes(tab)
      BY <1>1
    <3>2. QED BY <2>1, <3>1 DEF Outcomes
  <2>3. [st EXCEPT !.buffers[i] = None] = [st EXCEPT !.buffers = b]
    BY DEF b
  <2>4. QED BY <2>2, <2>3
<1>4. QED
  <2> DEFINE r == ProcessBuffered(actions, i, tab)
  <2>1. \/ r = Start(None, None, tab)
        \/ i \in 1 .. MaxBuffers /\ \E st \in States(tab) : r = [st EXCEPT !.buffers[i] = None]
    BY FromBuffer
  <2> HIDE DEF r
  <2>2. r \in Outcomes(tab)
    BY <1>2, <1>3, <2>1
  <2>3. QED BY <1>1, <2>2 DEF r

LEMMA Committed ==
    ASSUME TypeOK, NEW tab \in Seq(Entries), NEW st \in Outcomes(tab), NEW said \in Seq(Messages),
           Commit(st, said)
    PROVE  /\ packetBuffer' \in Slots
           /\ emitted' \subseteq (DOMAIN ports) \X AllPackets
           /\ last' \in Lasts
           /\ toController' \in Seq(Messages)
<1>1. /\ st.buffers \in Slots /\ st.out \in SUBSET ((DOMAIN ports) \X AllPackets)
      /\ st.told \in Seq(PacketIns) /\ st.last \in {last} \cup { Found(tab, m) : m \in PacketMatches }
  BY DEF Outcomes
<1>2. \A m \in PacketMatches : Found(tab, m) \in Lasts
  <2>1. \A m : EntryFor(tab, m) \in Entries \cup {None}
    BY FirstEntry
  <2>2. QED BY <2>1 DEF Found, Lasts
<1>3. last \in Lasts /\ toController \in Seq(Messages)
  BY DEF TypeOK, Lasts
<1>4. st.told \in Seq(Messages)
  <2>1. PacketIns \subseteq Messages
    BY DEF Messages
  <2>2. QED BY <1>1, <2>1, SeqWider
<1>5. toController \o said \o st.told \in Seq(Messages)
  <2>1. toController \o said \in Seq(Messages)
    BY <1>3
  <2>2. QED BY <1>4, <2>1
<1>6. QED BY <1>1, <1>2, <1>3, <1>5 DEF Commit

LEMMA SaidTyped ==
    ASSUME TypeOK, NEW said \in Seq(Messages), Say(said)
    PROVE  packetBuffer' \in Slots /\ emitted' = {} /\ last' \in Lasts /\ toController' \in Seq(Messages)
<1>1. toController \in Seq(Messages) /\ packetBuffer \in Slots /\ last \in Lasts
  BY DEF TypeOK, Slots, Lasts
<1>2. QED BY <1>1 DEF Say

LEMMA RemovedTyped ==
    ASSUME NEW removed \in Seq(Entries)
    PROVE  FlowsRemoved(removed) \in Seq(Messages)
<1>1. \A i \in 1 .. Len(removed) : [type |-> "flow_removed", entry |-> removed[i]] \in Messages
  <2>1. \A e \in Entries : [type |-> "flow_removed", entry |-> e] \in Messages
    BY DEF Messages
  <2>2. QED BY <2>1
<1>2. FlowsRemoved(removed) = [i \in 1 .. Len(removed) |-> [type |-> "flow_removed", entry |-> removed[i]]]
  BY DEF FlowsRemoved
<1>3. QED BY <1>1, <1>2

-----------------------------------------------------------------------------
(* Types.                                                                   *)

LEMMA TypeParts ==
    ASSUME TypeOK
    PROVE  /\ table \in Seq(Entries) /\ packetBuffer \in Slots /\ PortsTyped
           /\ toController \in Seq(Messages) /\ last \in Lasts
           /\ \A b \in Ids : b \in 0 .. MaxBuffers
<1>1. \A h \in held : h.buffer \in 0 .. MaxBuffers
  BY DEF TypeOK, PacketIns
<1>2. 0 \in 0 .. MaxBuffers
  BY SoftSwitchAssumption
<1>3. \A b \in Ids : b \in 0 .. MaxBuffers
  BY <1>1, <1>2 DEF Ids
<1>4. QED BY <1>3 DEF TypeOK, Slots, PortsTyped, Lasts

LEMMA RequestActions ==
    /\ \A fm \in FlowMods : fm.actions \in Seq(OutActions)
    /\ \A po \in PacketOuts : /\ po.actions \in Seq(OutActions) /\ po.packet \in AllPackets \cup {None}
                              /\ po.in_port \in Int /\ po \in PacketOutMessages
<1>1. EntryActions \subseteq OutActions
  BY DEF OutActions
<1>2. \A fm \in FlowMods : fm.actions \in Seq(OutActions)
  <2>1. TAKE fm \in FlowMods
  <2>2. fm.actions \in Seq(EntryActions)
    BY Requested
  <2> DEFINE a == fm.actions
  <2> HIDE DEF a
  <2>3. a \in Seq(EntryActions)
    BY <2>2 DEF a
  <2>4. a \in Seq(OutActions)
    BY <1>1, <2>3, SeqWider
  <2>5. QED BY <2>4 DEF a
<1>3. \A po \in PacketOuts : po \in PacketOutMessages
  BY AnyControllerAssumption
<1>4. QED BY <1>2, <1>3 DEF PacketOutMessages

\* A request names a buffer of which the controller has heard.
LEMMA PacketOutFor ==
    ASSUME NEW po \in PacketOuts, NEW b
    PROVE  LET q == [po EXCEPT !.buffer = b]
           IN  q.actions = po.actions /\ q.packet = po.packet /\ q.in_port = po.in_port /\ q.buffer = b
<1>1. po \in PacketOutMessages
  BY RequestActions
<1>2. QED BY <1>1 DEF PacketOutMessages

LEMMA FlowModFor ==
    ASSUME NEW fm \in FlowMods, NEW b
    PROVE  LET g == [fm EXCEPT !.buffer = b] IN g.actions = fm.actions /\ g.buffer = b
<1>1. fm \in FlowModMessages
  BY Requested
<1>2. QED BY <1>1 DEF FlowModMessages

\* The messages that a step sends, and where they come from.
LEMMA ErrorOrNone ==
    /\ <<>> \in Seq(Messages) /\ <<Error>> \in Seq(Messages)
    /\ \A removed \in Seq(Entries), e \in BOOLEAN : FlowsRemoved(removed) \o (IF e THEN <<Error>> ELSE <<>>) \in Seq(Messages)
<1>1. Error \in Messages
  BY DEF Messages
<1>2. <<>> \in Seq(Messages) /\ <<Error>> \in Seq(Messages)
  BY <1>1
<1>3. ASSUME NEW removed \in Seq(Entries), NEW e \in BOOLEAN
      PROVE  FlowsRemoved(removed) \o (IF e THEN <<Error>> ELSE <<>>) \in Seq(Messages)
  <2> DEFINE a == FlowsRemoved(removed)
             b == IF e THEN <<Error>> ELSE <<>>
  <2>1. a \in Seq(Messages) /\ b \in Seq(Messages)
    BY <1>2, RemovedTyped
  <2> HIDE DEF a, b
  <2>2. a \o b \in Seq(Messages)
    BY <2>1
  <2>3. QED BY <2>2 DEF a, b
<1>4. QED BY <1>2, <1>3

LEMMA StatusTyped ==
    ASSUME NEW p \in AllPorts, NEW reason \in {"ADD", "DELETE", "MODIFY"}, NEW down \in BOOLEAN
    PROVE  <<[type |-> "port_status", port |-> p, reason |-> reason, down |-> down]>> \in Seq(Messages)
<1> DEFINE m == [type |-> "port_status", port |-> p, reason |-> reason, down |-> down]
<1>1. m \in Messages
  BY DEF PortStatus, Messages
<1> HIDE DEF m
<1>2. <<m>> \in Seq(Messages)
  BY <1>1
<1>3. QED BY <1>2 DEF m

LEMMA RemovedKinds ==
    ASSUME NEW removed \in Seq(Entries)
    PROVE  /\ \A i \in 1 .. Len(FlowsRemoved(removed)) : FlowsRemoved(removed)[i].type = "flow_removed"
           /\ \A e \in BOOLEAN : LET said == FlowsRemoved(removed) \o (IF e THEN <<Error>> ELSE <<>>)
                                 IN  \A i \in 1 .. Len(said) : said[i].type \in {"flow_removed", "error"}
<1> DEFINE a == FlowsRemoved(removed)
<1>1. a = [i \in 1 .. Len(removed) |-> [type |-> "flow_removed", entry |-> removed[i]]] /\ a \in Seq(Messages)
      /\ Len(removed) \in Nat
  BY RemovedTyped DEF FlowsRemoved
<1>2. Len(a) = Len(removed) /\ \A i \in 1 .. Len(a) : a[i].type = "flow_removed"
  <2>1. DOMAIN a = 1 .. Len(removed) /\ \A i \in 1 .. Len(removed) : a[i].type = "flow_removed"
    BY <1>1
  <2> HIDE DEF a
  <2>2. DOMAIN a = 1 .. Len(a)
    BY <1>1
  <2>3. Len(a) = Len(removed)
    <3>1. Len(a) \in Nat
      BY <1>1
    <3>2. QED BY <1>1, <2>1, <2>2, <3>1
  <2>4. QED BY <2>1, <2>3
<1> HIDE DEF a
<1>3. ASSUME NEW e \in BOOLEAN,
             NEW i \in 1 .. Len(a \o (IF e THEN <<Error>> ELSE <<>>))
      PROVE  (a \o (IF e THEN <<Error>> ELSE <<>>))[i].type \in {"flow_removed", "error"}
  <2> DEFINE b == IF e THEN <<Error>> ELSE <<>>
  <2>1. b \in Seq(Messages) /\ \A j \in 1 .. Len(b) : b[j].type = "error"
    BY ErrorOrNone DEF Error
  <2> HIDE DEF b
  <2>2. /\ Len(a \o b) = Len(a) + Len(b) /\ Len(a) \in Nat /\ Len(b) \in Nat
        /\ \A j \in 1 .. Len(a) : (a \o b)[j] = a[j]
        /\ \A j \in 1 .. Len(b) : (a \o b)[Len(a) + j] = b[j]
    BY <1>1, <2>1, Joined
  <2>3. i \in 1 .. Len(a \o b)
    BY DEF b
  <2>4. i \in 1 .. Len(a) \/ (i - Len(a) \in 1 .. Len(b) /\ Len(a) + (i - Len(a)) = i)
    BY <2>2, <2>3
  <2>5. (a \o b)[i].type \in {"flow_removed", "error"}
    BY <1>2, <2>1, <2>2, <2>4
  <2>6. QED BY <2>5 DEF b
<1>4. QED BY <1>2, <1>3 DEF a

\* What the three kinds of requests about packets commit.
LEMMA PacketCommits ==
    ASSUME TypeOK, PacketArrives
    PROVE  /\ \E st \in Outcomes(table) : Commit(st, <<>>)
           /\ UNCHANGED <<table, ports, held, known>>
<1>1. PICK packet \in Packets, p \in AllPorts : RxPacket(packet, p)
  BY DEF PacketArrives
<1>2. /\ table \in Seq(Entries) /\ packetBuffer \in Slots /\ PortsTyped
  BY TypeParts
<1> DEFINE st == Start(packet, p, table)
           r == Lookup(st)
<1>3. packet \in AllPackets /\ p \in Int
  BY AnyControllerAssumption
<1>4. st \in States(table)
  BY <1>2, <1>3, StartTyped
<1>5. Commit(r, <<>>) /\ UNCHANGED <<table, ports, held, known>>
  BY <1>1 DEF RxPacket, PacketArrives
<1> HIDE DEF st
<1>6. r \in States(table)
  BY <1>2, <1>4, LookupTyped
<1>7. r \in Outcomes(table)
  BY <1>2, <1>6 DEF States, ProcessRecords, Outcomes
<1> HIDE DEF r
<1>8. QED BY <1>5, <1>7

LEMMA FlowModCommits ==
    ASSUME TypeOK, NEW fm \in FlowMods, NEW b \in Ids, RxFlowMod([fm EXCEPT !.buffer = b])
    PROVE  LET r == FlowMod(table, fm)
               st == ProcessBuffered(fm.actions, b, r.table)
               said == FlowsRemoved(r.removed) \o (IF r.error THEN <<Error>> ELSE <<>>)
           IN  /\ table' = r.table /\ r.table \in Seq(Entries) /\ ports' = ports
               /\ st \in Outcomes(r.table) /\ Commit(st, said) /\ said \in Seq(Messages)
               /\ \A i \in 1 .. Len(said) : said[i].type \in {"flow_removed", "error"}
<1>2. /\ table \in Seq(Entries) /\ packetBuffer \in Slots /\ PortsTyped /\ b \in 0 .. MaxBuffers
  BY TypeParts
<1> DEFINE g == [fm EXCEPT !.buffer = b]
           r == FlowMod(table, fm)
           st == ProcessBuffered(fm.actions, b, r.table)
           said == FlowsRemoved(r.removed) \o (IF r.error THEN <<Error>> ELSE <<>>)
<1>3. g.actions = fm.actions /\ g.buffer = b /\ FlowMod(table, g) = r
  BY FlowModFor, BufferIgnored
<1>4. Commit(st, said) /\ table' = r.table /\ ports' = ports
  BY <1>3 DEF RxFlowMod
<1>5. r.table \in Seq(Entries) /\ r.removed \in Seq(Entries) /\ r.error \in BOOLEAN
  <2>1. r \in Results
    BY <1>2, FlowModTyped
  <2> HIDE DEF r
  <2>2. QED BY <2>1 DEF Results
<1> DEFINE tab == r.table
           actions == fm.actions
           removed == r.removed
           e == r.error
<1>6. actions \in Seq(OutActions)
  BY RequestActions
<1> HIDE DEF tab, actions, removed, e, r
<1>7. ProcessBuffered(actions, b, tab) \in Outcomes(tab)
  BY <1>2, <1>5, <1>6, Outcome DEF tab
<1>8. st \in Outcomes(tab)
  BY <1>7 DEF tab, actions
<1>9. said \in Seq(Messages) /\ \A i \in 1 .. Len(said) : said[i].type \in {"flow_removed", "error"}
  <2>1. removed \in Seq(Entries) /\ e \in BOOLEAN
    BY <1>5 DEF removed, e
  <2> DEFINE s == FlowsRemoved(removed) \o (IF e THEN <<Error>> ELSE <<>>)
  <2>2. s \in Seq(Messages)
    BY <2>1, ErrorOrNone
  <2>3. \A i \in 1 .. Len(s) : s[i].type \in {"flow_removed", "error"}
    BY <2>1, RemovedKinds
  <2>4. s = said
    BY DEF removed, e
  <2> HIDE DEF s, said
  <2>5. QED BY <2>2, <2>3, <2>4
<1> HIDE DEF st, said
<1>10. /\ table' = r.table /\ r.table \in Seq(Entries) /\ ports' = ports
       /\ st \in Outcomes(r.table) /\ Commit(st, said) /\ said \in Seq(Messages)
       /\ \A i \in 1 .. Len(said) : said[i].type \in {"flow_removed", "error"}
  BY <1>4, <1>5, <1>8, <1>9 DEF tab
<1>11. QED BY <1>10 DEF st, said, r

LEMMA PacketOutCommits ==
    ASSUME TypeOK, PacketOutArrives
    PROVE  /\ \E st \in Outcomes(table) : Commit(st, <<>>)
           /\ \E b \in Ids : Answer(b)
           /\ UNCHANGED <<table, ports, known>>
<1>1. PICK po \in PacketOuts, b \in Ids :
        (po.packet = None \/ b = 0) /\ RxPacketOut([po EXCEPT !.buffer = b]) /\ Answer(b)
  BY DEF PacketOutArrives
<1>2. /\ table \in Seq(Entries) /\ packetBuffer \in Slots /\ PortsTyped /\ b \in 0 .. MaxBuffers
  BY TypeParts
<1>3. /\ po.actions \in Seq(OutActions) /\ po.packet \in AllPackets \cup {None} /\ po.in_port \in Int
  BY RequestActions
<1>4. PICK st \in Outcomes(table) : Commit(st, <<>>)
  <2> DEFINE actions == po.actions
             packet == po.packet
             q == [po EXCEPT !.buffer = b]
  <2>1. q.actions = actions /\ q.packet = packet /\ q.in_port = po.in_port /\ q.buffer = b
    BY PacketOutFor
  <2>2. actions \in Seq(OutActions)
    BY <1>3
  <2>3. CASE packet # None
    <3> DEFINE first == Start(packet, po.in_port, table)
               r == Process(actions, first)
    <3>1. Commit(r, <<>>)
      BY <1>1, <2>1, <2>3 DEF RxPacketOut
    <3>2. first \in States(table)
      BY <1>2, <1>3, <2>3, StartTyped
    <3> HIDE DEF first, actions
    <3>3. r \in States(table)
      BY <1>2, <2>2, <3>2, ProcessTyped
    <3> HIDE DEF r
    <3>4. r \in Outcomes(table)
      BY <3>3 DEF States, ProcessRecords, Outcomes
    <3>5. QED BY <3>1, <3>4
  <2>4. CASE packet = None
    <3> DEFINE r == ProcessBuffered(actions, b, table)
    <3>1. Commit(r, <<>>)
      BY <1>1, <2>1, <2>4 DEF RxPacketOut
    <3> HIDE DEF actions
    <3>2. r \in Outcomes(table)
      BY <1>2, <2>2, Outcome
    <3> HIDE DEF r
    <3>3. QED BY <3>1, <3>2
  <2>5. QED BY <2>3, <2>4
<1>5. UNCHANGED <<table, ports, known>>
  BY <1>1 DEF RxPacketOut, PacketOutArrives
<1>6. QED BY <1>1, <1>4, <1>5

LEMMA TypesInit == Init => TypeOK
<1>1. SUFFICES ASSUME Init PROVE TypeOK
  OBVIOUS
<1>2. /\ table \in Seq(Entries) /\ toController \in Seq(Messages)
  BY <1>1 DEF Init
<1>3. packetBuffer \in [1 .. MaxBuffers -> Buffered \cup {None}]
  BY <1>1 DEF Init
<1>4. DOMAIN ports \subseteq AllPorts /\ \A p \in DOMAIN ports : ports[p] \subseteq ConfigBits
  BY <1>1 DEF Init, AllPorts
<1>5. emitted \subseteq (DOMAIN ports) \X AllPackets /\ held \subseteq PacketIns /\ \A m \in held : m.buffer # 0
  BY <1>1 DEF Init
<1>6. last \in [packet : PacketMatches, entry : Entries \cup {None}] \cup {None}
  BY <1>1 DEF Init
<1>7. known \subseteq AllPorts \X BOOLEAN
  <2>1. known = { <<p, FALSE>> : p \in FirstPorts }
    BY <1>1 DEF Init
  <2>2. \A p \in FirstPorts : <<p, FALSE>> \in AllPorts \X BOOLEAN
    BY DEF AllPorts
  <2>3. QED BY <2>1, <2>2
<1>8. QED BY <1>2, <1>3, <1>4, <1>5, <1>6, <1>7 DEF TypeOK

LEMMA TypesPacket ==
    ASSUME TypeOK, PacketArrives
    PROVE  TypeOK'
<1>1. PICK st \in Outcomes(table) : Commit(st, <<>>)
  BY PacketCommits
<1>2. UNCHANGED <<table, ports, held, known>> /\ table \in Seq(Entries)
  BY PacketCommits, TypeParts
<1>3. /\ packetBuffer' \in Slots /\ emitted' \subseteq (DOMAIN ports) \X AllPackets
      /\ last' \in Lasts /\ toController' \in Seq(Messages)
  BY <1>1, <1>2, Committed, ErrorOrNone
<1>4. QED BY <1>2, <1>3 DEF TypeOK, Slots, Lasts

LEMMA TypesFlowMod ==
    ASSUME TypeOK, FlowModArrives
    PROVE  TypeOK'
<1>1. PICK fm \in FlowMods, b \in Ids : RxFlowMod([fm EXCEPT !.buffer = b]) /\ Answer(b)
  BY DEF FlowModArrives
<1> DEFINE r == FlowMod(table, fm)
           st == ProcessBuffered(fm.actions, b, r.table)
           said == FlowsRemoved(r.removed) \o (IF r.error THEN <<Error>> ELSE <<>>)
<1>2. /\ table' = r.table /\ r.table \in Seq(Entries) /\ ports' = ports
      /\ st \in Outcomes(r.table) /\ Commit(st, said) /\ said \in Seq(Messages)
  BY <1>1, FlowModCommits
<1> HIDE DEF r, st, said
<1>3. /\ packetBuffer' \in Slots /\ emitted' \subseteq (DOMAIN ports) \X AllPackets
      /\ last' \in Lasts /\ toController' \in Seq(Messages)
  BY <1>2, Committed
<1>4. held' \subseteq PacketIns /\ \A m \in held' : m.buffer # 0
  BY <1>1 DEF TypeOK, Answer
<1>5. known' = known
  BY DEF FlowModArrives
<1>6. QED BY <1>2, <1>3, <1>4, <1>5 DEF TypeOK, Slots, Lasts

LEMMA TypesPacketOut ==
    ASSUME TypeOK, PacketOutArrives
    PROVE  TypeOK'
<1>1. PICK st \in Outcomes(table) : Commit(st, <<>>)
  BY PacketOutCommits
<1>2. UNCHANGED <<table, ports, known>> /\ table \in Seq(Entries)
  BY PacketOutCommits, TypeParts
<1>3. /\ packetBuffer' \in Slots /\ emitted' \subseteq (DOMAIN ports) \X AllPackets
      /\ last' \in Lasts /\ toController' \in Seq(Messages)
  BY <1>1, <1>2, Committed, ErrorOrNone
<1>4. held' \subseteq PacketIns /\ \A m \in held' : m.buffer # 0
  BY PacketOutCommits DEF TypeOK, Answer
<1>5. QED BY <1>2, <1>3, <1>4 DEF TypeOK, Slots, Lasts

LEMMA TypesPortMod ==
    ASSUME TypeOK, PortModArrives
    PROVE  TypeOK'
<1>1. PICK p \in AllPorts, bit \in Bits, on \in BOOLEAN : RxPortMod(p, {bit}, IF on THEN {bit} ELSE {})
  BY DEF PortModArrives
<1>2. UNCHANGED <<table, held, known>>
  BY <1>1 DEF RxPortMod, PortModArrives
<1>3. bit \in ConfigBits
  BY AnyControllerAssumption
<1>4. CASE p \notin DOMAIN ports
  <2>1. Say(<<Error>>) /\ UNCHANGED ports
    BY <1>1, <1>4 DEF RxPortMod
  <2>2. packetBuffer' \in Slots /\ emitted' = {} /\ last' \in Lasts /\ toController' \in Seq(Messages)
    BY <2>1, SaidTyped, ErrorOrNone
  <2>3. QED BY <1>2, <2>1, <2>2 DEF TypeOK, Slots, Lasts
<1>5. CASE p \in DOMAIN ports
  <2> DEFINE new == (ports[p] \ {bit}) \cup ((IF on THEN {bit} ELSE {}) \cap {bit})
             said == IF ("PORT_DOWN" \in new) = ("PORT_DOWN" \in ports[p]) THEN <<>>
                     ELSE <<[type |-> "port_status", port |-> p, reason |-> "MODIFY", down |-> "PORT_DOWN" \in new]>>
  <2>1. ports' = [ports EXCEPT ![p] = new] /\ Say(said)
    BY <1>1, <1>5 DEF RxPortMod
  <2>2. new \subseteq ConfigBits
    BY <1>3, <1>5 DEF TypeOK
  <2>3. said \in Seq(Messages)
    <3> DEFINE down == "PORT_DOWN" \in new
    <3>1. down \in BOOLEAN
      OBVIOUS
    <3> HIDE DEF down
    <3>2. <<[type |-> "port_status", port |-> p, reason |-> "MODIFY", down |-> down]>> \in Seq(Messages)
      BY <3>1, StatusTyped
    <3>3. QED BY <3>2, ErrorOrNone DEF down
  <2> HIDE DEF new, said
  <2>4. packetBuffer' \in Slots /\ emitted' = {} /\ last' \in Lasts /\ toController' \in Seq(Messages)
    BY <2>1, <2>3, SaidTyped
  <2>5. DOMAIN ports' \subseteq AllPorts /\ \A x \in DOMAIN ports' : ports'[x] \subseteq ConfigBits
    BY <2>1, <2>2 DEF TypeOK
  <2>6. QED BY <1>2, <2>4, <2>5 DEF TypeOK, Slots, Lasts
<1>6. QED BY <1>4, <1>5

LEMMA TypesPorts ==
    ASSUME TypeOK, PortsChange
    PROVE  TypeOK'
<1>1. PICK p \in LatePorts : AddPort(p) \/ DeletePort(p)
  BY DEF PortsChange
<1>2. UNCHANGED <<table, held, known>>
  BY <1>1 DEF AddPort, DeletePort, PortsChange
<1>3. p \in AllPorts
  BY DEF AllPorts
<1>4. PICK reason \in {"ADD", "DELETE", "MODIFY"} :
        Say(<<[type |-> "port_status", port |-> p, reason |-> reason, down |-> FALSE]>>)
  BY <1>1 DEF AddPort, DeletePort
<1>5. packetBuffer' \in Slots /\ emitted' = {} /\ last' \in Lasts /\ toController' \in Seq(Messages)
  <2> DEFINE said == <<[type |-> "port_status", port |-> p, reason |-> reason, down |-> FALSE]>>
  <2>1. said \in Seq(Messages)
    BY <1>3, StatusTyped
  <2>2. Say(said)
    BY <1>4
  <2> HIDE DEF said
  <2>3. QED BY <2>1, <2>2, SaidTyped
<1>6. DOMAIN ports' \subseteq AllPorts /\ \A x \in DOMAIN ports' : ports'[x] \subseteq ConfigBits
  <2>1. CASE AddPort(p)
    <3>1. ports' = [q \in DOMAIN ports \cup {p} |-> IF q = p THEN {} ELSE ports[q]]
      BY <2>1 DEF AddPort
    <3>2. QED BY <1>3, <3>1 DEF TypeOK
  <2>2. CASE DeletePort(p)
    <3>1. ports' = [q \in DOMAIN ports \ {p} |-> ports[q]]
      BY <2>2 DEF DeletePort
    <3>2. QED BY <3>1 DEF TypeOK
  <2>3. QED BY <1>1, <2>1, <2>2
<1>7. QED BY <1>2, <1>5, <1>6 DEF TypeOK, Slots, Lasts

LEMMA TypesExpiry ==
    ASSUME TypeOK, Expiry
    PROVE  TypeOK'
<1>1. PICK idle \in SUBSET { e \in ToSet(table) : e.idle }, hard \in SUBSET { e \in ToSet(table) : e.hard } :
        RemoveExpiredEntries(idle, hard)
  BY DEF Expiry
<1> DEFINE r == RemoveExpired(table, idle, hard)
           removed == r.removed
<1>2. table' = r.table /\ Say(FlowsRemoved(removed)) /\ UNCHANGED <<ports, held, known>>
  BY <1>1 DEF RemoveExpiredEntries, Expiry
<1>3. r.table \in Seq(Entries) /\ removed \in Seq(Entries)
  BY TypeParts, ExpiredTyped
<1> HIDE DEF removed
<1>4. FlowsRemoved(removed) \in Seq(Messages)
  BY <1>3, RemovedTyped
<1>5. packetBuffer' \in Slots /\ emitted' = {} /\ last' \in Lasts /\ toController' \in Seq(Messages)
  BY <1>2, <1>4, SaidTyped
<1>6. QED BY <1>2, <1>3, <1>5 DEF TypeOK, Slots, Lasts

\* The message that the controller takes is one of those sent.
LEMMA Taken ==
    ASSUME TypeOK, TakeMessage
    PROVE  /\ Len(toController) \in Nat /\ Len(toController) # 0 /\ toController # <<>>
           /\ Head(toController) = toController[1] /\ Head(toController) \in Messages
           /\ toController' \in Seq(Messages) /\ Len(toController') = Len(toController) - 1
           /\ \A i \in 1 .. Len(toController) - 1 : toController'[i] = toController[i + 1]
  BY DEF TypeOK, TakeMessage

LEMMA MessageKinds ==
    \A m \in Messages :
      /\ m.type = "packet_in" => m \in PacketIns
      /\ m.type = "port_status" => m \in PortStatus
  BY DEF Messages, PacketIns, PortStatus, Error

LEMMA TypesTake ==
    ASSUME TypeOK, TakeMessage
    PROVE  TypeOK'
<1> DEFINE m == Head(toController)
<1>1. m \in Messages /\ toController' \in Seq(Messages)
  BY Taken
<1>2. /\ held' = IF m.type = "packet_in" /\ m.buffer # 0 THEN held \cup {m} ELSE held
      /\ m.type = "port_status" => HandlePortStatus(m)
      /\ m.type # "port_status" => known' = known
      /\ emitted' = {} /\ UNCHANGED <<table, packetBuffer, ports, last>>
  BY DEF TakeMessage
<1> HIDE DEF m
<1>3. held' \subseteq PacketIns /\ \A x \in held' : x.buffer # 0
  BY <1>1, <1>2, MessageKinds DEF TypeOK
<1>4. known' \subseteq AllPorts \X BOOLEAN
  <2>1. CASE m.type = "port_status"
    <3>1. m.port \in AllPorts /\ m.down \in BOOLEAN
      BY <1>1, <2>1, MessageKinds DEF PortStatus
    <3>2. QED BY <1>2, <2>1, <3>1 DEF HandlePortStatus, TypeOK
  <2>2. CASE m.type # "port_status"
    BY <1>2, <2>2 DEF TypeOK
  <2>3. QED BY <2>1, <2>2
<1>5. QED BY <1>1, <1>2, <1>3, <1>4 DEF TypeOK

\* The state has its types: every entry, buffered packet and message is made
\* of what was asked for and of what arrived.
THEOREM TypesHold == Spec => []TypeOK
<1>1. TypeOK /\ [Next]_vars => TypeOK'
  <2>1. SUFFICES ASSUME TypeOK, [Next]_vars PROVE TypeOK'
    OBVIOUS
  <2>2. CASE Next
    BY <2>1, <2>2, TypesPacket, TypesFlowMod, TypesPacketOut, TypesPortMod, TypesPorts, TypesExpiry, TypesTake DEF Next
  <2>3. CASE UNCHANGED vars
    BY <2>1, <2>3 DEF vars, switchVars, TypeOK
  <2>4. QED BY <2>1, <2>2, <2>3
<1>2. QED BY <1>1, TypesInit, PTL DEF Spec

-----------------------------------------------------------------------------
(* The controller's picture of the ports.                                   *)

About(m, p) == m.type = "port_status" /\ m.port = p

\* The last port_status about a port that is on its way tells the truth, and
\* where none is on its way the controller has been told already.
NewsOnTheWay(p) ==
    \E i \in DOMAIN toController :
      /\ About(toController[i], p)
      /\ toController[i].reason # "DELETE" /\ toController[i].down = Down(p)
      /\ \A j \in DOMAIN toController : j > i => ~ About(toController[j], p)

NewsArrived(p) ==
    /\ \A i \in DOMAIN toController : ~ About(toController[i], p)
    /\ <<p, Down(p)>> \in known

NewsKept == \A p \in DOMAIN ports : NewsOnTheWay(p) \/ NewsArrived(p)

\* Messages about other things change nothing.
LEMMA NoNewsSent ==
    ASSUME TypeOK, NewsKept, NEW more \in Seq(Messages), toController' = toController \o more,
           \A i \in 1 .. Len(more) : more[i].type # "port_status",
           known' = known, DOMAIN ports' \subseteq DOMAIN ports,
           \A p \in DOMAIN ports' : Down(p)' = Down(p)
    PROVE  NewsKept'
<1>1. SUFFICES ASSUME NEW p \in DOMAIN ports' PROVE NewsOnTheWay(p)' \/ NewsArrived(p)'
  BY DEF NewsKept
<1> DEFINE n == Len(toController)
           k == Len(more)
<1>2. /\ toController \in Seq(Messages) /\ n \in Nat /\ k \in Nat
      /\ DOMAIN toController = 1 .. n
  BY DEF TypeOK
<1>3. /\ DOMAIN toController' = 1 .. n + k
      /\ \A i \in 1 .. n : toController'[i] = toController[i]
      /\ \A i \in 1 .. k : toController'[n + i] = more[i]
  BY <1>2, Joined
<1>4. Down(p)' = Down(p) /\ p \in DOMAIN ports
  OBVIOUS
<1> HIDE DEF n, k
<1>5. \A i \in 1 .. n + k : i \in 1 .. n \/ (i - n \in 1 .. k /\ n + (i - n) = i)
  BY <1>2
<1>6. \A i \in 1 .. n + k : i \notin 1 .. n => ~ About(toController'[i], p)
  BY <1>3, <1>5 DEF About, k
<1>7. CASE NewsOnTheWay(p)
  <2>1. PICK i \in 1 .. n : /\ About(toController[i], p)
                            /\ toController[i].reason # "DELETE" /\ toController[i].down = Down(p)
                            /\ \A j \in 1 .. n : j > i => ~ About(toController[j], p)
    BY <1>2, <1>7 DEF NewsOnTheWay
  <2>2. i \in 1 .. n + k
    BY <1>2
  <2>3. \A j \in 1 .. n + k : j > i => ~ About(toController'[j], p)
    BY <1>3, <1>6, <2>1
  <2>4. /\ About(toController'[i], p)
        /\ toController'[i].reason # "DELETE" /\ toController'[i].down = Down(p)'
    BY <1>3, <1>4, <2>1
  <2>5. NewsOnTheWay(p)'
    BY <1>3, <2>2, <2>3, <2>4 DEF NewsOnTheWay, About
  <2>6. QED BY <2>5
<1>8. CASE NewsArrived(p)
  <2>1. \A i \in 1 .. n + k : ~ About(toController'[i], p)
    BY <1>2, <1>3, <1>6, <1>8 DEF NewsArrived
  <2>2. <<p, Down(p)'>> \in known'
    BY <1>4, <1>8 DEF NewsArrived
  <2>3. NewsArrived(p)'
    BY <1>3, <2>1, <2>2 DEF NewsArrived, About
  <2>4. QED BY <2>3
<1>9. QED BY <1>4, <1>7, <1>8 DEF NewsKept

\* A message about a port that tells the truth.
LEMMA NewsSent ==
    ASSUME TypeOK, NewsKept, NEW m \in PortStatus, toController' = toController \o <<m>>,
           known' = known,
           \A p \in DOMAIN ports' : p # m.port => p \in DOMAIN ports /\ Down(p)' = Down(p),
           \A p \in DOMAIN ports' : p = m.port => m.reason # "DELETE" /\ m.down = Down(p)'
    PROVE  NewsKept'
<1>1. SUFFICES ASSUME NEW p \in DOMAIN ports' PROVE NewsOnTheWay(p)' \/ NewsArrived(p)'
  BY DEF NewsKept
<1> DEFINE n == Len(toController)
<1>2. /\ toController \in Seq(Messages) /\ n \in Nat
      /\ DOMAIN toController = 1 .. n /\ m.type = "port_status"
  BY DEF TypeOK, PortStatus
<1>3. /\ DOMAIN toController' = 1 .. n + 1
      /\ \A i \in 1 .. n : toController'[i] = toController[i]
      /\ toController'[n + 1] = m
  <2>1. m \in Messages
    BY DEF Messages
  <2>2. QED BY <1>2, <2>1
<1> HIDE DEF n
<1>4. n + 1 \in 1 .. n + 1 /\ \A i \in 1 .. n + 1 : i \in 1 .. n \/ i = n + 1
  BY <1>2
<1>5. CASE p = m.port
  <2>1. About(toController'[n + 1], p) /\ toController'[n + 1].reason # "DELETE"
        /\ toController'[n + 1].down = Down(p)'
    BY <1>2, <1>3, <1>5 DEF About
  <2>2. \A j \in 1 .. n + 1 : j > n + 1 => ~ About(toController'[j], p)
    BY <1>2
  <2>3. NewsOnTheWay(p)'
    BY <1>3, <1>4, <2>1, <2>2 DEF NewsOnTheWay, About
  <2>4. QED BY <2>3
<1>6. CASE p # m.port
  <2>1. p \in DOMAIN ports /\ Down(p)' = Down(p) /\ ~ About(toController'[n + 1], p)
    BY <1>3, <1>6 DEF About
  <2>2. CASE NewsOnTheWay(p)
    <3>1. PICK i \in 1 .. n : /\ About(toController[i], p)
                              /\ toController[i].reason # "DELETE" /\ toController[i].down = Down(p)
                              /\ \A j \in 1 .. n : j > i => ~ About(toController[j], p)
      BY <1>2, <2>2 DEF NewsOnTheWay
    <3>2. i \in 1 .. n + 1
      BY <1>2
    <3>3. \A j \in 1 .. n + 1 : j > i => ~ About(toController'[j], p)
      BY <1>3, <1>4, <2>1, <3>1
    <3>4. /\ About(toController'[i], p)
          /\ toController'[i].reason # "DELETE" /\ toController'[i].down = Down(p)'
      BY <1>3, <2>1, <3>1
    <3>5. NewsOnTheWay(p)'
      BY <1>3, <3>2, <3>3, <3>4 DEF NewsOnTheWay, About
    <3>6. QED BY <3>5
  <2>3. CASE NewsArrived(p)
    <3>1. \A i \in 1 .. n + 1 : ~ About(toController'[i], p)
      BY <1>2, <1>3, <1>4, <2>1, <2>3 DEF NewsArrived
    <3>2. <<p, Down(p)'>> \in known'
      BY <2>1, <2>3 DEF NewsArrived
    <3>3. NewsArrived(p)'
      BY <1>3, <3>1, <3>2 DEF NewsArrived, About
    <3>4. QED BY <3>3
  <2>4. QED BY <2>1, <2>2, <2>3 DEF NewsKept
<1>7. QED BY <1>5, <1>6

\* What a packet does to the messages on their way.
LEMMA CommittedMessages ==
    ASSUME TypeOK, NEW tab, NEW st \in Outcomes(tab), NEW said \in Seq(Messages), Commit(st, said)
    PROVE  /\ said \o st.told \in Seq(Messages) /\ toController' = toController \o (said \o st.told)
           /\ st.told \in Seq(PacketIns)
           /\ (\A i \in 1 .. Len(said) : said[i].type # "port_status")
                => \A i \in 1 .. Len(said \o st.told) : (said \o st.told)[i].type # "port_status"
<1> DEFINE told == st.told
<1>1. told \in Seq(PacketIns)
  BY DEF Outcomes
<1>2. toController' = (toController \o said) \o told /\ toController \in Seq(Messages)
  BY DEF Commit, TypeOK
<1> HIDE DEF told
<1>3. told \in Seq(Messages)
  <2>1. PacketIns \subseteq Messages
    BY DEF Messages
  <2>2. QED BY <1>1, <2>1, SeqWider
<1>4. (toController \o said) \o told = toController \o (said \o told)
  BY <1>2, <1>3, ConcatAssociative
<1>5. said \o told \in Seq(Messages) /\ Len(said \o told) = Len(said) + Len(told)
      /\ Len(said) \in Nat /\ Len(told) \in Nat
      /\ (\A i \in 1 .. Len(said) : (said \o told)[i] = said[i])
      /\ (\A i \in 1 .. Len(told) : (said \o told)[Len(said) + i] = told[i])
  BY <1>3, Joined
<1>6. \A i \in 1 .. Len(told) : told[i].type = "packet_in"
  <2>1. \A i \in 1 .. Len(told) : told[i] \in PacketIns
    BY <1>1
  <2>2. QED BY <2>1 DEF PacketIns
<1>7. ASSUME \A i \in 1 .. Len(said) : said[i].type # "port_status", NEW i \in 1 .. Len(said \o told)
      PROVE  (said \o told)[i].type # "port_status"
  <2>1. i \in 1 .. Len(said) \/ (i - Len(said) \in 1 .. Len(told) /\ Len(said) + (i - Len(said)) = i)
    BY <1>5
  <2>2. QED BY <1>5, <1>6, <1>7, <2>1
<1>8. QED BY <1>1, <1>2, <1>4, <1>5, <1>7 DEF told

LEMMA NewsPacket ==
    ASSUME TypeOK, NewsKept, PacketArrives \/ PacketOutArrives
    PROVE  NewsKept'
<1>1. PICK st \in Outcomes(table) : Commit(st, <<>>)
  BY PacketCommits, PacketOutCommits
<1>2. UNCHANGED <<table, ports, known>>
  BY PacketCommits, PacketOutCommits
<1> DEFINE said == <<>>
<1>3. said \in Seq(Messages) /\ Commit(st, said) /\ \A i \in 1 .. Len(said) : said[i].type # "port_status"
  BY <1>1, ErrorOrNone
<1> HIDE DEF said
<1>4. PICK more \in Seq(Messages) : /\ toController' = toController \o more
                                    /\ \A i \in 1 .. Len(more) : more[i].type # "port_status"
  BY <1>3, CommittedMessages
<1>5. QED BY <1>2, <1>4, NoNewsSent DEF Down

LEMMA NewsFlowMod ==
    ASSUME TypeOK, NewsKept, FlowModArrives
    PROVE  NewsKept'
<1>1. PICK fm \in FlowMods, b \in Ids : RxFlowMod([fm EXCEPT !.buffer = b]) /\ Answer(b)
  BY DEF FlowModArrives
<1> DEFINE r == FlowMod(table, fm)
           st == ProcessBuffered(fm.actions, b, r.table)
           said == FlowsRemoved(r.removed) \o (IF r.error THEN <<Error>> ELSE <<>>)
<1>2. /\ ports' = ports /\ st \in Outcomes(r.table) /\ Commit(st, said) /\ said \in Seq(Messages)
      /\ \A i \in 1 .. Len(said) : said[i].type \in {"flow_removed", "error"}
  BY <1>1, FlowModCommits
<1> HIDE DEF r, st, said
<1>3. known' = known
  BY DEF FlowModArrives
<1>4. \A i \in 1 .. Len(said) : said[i].type # "port_status"
  BY <1>2
<1>5. PICK more \in Seq(Messages) : /\ toController' = toController \o more
                                    /\ \A i \in 1 .. Len(more) : more[i].type # "port_status"
  BY <1>2, <1>4, CommittedMessages
<1>6. QED BY <1>2, <1>3, <1>5, NoNewsSent DEF Down

LEMMA NewsPortMod ==
    ASSUME TypeOK, NewsKept, PortModArrives
    PROVE  NewsKept'
<1>1. PICK p \in AllPorts, bit \in Bits, on \in BOOLEAN : RxPortMod(p, {bit}, IF on THEN {bit} ELSE {})
  BY DEF PortModArrives
<1>2. known' = known /\ toController \in Seq(Messages)
  BY TypeParts DEF PortModArrives
<1>3. CASE p \notin DOMAIN ports
  <2>1. toController' = toController \o <<Error>> /\ ports' = ports
    BY <1>1, <1>3 DEF RxPortMod, Say
  <2>2. <<Error>> \in Seq(Messages) /\ \A i \in 1 .. Len(<<Error>>) : <<Error>>[i].type # "port_status"
    BY ErrorOrNone DEF Error
  <2>3. QED BY <1>2, <2>1, <2>2, NoNewsSent DEF Down
<1>4. CASE p \in DOMAIN ports
  <2> DEFINE new == (ports[p] \ {bit}) \cup ((IF on THEN {bit} ELSE {}) \cap {bit})
             m == [type |-> "port_status", port |-> p, reason |-> "MODIFY", down |-> "PORT_DOWN" \in new]
  <2>1. /\ ports' = [ports EXCEPT ![p] = new]
        /\ Say(IF ("PORT_DOWN" \in new) = ("PORT_DOWN" \in ports[p]) THEN <<>> ELSE <<m>>)
    BY <1>1, <1>4 DEF RxPortMod
  <2> HIDE DEF new
  <2>2. /\ DOMAIN ports' = DOMAIN ports /\ ports'[p] = new
        /\ \A x \in DOMAIN ports : x # p => ports'[x] = ports[x]
    BY <1>4, <2>1
  <2>3. CASE ("PORT_DOWN" \in new) = ("PORT_DOWN" \in ports[p])
    <3> DEFINE more == <<>>
    <3>1. more \in Seq(Messages) /\ toController' = toController \o more
          /\ \A i \in 1 .. Len(more) : more[i].type # "port_status"
      BY <2>1, <2>3, ErrorOrNone DEF Say
    <3>2. \A x \in DOMAIN ports' : Down(x)' = Down(x)
      BY <2>2, <2>3 DEF Down
    <3> HIDE DEF more
    <3>3. QED BY <1>2, <2>2, <3>1, <3>2, NoNewsSent
  <2>4. CASE ("PORT_DOWN" \in new) # ("PORT_DOWN" \in ports[p])
    <3>1. m \in PortStatus /\ m.port = p /\ m.reason # "DELETE" /\ m.down = ("PORT_DOWN" \in new)
      BY DEF PortStatus
    <3>2. toController' = toController \o <<m>>
      BY <2>1, <2>4 DEF Say
    <3> HIDE DEF m
    <3>3. \A x \in DOMAIN ports' : x # m.port => x \in DOMAIN ports /\ Down(x)' = Down(x)
      BY <2>2, <3>1 DEF Down
    <3>4. \A x \in DOMAIN ports' : x = m.port => m.reason # "DELETE" /\ m.down = Down(x)'
      BY <2>2, <3>1 DEF Down
    <3>5. QED BY <1>2, <3>1, <3>2, <3>3, <3>4, NewsSent
  <2>5. QED BY <2>3, <2>4
<1>5. QED BY <1>3, <1>4

LEMMA NewsPorts ==
    ASSUME TypeOK, NewsKept, PortsChange
    PROVE  NewsKept'
<1>1. PICK p \in LatePorts : AddPort(p) \/ DeletePort(p)
  BY DEF PortsChange
<1>2. known' = known /\ p \in AllPorts
  BY DEF PortsChange, AllPorts
<1>3. CASE AddPort(p)
  <2> DEFINE m == [type |-> "port_status", port |-> p, reason |-> "ADD", down |-> FALSE]
  <2>1. /\ ports' = [q \in DOMAIN ports \cup {p} |-> IF q = p THEN {} ELSE ports[q]]
        /\ toController' = toController \o <<m>>
    BY <1>3 DEF AddPort, Say
  <2>2. m \in PortStatus /\ m.port = p /\ m.reason # "DELETE" /\ m.down = FALSE
    BY <1>2 DEF PortStatus
  <2> HIDE DEF m
  <2>3. \A x \in DOMAIN ports' : x # m.port => x \in DOMAIN ports /\ Down(x)' = Down(x)
    BY <2>1, <2>2 DEF Down
  <2>4. \A x \in DOMAIN ports' : x = m.port => m.reason # "DELETE" /\ m.down = Down(x)'
    <3>1. ports'[p] = {}
      BY <2>1
    <3>2. Down(p)' = FALSE
      BY <3>1 DEF Down
    <3>3. QED BY <2>2, <3>2
  <2>5. QED BY <1>2, <2>1, <2>2, <2>3, <2>4, NewsSent
<1>4. CASE DeletePort(p)
  <2> DEFINE m == [type |-> "port_status", port |-> p, reason |-> "DELETE", down |-> FALSE]
  <2>1. /\ ports' = [q \in DOMAIN ports \ {p} |-> ports[q]]
        /\ toController' = toController \o <<m>>
    BY <1>4 DEF DeletePort, Say
  <2>2. m \in PortStatus /\ m.port = p
    BY <1>2 DEF PortStatus
  <2> HIDE DEF m
  <2>3. \A x \in DOMAIN ports' : x # m.port /\ x \in DOMAIN ports /\ Down(x)' = Down(x)
    BY <2>1, <2>2 DEF Down
  <2>4. QED BY <1>2, <2>1, <2>2, <2>3, NewsSent
<1>5. QED BY <1>1, <1>3, <1>4

LEMMA NewsExpiry ==
    ASSUME TypeOK, NewsKept, Expiry
    PROVE  NewsKept'
<1>1. PICK idle \in SUBSET { e \in ToSet(table) : e.idle }, hard \in SUBSET { e \in ToSet(table) : e.hard } :
        RemoveExpiredEntries(idle, hard)
  BY DEF Expiry
<1> DEFINE r == RemoveExpired(table, idle, hard)
           removed == r.removed
           more == FlowsRemoved(removed)
<1>2. toController' = toController \o more /\ ports' = ports /\ known' = known
  BY <1>1 DEF RemoveExpiredEntries, Expiry, Say
<1>3. removed \in Seq(Entries)
  BY TypeParts, ExpiredTyped
<1> HIDE DEF removed
<1>4. more \in Seq(Messages) /\ \A i \in 1 .. Len(more) : more[i].type = "flow_removed"
  BY <1>3, RemovedTyped, RemovedKinds
<1> HIDE DEF more
<1>5. \A i \in 1 .. Len(more) : more[i].type # "port_status"
  BY <1>4
<1>6. QED BY <1>2, <1>4, <1>5, NoNewsSent DEF Down

LEMMA NewsTake ==
    ASSUME TypeOK, NewsKept, TakeMessage
    PROVE  NewsKept'
<1> DEFINE n == Len(toController)
           m == Head(toController)
<1>1. /\ n \in Nat /\ n # 0 /\ m = toController[1] /\ m \in Messages
      /\ DOMAIN toController = 1 .. n /\ DOMAIN toController' = 1 .. n - 1
      /\ \A i \in 1 .. n - 1 : toController'[i] = toController[i + 1]
  <2>1. toController \in Seq(Messages)
    BY TypeParts
  <2>2. QED BY <2>1, Taken
<1>2. /\ ports' = ports
      /\ m.type = "port_status" => HandlePortStatus(m)
      /\ m.type # "port_status" => known' = known
  BY DEF TakeMessage
<1> HIDE DEF n, m
<1>3. SUFFICES ASSUME NEW p \in DOMAIN ports PROVE NewsOnTheWay(p)' \/ NewsArrived(p)'
  BY <1>2 DEF NewsKept
<1>4. Down(p)' = Down(p)
  BY <1>2 DEF Down
<1>5. \A i \in 1 .. n - 1 : i + 1 \in 1 .. n /\ i + 1 # 1
  BY <1>1
<1>6. ~ About(m, p) /\ <<p, Down(p)>> \in known => <<p, Down(p)>> \in known'
  BY <1>2 DEF About, HandlePortStatus
<1>7. CASE NewsOnTheWay(p)
  <2>1. PICK i \in 1 .. n : /\ About(toController[i], p)
                            /\ toController[i].reason # "DELETE" /\ toController[i].down = Down(p)
                            /\ \A j \in 1 .. n : j > i => ~ About(toController[j], p)
    BY <1>1, <1>7 DEF NewsOnTheWay
  <2>2. CASE i = 1
    <3>1. \A j \in 1 .. n - 1 : ~ About(toController'[j], p)
      BY <1>1, <1>5, <2>1, <2>2
    <3>2. <<p, Down(p)>> \in known'
      BY <1>1, <1>2, <2>1, <2>2 DEF About, HandlePortStatus
    <3>3. NewsArrived(p)'
      BY <1>1, <1>4, <3>1, <3>2 DEF NewsArrived, About
    <3>4. QED BY <3>3
  <2>3. CASE i # 1
    <3>1. i - 1 \in 1 .. n - 1 /\ (i - 1) + 1 = i
      BY <1>1, <2>3
    <3>2. /\ About(toController'[i - 1], p)
          /\ toController'[i - 1].reason # "DELETE" /\ toController'[i - 1].down = Down(p)'
      BY <1>1, <1>4, <2>1, <3>1
    <3>3. \A j \in 1 .. n - 1 : j > i - 1 => ~ About(toController'[j], p)
      BY <1>1, <1>5, <2>1
    <3>4. NewsOnTheWay(p)'
      BY <1>1, <3>1, <3>2, <3>3 DEF NewsOnTheWay, About
    <3>5. QED BY <3>4
  <2>4. QED BY <2>2, <2>3
<1>8. CASE NewsArrived(p)
  <2>1. \A j \in 1 .. n : ~ About(toController[j], p)
    BY <1>1, <1>8 DEF NewsArrived
  <2>2. \A j \in 1 .. n - 1 : ~ About(toController'[j], p)
    BY <1>1, <1>5, <2>1
  <2>3. ~ About(m, p)
    BY <1>1, <2>1
  <2>4. <<p, Down(p)>> \in known'
    BY <1>6, <1>8, <2>3 DEF NewsArrived
  <2>5. NewsArrived(p)'
    BY <1>1, <1>4, <2>2, <2>4 DEF NewsArrived, About
  <2>6. QED BY <2>5
<1>9. QED BY <1>7, <1>8 DEF NewsKept

LEMMA NewsInit == Init => NewsKept
<1>1. SUFFICES ASSUME Init, NEW p \in DOMAIN ports PROVE NewsArrived(p)
  BY DEF NewsKept
<1>2. DOMAIN toController = {} /\ p \in FirstPorts /\ ports[p] = {} /\ known = { <<q, FALSE>> : q \in FirstPorts }
  BY <1>1 DEF Init
<1>3. Down(p) = FALSE
  BY <1>2 DEF Down
<1>4. <<p, FALSE>> \in known
  BY <1>2
<1>5. QED BY <1>2, <1>3, <1>4 DEF NewsArrived

\* Whatever the controller asks for: when no port_status is on its way, it
\* knows every port there is and whether it is down.
LEMMA NewsHold == Spec => [](TypeOK /\ NewsKept)
<1>1. NewsKept /\ TypeOK /\ TypeOK' /\ [Next]_vars => NewsKept'
  <2>1. SUFFICES ASSUME NewsKept, TypeOK, TypeOK', [Next]_vars PROVE NewsKept'
    OBVIOUS
  <2>2. CASE Next
    BY <2>1, <2>2, NewsPacket, NewsFlowMod, NewsPortMod, NewsPorts, NewsExpiry, NewsTake DEF Next
  <2>3. CASE UNCHANGED vars
    BY <2>1, <2>3 DEF vars, switchVars, NewsKept, NewsOnTheWay, NewsArrived, Down
  <2>4. QED BY <2>1, <2>2, <2>3
<1>2. Spec => Init /\ [][Next]_vars
  BY DEF Spec
<1>3. QED BY <1>1, <1>2, NewsInit, TypesHold, PTL

LEMMA NewsSaysPorts == TypeOK /\ NewsKept => PortsKnown
  BY DEF PortsKnown, NoNews, NewsKept, NewsOnTheWay, NewsArrived, About

-----------------------------------------------------------------------------
(* Buffers.                                                                 *)

\* Nothing is rewritten, and nothing looked up, once the packet may be in a
\* slot.
RewritesFirst(actions) ==
    \A i, j \in DOMAIN actions :
      i < j /\ actions[i].type \in {"controller", "table"} => actions[j].type \notin {"set_dst", "table"}

NoLateRewrites ==
    /\ \A fm \in FlowMods : RewritesFirst(fm.actions)
    /\ \A po \in PacketOuts : RewritesFirst(po.actions)

Reports(m) == m.type = "packet_in" /\ m.buffer # 0

ReportsIn(queue) == { k \in DOMAIN queue : Reports(queue[k]) }

\* A message is about a slot in use, other than the one that is processed.
IsAbout(m, buffers, i) ==
    /\ m.buffer \in 1 .. MaxBuffers /\ m.buffer # i /\ buffers[m.buffer] # None
    /\ buffers[m.buffer] = [packet |-> m.packet, in_port |-> m.in_port]

\* Each slot in use but one is what one message, held or on its way, is about.
Accounted(H, queue, buffers, i) ==
    /\ i # 0 => buffers[i] # None
    /\ \A g, h \in H : g.buffer = h.buffer => g = h
    /\ \A h \in H, k \in ReportsIn(queue) : h.buffer # queue[k].buffer
    /\ \A k, l \in ReportsIn(queue) : queue[k].buffer = queue[l].buffer => k = l
    /\ \A h \in H : IsAbout(h, buffers, i)
    /\ \A k \in ReportsIn(queue) : IsAbout(queue[k], buffers, i)
    /\ \A j \in 1 .. MaxBuffers : buffers[j] # None /\ j # i =>
         (\E h \in H : h.buffer = j) \/ (\E k \in ReportsIn(queue) : queue[k].buffer = j)

BuffersKept == Accounted(held, toController, packetBuffer, 0)

\* Only the slots and the messages with a buffer id count.
LEMMA AccountedSame ==
    ASSUME NEW H, NEW queue, NEW buffers, NEW i, Accounted(H, queue, buffers, i), NEW others,
           \A j \in 1 .. MaxBuffers : others[j] = buffers[j], i \in 0 .. MaxBuffers
    PROVE  Accounted(H, queue, others, i)
<1>1. i # 0 => i \in 1 .. MaxBuffers
  BY SoftSwitchAssumption
<1>2. QED BY <1>1 DEF Accounted, IsAbout

LEMMA AccountedMore ==
    ASSUME NEW H, NEW queue \in Seq(Messages), NEW buffers, NEW i, Accounted(H, queue, buffers, i),
           NEW more \in Seq(Messages), \A k \in 1 .. Len(more) : ~ Reports(more[k])
    PROVE  Accounted(H, queue \o more, buffers, i)
<1> DEFINE n == Len(queue)
           q == queue \o more
<1>1. /\ n \in Nat /\ Len(more) \in Nat /\ DOMAIN queue = 1 .. n /\ DOMAIN q = 1 .. n + Len(more)
      /\ \A k \in 1 .. n : q[k] = queue[k]
      /\ \A k \in 1 .. Len(more) : q[n + k] = more[k]
  BY Joined
<1> HIDE DEF n, q
<1>2. \A k \in 1 .. n + Len(more) : k \in 1 .. n \/ (k - n \in 1 .. Len(more) /\ n + (k - n) = k)
  BY <1>1
<1>3. \A k \in 1 .. n : k \in 1 .. n + Len(more)
  BY <1>1
<1>4. ReportsIn(q) = ReportsIn(queue) /\ \A k \in ReportsIn(queue) : q[k] = queue[k]
  <2>1. ASSUME NEW k \in DOMAIN q, Reports(q[k]) PROVE k \in DOMAIN queue /\ Reports(queue[k])
    <3>1. k \in 1 .. n
      <4>1. SUFFICES ASSUME k \notin 1 .. n PROVE FALSE
        OBVIOUS
      <4>2. k - n \in 1 .. Len(more) /\ q[k] = more[k - n]
        BY <1>1, <1>2, <4>1
      <4>3. QED BY <2>1, <4>2
    <3>2. QED BY <1>1, <2>1, <3>1
  <2>2. ASSUME NEW k \in DOMAIN queue PROVE k \in DOMAIN q /\ q[k] = queue[k]
    BY <1>1, <1>3
  <2>3. QED BY <2>1, <2>2 DEF ReportsIn
<1> HIDE DEF IsAbout
<1>5. Accounted(H, q, buffers, i)
  BY <1>4 DEF Accounted
<1>6. QED BY <1>5 DEF q

\* One more packet is buffered, and the controller told.
LEMMA AccountedAsked ==
    ASSUME NEW H, NEW before \in Seq(Messages), NEW i \in 0 .. MaxBuffers,
           NEW tab, NEW st \in States(tab), NEW reason \in {"ACTION", "NO_MATCH"},
           Accounted(H, before \o st.told, st.buffers, i)
    PROVE  Accounted(H, before \o AskController(st, reason).told, AskController(st, reason).buffers, i)
<1> DEFINE new == AskController(st, reason)
           f == FreeSlot(st.buffers)
           b == [packet |-> st.packet, in_port |-> st.in_port]
           m == [type |-> "packet_in", buffer |-> f, reason |-> reason,
                 packet |-> st.packet, in_port |-> st.in_port]
           queue == before \o st.told
           n == Len(queue)
           q == before \o new.told
<1>1. /\ m \in PacketIns /\ new.told = Append(st.told, m)
      /\ \A j \in 1 .. MaxBuffers : new.buffers[j] = IF j = f THEN b ELSE st.buffers[j]
  BY Asked
<1>2. f \in 0 .. MaxBuffers /\ (f # 0 => st.buffers[f] = None)
  BY FreeSlotIs
<1>3. st.told \in Seq(Messages) /\ m \in Messages
  <2>1. PacketIns \subseteq Messages
    BY DEF Messages
  <2>2. st.told \in Seq(PacketIns)
    BY DEF States, ProcessRecords
  <2> DEFINE told == st.told
  <2> HIDE DEF told, m
  <2>3. told \in Seq(Messages)
    BY <2>1, <2>2, SeqWider DEF told
  <2>4. QED BY <1>1, <2>1, <2>3 DEF told
<1>4. b # None /\ m.packet = st.packet /\ m.in_port = st.in_port /\ m.type = "packet_in" /\ m.buffer = f
  <2>1. st.packet \in AllPackets /\ st.in_port \in Int
    BY DEF States, ProcessRecords
  <2>2. b \in Buffered
    BY <2>1 DEF Buffered
  <2>3. QED BY <2>2, AnyControllerAssumption
<1>5. /\ n \in Nat /\ DOMAIN queue = 1 .. n /\ DOMAIN q = 1 .. n + 1
      /\ \A k \in 1 .. n : q[k] = queue[k]
      /\ q[n + 1] = m
  <2> DEFINE told == st.told
  <2> HIDE DEF told, m, new
  <2>1. q = before \o Append(told, m) /\ told \in Seq(Messages) /\ m \in Messages
    BY <1>1, <1>3 DEF told
  <2>2. before \o Append(told, m) = (before \o told) \o <<m>>
    BY <2>1
  <2>3. before \o told \in Seq(Messages)
    BY <2>1
  <2> DEFINE a == before \o told
  <2>4. a \in Seq(Messages) /\ q = a \o <<m>> /\ queue = a
    BY <2>1, <2>2, <2>3 DEF told
  <2> HIDE DEF a, q, queue
  <2>5. QED BY <2>1, <2>4
<1>6. Accounted(H, queue, st.buffers, i)
  OBVIOUS
<1> DEFINE newBuffers == new.buffers
           oldBuffers == st.buffers
<1> HIDE DEF queue, q, n, m, f, b, new
<1>7. \A k \in 1 .. n + 1 : k \in 1 .. n \/ k = n + 1
  BY <1>5
<1>8. \A k \in 1 .. n : k \in 1 .. n + 1 /\ k # n + 1
  BY <1>5
<1>9. n + 1 \in 1 .. n + 1
  BY <1>5
<1>10. CASE f = 0
  <2>1. \A j \in 1 .. MaxBuffers : newBuffers[j] = oldBuffers[j]
    BY <1>1, <1>10
  <2>2. ReportsIn(q) = ReportsIn(queue) /\ \A k \in ReportsIn(queue) : q[k] = queue[k]
    BY <1>4, <1>5, <1>7, <1>8, <1>10 DEF ReportsIn, Reports
  <2> HIDE DEF newBuffers, oldBuffers, IsAbout
  <2>3. Accounted(H, q, oldBuffers, i)
    BY <1>6, <2>2 DEF Accounted, oldBuffers
  <2>4. Accounted(H, q, newBuffers, i)
    BY <2>1, <2>3, AccountedSame
  <2>5. QED BY <2>4 DEF q, newBuffers, new
<1>11. CASE f # 0
  <2>1. f \in 1 .. MaxBuffers /\ oldBuffers[f] = None /\ newBuffers[f] = b
        /\ \A j \in 1 .. MaxBuffers : j # f => newBuffers[j] = oldBuffers[j]
    BY <1>1, <1>2, <1>11, SoftSwitchAssumption
  <2>2. ReportsIn(q) = ReportsIn(queue) \cup {n + 1} /\ \A k \in ReportsIn(queue) : q[k] = queue[k] /\ k # n + 1
    BY <1>4, <1>5, <1>7, <1>8, <1>9, <1>11 DEF ReportsIn, Reports
  <2> HIDE DEF newBuffers
  <2>3. Accounted(H, queue, oldBuffers, i)
    BY <1>6
  <2> HIDE DEF oldBuffers
  <2>4. \A h : IsAbout(h, oldBuffers, i) => h.buffer # f /\ IsAbout(h, newBuffers, i)
    BY <2>1 DEF IsAbout
  <2>5. f # i
    BY <1>2, <1>11, <2>1, <2>3 DEF Accounted
  <2>6. IsAbout(m, newBuffers, i)
    BY <1>4, <2>1, <2>5 DEF IsAbout, b
  <2> DEFINE R == ReportsIn(queue)
             S == ReportsIn(q)
  <2>7. S = R \cup {n + 1} /\ (\A k \in R : q[k] = queue[k] /\ k # n + 1) /\ q[n + 1] = m
    BY <1>5, <2>2
  <2>8. /\ i # 0 => oldBuffers[i] # None
        /\ \A g, h \in H : g.buffer = h.buffer => g = h
        /\ \A h \in H, k \in R : h.buffer # queue[k].buffer
        /\ \A k, l \in R : queue[k].buffer = queue[l].buffer => k = l
        /\ \A h \in H : IsAbout(h, oldBuffers, i)
        /\ \A k \in R : IsAbout(queue[k], oldBuffers, i)
        /\ \A j \in 1 .. MaxBuffers : oldBuffers[j] # None /\ j # i =>
             (\E h \in H : h.buffer = j) \/ (\E k \in R : queue[k].buffer = j)
    BY <2>3 DEF Accounted
  <2> HIDE DEF R, S, IsAbout
  <2>9. i # 0 => newBuffers[i] # None
    BY <2>1, <2>5, <2>8, SoftSwitchAssumption
  <2>10. \A h \in H, k \in S : h.buffer # q[k].buffer
    BY <1>4, <2>4, <2>7, <2>8
  <2>11. \A k, l \in S : q[k].buffer = q[l].buffer => k = l
    <3>1. \A k \in R : q[k].buffer # m.buffer
      BY <1>4, <2>4, <2>7, <2>8
    <3>2. QED BY <2>7, <2>8, <3>1
  <2>12. \A h \in H : IsAbout(h, newBuffers, i)
    BY <2>4, <2>8
  <2>13. \A k \in S : IsAbout(q[k], newBuffers, i)
    BY <2>4, <2>6, <2>7, <2>8
  <2>14. ASSUME NEW j \in 1 .. MaxBuffers, newBuffers[j] # None, j # i
         PROVE  (\E h \in H : h.buffer = j) \/ (\E k \in S : q[k].buffer = j)
    <3>1. CASE j = f
      BY <1>4, <2>7, <3>1
    <3>2. CASE j # f
      BY <2>1, <2>7, <2>8, <2>14, <3>2
    <3>3. QED BY <3>1, <3>2
  <2>15. Accounted(H, q, newBuffers, i)
    BY <2>8, <2>9, <2>10, <2>11, <2>12, <2>13, <2>14 DEF Accounted, S
  <2>16. QED BY <2>15 DEF q, newBuffers, new
<1>12. QED BY <1>10, <1>11

LEMMA SlotsKept ==
    ASSUME NEW tab, NEW st \in States(tab), NEW a \in EntryActions, a.type # "controller"
    PROVE  Do(st, a).slots = st.slots
<1>1. CASE a.type = "set_dst"
  <2>1. Do(st, a) = Rewrite(st, a.addr) /\ a.addr \in Addresses
    BY <1>1, ActionKinds DEF Do
  <2>2. QED BY <2>1, Rewritten
<1>2. CASE a.type \in {"output", "in_port", "flood", "all"}
  BY <1>2, Sent
<1>3. QED BY <1>1, <1>2, ActionKinds

\* One action: a packet that is in no slot may be rewritten.
LEMMA AccountedDo ==
    ASSUME NEW H, NEW before \in Seq(Messages), NEW i \in 0 .. MaxBuffers,
           NEW tab, NEW st \in States(tab), NEW a \in EntryActions,
           Accounted(H, before \o st.told, st.buffers, i),
           a.type = "set_dst" => st.slots = {}
    PROVE  Accounted(H, before \o Do(st, a).told, Do(st, a).buffers, i)
<1>1. CASE a.type = "controller"
  <2>1. Do(st, a) = AskController(st, "ACTION")
    BY <1>1 DEF Do
  <2> DEFINE new == AskController(st, "ACTION")
  <2>2. Accounted(H, before \o new.told, new.buffers, i)
    BY AccountedAsked
  <2> HIDE DEF new
  <2>3. Do(st, a) = new
    BY <2>1 DEF new
  <2>4. QED BY <1>1, <2>2, <2>3
<1>2. CASE a.type = "set_dst"
  <2>1. Do(st, a) = Rewrite(st, a.addr) /\ a.addr \in Addresses
    BY <1>2, ActionKinds DEF Do
  <2> DEFINE new == Rewrite(st, a.addr)
  <2>2. new.told = st.told /\ new.slots = st.slots /\ \A j \in 1 .. MaxBuffers : new.buffers[j] = st.buffers[j]
    BY <1>2, <2>1, Rewritten
  <2> DEFINE others == new.buffers
             buffers == st.buffers
             queue == before \o st.told
  <2> HIDE DEF others, buffers, queue, new
  <2>3. Accounted(H, queue, buffers, i) /\ \A j \in 1 .. MaxBuffers : others[j] = buffers[j]
    BY <2>2 DEF others, buffers, queue
  <2>4. Accounted(H, queue, others, i)
    BY <2>3, AccountedSame
  <2>5. Do(st, a) = new
    BY <2>1 DEF new
  <2>6. QED BY <2>2, <2>4, <2>5 DEF others, queue
<1>3. CASE a.type \in {"output", "in_port", "flood", "all"}
  <2>1. Do(st, a).told = st.told /\ Do(st, a).slots = st.slots /\ Do(st, a).buffers = st.buffers
    BY <1>3, Sent
  <2>2. QED BY <2>1
<1>4. QED BY <1>1, <1>2, <1>3, ActionKinds

\* The actions of an entry, from a packet that is in no slot.
LEMMA AccountedEntry ==
    ASSUME NEW H, NEW before \in Seq(Messages), NEW i \in 0 .. MaxBuffers,
           NEW tab, NEW st \in States(tab), NEW actions \in Seq(EntryActions), RewritesFirst(actions),
           Accounted(H, before \o st.told, st.buffers, i), st.slots = {}
    PROVE  LET new == FoldLeft(Do, st, actions) IN Accounted(H, before \o new.told, new.buffers, i)
<1> DEFINE S == States(tab)
           n == Len(actions)
           Good(u) == Accounted(H, before \o u.told, u.buffers, i)
<1>1. \A u \in S, a \in EntryActions : Do(u, a) \in S
  BY DoTyped
<1>2. ASSUME NEW u \in S, NEW a \in EntryActions, Good(u), a.type = "set_dst" => u.slots = {}
      PROVE  Good(Do(u, a)) /\ (a.type # "controller" => Do(u, a).slots = u.slots)
  <2>1. Accounted(H, before \o u.told, u.buffers, i) /\ u \in States(tab) /\ (a.type = "set_dst" => u.slots = {})
    BY <1>2
  <2>2. Accounted(H, before \o Do(u, a).told, Do(u, a).buffers, i)
    BY <2>1, AccountedDo
  <2>3. a.type # "controller" => Do(u, a).slots = u.slots
    BY <2>1, SlotsKept
  <2>4. QED BY <2>2, <2>3
<1>3. Good(st) /\ st \in S /\ st.slots = {}
  OBVIOUS
<1>4. n \in Nat /\ DOMAIN actions = 1 .. n /\ \A k \in 1 .. n : actions[k] \in EntryActions
  OBVIOUS
<1> HIDE DEF S, Good
<1>5. PICK h \in Runs(S, st, actions) : FoldLeft(Do, st, actions) = h[n]
  <2>1. FoldLeft(Do, st, actions) \in { h[Len(actions)] : h \in Runs(S, st, actions) }
    BY <1>1, <1>3, DoChain
  <2>2. QED BY <2>1
<1>6. h \in [0 .. n -> S] /\ h[0] = st /\ \A k \in 1 .. n : h[k] = Do(h[k - 1], actions[k])
  BY <1>5 DEF Runs
<1> HIDE DEF n
<1> DEFINE Kept(k) == Good(h[k]) /\ (h[k].slots # {} => \E j \in 1 .. k : actions[j].type = "controller")
           T == { k \in Nat : k <= n => Kept(k) }
<1>7. 0 \in T
  BY <1>3, <1>6
<1>8. ASSUME NEW k \in T PROVE k + 1 \in T
  <2>1. k \in Nat /\ k + 1 \in Nat
    OBVIOUS
  <2>2. SUFFICES ASSUME k + 1 <= n PROVE Kept(k + 1)
    BY <2>1
  <2>3. k \in 0 .. n /\ k + 1 \in 1 .. n /\ (k + 1) - 1 = k /\ k <= n
    BY <1>4, <2>1, <2>2
  <2>4. Kept(k) /\ h[k] \in S /\ h[k + 1] = Do(h[k], actions[k + 1]) /\ actions[k + 1] \in EntryActions
    BY <1>4, <1>6, <2>3
  <2>5. actions[k + 1].type = "set_dst" => h[k].slots = {}
    <3>1. \A j \in 1 .. k : j \in 1 .. n /\ j < k + 1
      BY <2>1, <2>2, <1>4
    <3>2. QED BY <1>4, <2>3, <2>4, <3>1 DEF RewritesFirst
  <2>6. Good(h[k + 1]) /\ (actions[k + 1].type # "controller" => h[k + 1].slots = h[k].slots)
    BY <1>2, <2>4, <2>5
  <2>7. \A j \in 1 .. k : j \in 1 .. k + 1
    BY <2>1
  <2>8. k + 1 \in 1 .. k + 1
    BY <2>1
  <2>9. QED BY <2>4, <2>6, <2>7, <2>8
<1>9. T = Nat
  <2>1. T \in SUBSET Nat
    OBVIOUS
  <2> HIDE DEF T
  <2>2. QED BY <1>7, <1>8, <2>1, Induct
<1>10. Good(h[n])
  BY <1>4, <1>9
<1>11. Good(FoldLeft(Do, st, actions))
  BY <1>5, <1>10
<1>12. QED BY <1>11 DEF Good

LEMMA AccountedLookup ==
    ASSUME NoLateRewrites, NEW H, NEW before \in Seq(Messages), NEW i \in 0 .. MaxBuffers,
           NEW tab \in Seq(Entries), NEW st \in States(tab), PortsTyped,
           Accounted(H, before \o st.told, st.buffers, i), st.slots = {}
    PROVE  Accounted(H, before \o Lookup(st).told, Lookup(st).buffers, i)
<1> DEFINE e == EntryFor(tab, PacketMatch(st))
           hit == Hit(st)
           Good(u) == Accounted(H, before \o u.told, u.buffers, i)
<1>1. \/ Lookup(st) = st
      \/ /\ hit \in States(tab) /\ hit.told = st.told /\ hit.slots = st.slots /\ hit.buffers = st.buffers
         /\ \/ e \in Entries /\ Lookup(st) = FoldLeft(Do, hit, e.actions)
            \/ Lookup(st) = hit
            \/ Lookup(st) = AskController(hit, "NO_MATCH")
  BY LookedUp
<1> HIDE DEF hit, e
<1>2. Good(st)
  OBVIOUS
<1>3. CASE Lookup(st) = st
  BY <1>2, <1>3
<1>4. ASSUME hit \in States(tab), hit.told = st.told, hit.slots = st.slots, hit.buffers = st.buffers
      PROVE  /\ Good(hit)
             /\ Good(AskController(hit, "NO_MATCH"))
             /\ e \in Entries => Good(FoldLeft(Do, hit, e.actions))
  <2>1. Good(hit) /\ hit.slots = {}
    BY <1>2, <1>4
  <2>2. Good(AskController(hit, "NO_MATCH"))
    BY <1>4, <2>1, AccountedAsked
  <2>3. ASSUME e \in Entries PROVE Good(FoldLeft(Do, hit, e.actions))
    <3> DEFINE actions == e.actions
    <3>1. actions \in Seq(EntryActions)
      BY <2>3, EntryTypes
    <3>2. RewritesFirst(actions)
      <4>1. PICK fm \in FlowMods : actions = fm.actions
        BY <2>3 DEF Entries
      <4>2. QED BY <4>1 DEF NoLateRewrites
    <3> HIDE DEF actions
    <3>3. Good(FoldLeft(Do, hit, actions))
      BY <1>4, <2>1, <3>1, <3>2, AccountedEntry
    <3>4. QED BY <3>3 DEF actions
  <2>4. QED BY <2>1, <2>2, <2>3
<1> HIDE DEF Good
<1>5. Good(Lookup(st))
  BY <1>1, <1>2, <1>4
<1>6. QED BY <1>5 DEF Good

\* The actions of a request, the table among them.
LEMMA AccountedProcess ==
    ASSUME NoLateRewrites, NEW H, NEW before \in Seq(Messages), NEW i \in 0 .. MaxBuffers,
           NEW tab \in Seq(Entries), NEW st \in States(tab), PortsTyped,
           NEW actions \in Seq(OutActions), RewritesFirst(actions),
           Accounted(H, before \o st.told, st.buffers, i), st.slots = {}
    PROVE  LET new == Process(actions, st) IN Accounted(H, before \o new.told, new.buffers, i)
<1> DEFINE S == States(tab)
           n == Len(actions)
           Good(u) == Accounted(H, before \o u.told, u.buffers, i)
<1>1. \A u \in S, a \in OutActions : DoAny(u, a) \in S
  BY DoAnyTyped
<1>2. ASSUME NEW u \in S, NEW a \in OutActions, Good(u), a.type \in {"set_dst", "table"} => u.slots = {}
      PROVE  Good(DoAny(u, a)) /\ (a.type \notin {"controller", "table"} => DoAny(u, a).slots = u.slots)
  <2>1. CASE a.type = "table"
    <3>1. DoAny(u, a) = Lookup(u)
      BY <2>1 DEF DoAny
    <3>2. Good(Lookup(u))
      BY <1>2, <2>1, AccountedLookup
    <3> HIDE DEF Good
    <3>3. QED BY <2>1, <3>1, <3>2
  <2>2. CASE a.type # "table"
    <3>1. DoAny(u, a) = Do(u, a) /\ a \in EntryActions
      BY <2>2, ActionKinds DEF DoAny
    <3>2. Good(Do(u, a)) /\ (a.type # "controller" => Do(u, a).slots = u.slots)
      <4>1. Accounted(H, before \o u.told, u.buffers, i) /\ u \in States(tab) /\ (a.type = "set_dst" => u.slots = {})
        BY <1>2
      <4>2. Accounted(H, before \o Do(u, a).told, Do(u, a).buffers, i)
        BY <3>1, <4>1, AccountedDo
      <4>3. a.type # "controller" => Do(u, a).slots = u.slots
        BY <3>1, <4>1, SlotsKept
      <4>4. QED BY <4>2, <4>3
    <3> HIDE DEF Good
    <3>3. QED BY <3>1, <3>2
  <2>3. QED BY <2>1, <2>2
<1>3. Good(st) /\ st \in S /\ st.slots = {}
  OBVIOUS
<1>4. n \in Nat /\ DOMAIN actions = 1 .. n /\ \A k \in 1 .. n : actions[k] \in OutActions
  OBVIOUS
<1>5. PICK h \in RunsAny(S, st, actions) : Process(actions, st) = h[n]
  BY ProcessTyped
<1> HIDE DEF S, Good
<1>6. h \in [0 .. n -> S] /\ h[0] = st /\ \A k \in 1 .. n : h[k] = DoAny(h[k - 1], actions[k])
  BY <1>5 DEF RunsAny
<1> HIDE DEF n
<1> DEFINE Kept(k) == Good(h[k]) /\ (h[k].slots # {} => \E j \in 1 .. k : actions[j].type \in {"controller", "table"})
           T == { k \in Nat : k <= n => Kept(k) }
<1>7. 0 \in T
  BY <1>3, <1>6
<1>8. ASSUME NEW k \in T PROVE k + 1 \in T
  <2>1. k \in Nat /\ k + 1 \in Nat
    OBVIOUS
  <2>2. SUFFICES ASSUME k + 1 <= n PROVE Kept(k + 1)
    BY <2>1
  <2>3. k \in 0 .. n /\ k + 1 \in 1 .. n /\ (k + 1) - 1 = k /\ k <= n
    BY <1>4, <2>1, <2>2
  <2>4. Kept(k) /\ h[k] \in S /\ h[k + 1] = DoAny(h[k], actions[k + 1]) /\ actions[k + 1] \in OutActions
    BY <1>4, <1>6, <2>3
  <2>5. actions[k + 1].type \in {"set_dst", "table"} => h[k].slots = {}
    <3>1. \A j \in 1 .. k : j \in 1 .. n /\ j < k + 1
      BY <2>1, <2>2, <1>4
    <3>2. QED BY <1>4, <2>3, <2>4, <3>1 DEF RewritesFirst
  <2>6. Good(h[k + 1]) /\ (actions[k + 1].type \notin {"controller", "table"} => h[k + 1].slots = h[k].slots)
    BY <1>2, <2>4, <2>5
  <2>7. \A j \in 1 .. k : j \in 1 .. k + 1
    BY <2>1
  <2>8. k + 1 \in 1 .. k + 1
    BY <2>1
  <2>9. QED BY <2>4, <2>6, <2>7, <2>8
<1>9. T = Nat
  <2>1. T \in SUBSET Nat
    OBVIOUS
  <2> HIDE DEF T
  <2>2. QED BY <1>7, <1>8, <2>1, Induct
<1>10. Good(h[n])
  BY <1>4, <1>9
<1>11. Good(Process(actions, st))
  BY <1>5, <1>10
<1>12. QED BY <1>11 DEF Good

\* The slot of the packet that has been processed is released.
LEMMA AccountedReleased ==
    ASSUME NEW H, NEW queue, NEW buffers \in Slots, NEW i \in 1 .. MaxBuffers, Accounted(H, queue, buffers, i)
    PROVE  Accounted(H, queue, [buffers EXCEPT ![i] = None], 0)
<1> DEFINE new == [buffers EXCEPT ![i] = None]
           R == ReportsIn(queue)
<1>1. new[i] = None /\ \A j \in 1 .. MaxBuffers : j # i => new[j] = buffers[j]
  BY DEF Slots
<1> HIDE DEF new
<1>2. /\ \A g, h \in H : g.buffer = h.buffer => g = h
      /\ \A h \in H, k \in R : h.buffer # queue[k].buffer
      /\ \A k, l \in R : queue[k].buffer = queue[l].buffer => k = l
      /\ \A h \in H : IsAbout(h, buffers, i)
      /\ \A k \in R : IsAbout(queue[k], buffers, i)
      /\ \A j \in 1 .. MaxBuffers : buffers[j] # None /\ j # i =>
           (\E h \in H : h.buffer = j) \/ (\E k \in R : queue[k].buffer = j)
  BY DEF Accounted
<1>3. \A m : IsAbout(m, buffers, i) => IsAbout(m, new, 0)
  BY <1>1, SoftSwitchAssumption DEF IsAbout
<1> HIDE DEF R, IsAbout
<1>4. \A j \in 1 .. MaxBuffers : new[j] # None /\ j # 0 =>
        (\E h \in H : h.buffer = j) \/ (\E k \in R : queue[k].buffer = j)
  BY <1>1, <1>2
<1>5. Accounted(H, queue, new, 0)
  BY <1>2, <1>3, <1>4 DEF Accounted, R
<1>6. QED BY <1>5 DEF new

\* The controller uses an id that it holds: the message is forgotten, and no
\* other is about the slot.
LEMMA AccountedUsed ==
    ASSUME TypeOK, BuffersKept, NEW b \in Ids, Answer(b)
    PROVE  /\ b = 0 => held' = held
           /\ b # 0 => /\ b \in 1 .. MaxBuffers /\ packetBuffer[b] # None
                       /\ Accounted(held', toController, packetBuffer, b)
<1>1. held' = { h \in held : h.buffer # b } /\ \A h \in held : h.buffer # 0
  BY DEF Answer, TypeOK
<1>2. CASE b = 0
  BY <1>1, <1>2
<1>3. CASE b # 0
  <2> DEFINE R == ReportsIn(toController)
             new == held'
  <2>1. PICK g \in held : g.buffer = b
    BY <1>3 DEF Ids
  <2>2. /\ \A g1, h \in held : g1.buffer = h.buffer => g1 = h
        /\ \A h \in held, k \in R : h.buffer # toController[k].buffer
        /\ \A k, l \in R : toController[k].buffer = toController[l].buffer => k = l
        /\ \A h \in held : IsAbout(h, packetBuffer, 0)
        /\ \A k \in R : IsAbout(toController[k], packetBuffer, 0)
        /\ \A j \in 1 .. MaxBuffers : packetBuffer[j] # None /\ j # 0 =>
             (\E h \in held : h.buffer = j) \/ (\E k \in R : toController[k].buffer = j)
    BY DEF BuffersKept, Accounted
  <2>3. b \in 1 .. MaxBuffers /\ packetBuffer[b] # None
    <3>1. IsAbout(g, packetBuffer, 0)
      BY <2>2
    <3>2. QED BY <2>1, <3>1 DEF IsAbout
  <2>4. \A m : IsAbout(m, packetBuffer, 0) /\ m.buffer # b => IsAbout(m, packetBuffer, b)
    BY DEF IsAbout
  <2> HIDE DEF R, new, IsAbout
  <2>5. \A h \in new : h \in held /\ h.buffer # b
    BY <1>1 DEF new
  <2>6. \A k \in R : toController[k].buffer # b
    BY <2>1, <2>2
  <2>7. /\ \A g1, h \in new : g1.buffer = h.buffer => g1 = h
        /\ \A h \in new, k \in R : h.buffer # toController[k].buffer
        /\ \A h \in new : IsAbout(h, packetBuffer, b)
        /\ \A k \in R : IsAbout(toController[k], packetBuffer, b)
    BY <2>2, <2>4, <2>5, <2>6
  <2>8. ASSUME NEW j \in 1 .. MaxBuffers, packetBuffer[j] # None, j # b
        PROVE  (\E h \in new : h.buffer = j) \/ (\E k \in R : toController[k].buffer = j)
    <3>1. j # 0
      BY SoftSwitchAssumption
    <3>2. \A h \in held : h.buffer = j => h \in new
      BY <1>1, <2>8 DEF new
    <3>3. QED BY <2>2, <2>8, <3>1, <3>2
  <2>9. Accounted(new, toController, packetBuffer, b)
    BY <2>2, <2>3, <2>7, <2>8 DEF Accounted, R
  <2>10. QED BY <1>3, <2>3, <2>9 DEF new
<1>4. QED BY <1>2, <1>3

\* What is said first reports no packet.
LEMMA AccountedSaid ==
    ASSUME TypeOK, NEW H, NEW i, Accounted(H, toController, packetBuffer, i),
           NEW said \in Seq(Messages), \A k \in 1 .. Len(said) : ~ Reports(said[k])
    PROVE  /\ toController \o said \in Seq(Messages) /\ (toController \o said) \o <<>> = toController \o said
           /\ Accounted(H, toController \o said, packetBuffer, i)
<1>1. toController \in Seq(Messages)
  BY TypeParts
<1> DEFINE before == toController \o said
<1>2. Accounted(H, before, packetBuffer, i)
  BY <1>1, AccountedMore
<1>3. before \in Seq(Messages)
  BY <1>1
<1> HIDE DEF before
<1>4. before \o <<>> = before
  BY <1>3
<1>5. QED BY <1>2, <1>3, <1>4 DEF before

\* A packet from a buffer, or none.
LEMMA BuffersBuffered ==
    ASSUME TypeOK, BuffersKept, NoLateRewrites, NEW b \in Ids, Answer(b),
           NEW tab \in Seq(Entries), NEW actions \in Seq(OutActions), RewritesFirst(actions),
           NEW said \in Seq(Messages), \A k \in 1 .. Len(said) : ~ Reports(said[k]),
           Commit(ProcessBuffered(actions, b, tab), said)
    PROVE  BuffersKept'
<1> DEFINE r == ProcessBuffered(actions, b, tab)
           before == toController \o said
<1>1. packetBuffer' = r.buffers /\ toController' = before \o r.told
  BY DEF Commit
<1>2. /\ b \in 0 .. MaxBuffers /\ PortsTyped /\ packetBuffer \in Slots
      /\ (b = 0 => held' = held)
      /\ (b # 0 => b \in 1 .. MaxBuffers /\ packetBuffer[b] # None /\ Accounted(held', toController, packetBuffer, b))
  BY TypeParts, AccountedUsed
<1> DEFINE H == held'
<1>3. Accounted(H, toController, packetBuffer, b)
  BY <1>2 DEF BuffersKept
<1> HIDE DEF H
<1>4. before \in Seq(Messages) /\ before \o <<>> = before /\ Accounted(H, before, packetBuffer, b)
  BY <1>3, AccountedSaid
<1> HIDE DEF before
<1>5. CASE b = 0
  <2>1. r = Start(None, None, tab)
    BY <1>5 DEF ProcessBuffered
  <2>2. r.buffers = packetBuffer /\ r.told = <<>>
    BY <2>1 DEF Start
  <2> HIDE DEF r
  <2>3. packetBuffer' = packetBuffer /\ toController' = before
    BY <1>1, <1>4, <2>2
  <2>4. QED BY <1>4, <1>5, <2>3 DEF BuffersKept, H, Accounted, ReportsIn, IsAbout, Reports
<1>6. CASE b # 0
  <2> DEFINE first == Start(packetBuffer[b].packet, packetBuffer[b].in_port, tab)
             final == Process(actions, first)
  <2>1. b \in 1 .. MaxBuffers /\ packetBuffer[b] # None /\ packetBuffer[b] \in Buffered
    BY <1>2, <1>6 DEF Slots
  <2>2. first \in States(tab) /\ final \in States(tab) /\ r = [final EXCEPT !.buffers[b] = None]
    BY <1>2, <1>6, <2>1, FromBuffer
  <2>3. first.told = <<>> /\ first.slots = {} /\ first.buffers = packetBuffer
    BY <2>1, StartTyped DEF Start
  <2> HIDE DEF first, r
  <2>4. Accounted(H, before \o first.told, first.buffers, b)
    BY <1>4, <2>3
  <2>5. Accounted(H, before \o final.told, final.buffers, b)
    BY <1>2, <1>4, <2>2, <2>3, <2>4, AccountedProcess
  <2> HIDE DEF final
  <2> DEFINE buffers == final.buffers
             told == final.told
             new == [buffers EXCEPT ![b] = None]
  <2>6. buffers \in Slots
    BY <2>2 DEF States, ProcessRecords
  <2>7. r.buffers = new /\ r.told = told
    BY <2>2 DEF States, ProcessRecords
  <2>8. Accounted(H, before \o told, buffers, b)
    BY <2>5
  <2> HIDE DEF buffers, told
  <2> DEFINE queue == before \o told
  <2>9. Accounted(H, queue, buffers, b)
    BY <2>8
  <2> HIDE DEF queue
  <2>10. Accounted(H, queue, new, 0)
    BY <2>1, <2>6, <2>9, AccountedReleased
  <2> HIDE DEF new
  <2>11. packetBuffer' = new /\ toController' = queue
    BY <1>1, <2>7 DEF queue
  <2>12. QED BY <2>10, <2>11 DEF BuffersKept, H, Accounted, ReportsIn, IsAbout, Reports
<1>7. QED BY <1>5, <1>6

\* The queue and the slots after a step are what has been shown to be accounted.
LEMMA BuffersAfter ==
    ASSUME NEW H, NEW queue, NEW buffers, Accounted(H, queue, buffers, 0),
           held' = H, toController' = queue, packetBuffer' = buffers
    PROVE  BuffersKept'
  BY DEF BuffersKept, Accounted, ReportsIn, IsAbout, Reports

LEMMA BuffersPacket ==
    ASSUME TypeOK, BuffersKept, NoLateRewrites, PacketArrives
    PROVE  BuffersKept'
<1>1. PICK packet \in Packets, p \in AllPorts : RxPacket(packet, p)
  BY DEF PacketArrives
<1>2. /\ table \in Seq(Entries) /\ packetBuffer \in Slots /\ PortsTyped /\ toController \in Seq(Messages)
  BY TypeParts
<1> DEFINE st == Start(packet, p, table)
           r == Lookup(st)
<1>3. packet \in AllPackets /\ p \in Int
  BY AnyControllerAssumption
<1>4. st \in States(table) /\ st.told = <<>> /\ st.slots = {} /\ st.buffers = packetBuffer
  BY <1>2, <1>3, StartTyped DEF Start
<1>5. Commit(r, <<>>) /\ held' = held
  BY <1>1 DEF RxPacket, PacketArrives
<1> HIDE DEF st
<1>6. toController \o <<>> = toController
  BY <1>2
<1>7. Accounted(held, toController \o st.told, st.buffers, 0)
  BY <1>4, <1>6 DEF BuffersKept
<1>8. 0 \in 0 .. MaxBuffers
  BY SoftSwitchAssumption
<1>9. Accounted(held, toController \o r.told, r.buffers, 0)
  BY <1>2, <1>4, <1>7, <1>8, AccountedLookup
<1>10. packetBuffer' = r.buffers /\ toController' = toController \o r.told
  BY <1>5, <1>6 DEF Commit
<1> HIDE DEF r
<1>11. QED BY <1>5, <1>9, <1>10, BuffersAfter

LEMMA BuffersFlowMod ==
    ASSUME TypeOK, BuffersKept, NoLateRewrites, FlowModArrives
    PROVE  BuffersKept'
<1>1. PICK fm \in FlowMods, b \in Ids : RxFlowMod([fm EXCEPT !.buffer = b]) /\ Answer(b)
  BY DEF FlowModArrives
<1> DEFINE r == FlowMod(table, fm)
           tab == r.table
           actions == fm.actions
           said == FlowsRemoved(r.removed) \o (IF r.error THEN <<Error>> ELSE <<>>)
<1>2. /\ tab \in Seq(Entries) /\ said \in Seq(Messages) /\ Commit(ProcessBuffered(actions, b, tab), said)
      /\ \A i \in 1 .. Len(said) : said[i].type \in {"flow_removed", "error"}
  BY <1>1, FlowModCommits
<1>3. actions \in Seq(OutActions) /\ RewritesFirst(actions)
  BY RequestActions DEF NoLateRewrites
<1> HIDE DEF r, tab, actions, said
<1>4. \A k \in 1 .. Len(said) : ~ Reports(said[k])
  BY <1>2 DEF Reports
<1>5. QED BY <1>1, <1>2, <1>3, <1>4, BuffersBuffered

LEMMA BuffersPacketOut ==
    ASSUME TypeOK, BuffersKept, NoLateRewrites, PacketOutArrives
    PROVE  BuffersKept'
<1>1. PICK po \in PacketOuts, b \in Ids :
        (po.packet = None \/ b = 0) /\ RxPacketOut([po EXCEPT !.buffer = b]) /\ Answer(b)
  BY DEF PacketOutArrives
<1>2. /\ table \in Seq(Entries) /\ packetBuffer \in Slots /\ PortsTyped /\ toController \in Seq(Messages)
  BY TypeParts
<1>3. /\ po.actions \in Seq(OutActions) /\ po.packet \in AllPackets \cup {None} /\ po.in_port \in Int
      /\ RewritesFirst(po.actions)
  BY RequestActions DEF NoLateRewrites
<1> DEFINE actions == po.actions
           packet == po.packet
           q == [po EXCEPT !.buffer = b]
<1>4. q.actions = actions /\ q.packet = packet /\ q.in_port = po.in_port /\ q.buffer = b
  BY PacketOutFor
<1>5. actions \in Seq(OutActions) /\ RewritesFirst(actions)
  BY <1>3
<1>6. CASE packet # None
  <2> DEFINE first == Start(packet, po.in_port, table)
             r == Process(actions, first)
  <2>1. Commit(r, <<>>)
    BY <1>1, <1>4, <1>6 DEF RxPacketOut
  <2>2. first \in States(table) /\ first.told = <<>> /\ first.slots = {} /\ first.buffers = packetBuffer
    BY <1>2, <1>3, <1>6, StartTyped DEF Start
  <2>3. held' = held
    <3>1. b = 0
      BY <1>1, <1>6
    <3>2. QED BY <1>1, <3>1 DEF Answer, TypeOK
  <2> HIDE DEF first, actions
  <2>4. toController \o <<>> = toController
    BY <1>2
  <2>5. Accounted(held, toController \o first.told, first.buffers, 0)
    BY <2>2, <2>4 DEF BuffersKept
  <2>6. 0 \in 0 .. MaxBuffers
    BY SoftSwitchAssumption
  <2>7. Accounted(held, toController \o r.told, r.buffers, 0)
    BY <1>2, <1>5, <2>2, <2>5, <2>6, AccountedProcess
  <2>8. packetBuffer' = r.buffers /\ toController' = toController \o r.told
    BY <2>1, <2>4 DEF Commit
  <2> HIDE DEF r
  <2>9. QED BY <2>3, <2>7, <2>8, BuffersAfter
<1>7. CASE packet = None
  <2> DEFINE said == <<>>
  <2>1. Commit(ProcessBuffered(actions, b, table), said)
    BY <1>1, <1>4, <1>7 DEF RxPacketOut
  <2>2. said \in Seq(Messages) /\ \A k \in 1 .. Len(said) : ~ Reports(said[k])
    BY ErrorOrNone
  <2> HIDE DEF actions, said
  <2>3. QED BY <1>1, <1>2, <1>5, <2>1, <2>2, BuffersBuffered
<1>8. QED BY <1>6, <1>7

\* A step that only says something.
LEMMA BuffersSaid ==
    ASSUME TypeOK, BuffersKept, NEW said \in Seq(Messages), Say(said), held' = held,
           \A k \in 1 .. Len(said) : ~ Reports(said[k])
    PROVE  BuffersKept'
<1> DEFINE queue == toController \o said
<1>1. toController \in Seq(Messages)
  BY TypeParts
<1>2. Accounted(held, queue, packetBuffer, 0)
  BY <1>1, AccountedMore DEF BuffersKept
<1>3. toController' = queue /\ packetBuffer' = packetBuffer
  BY DEF Say
<1> HIDE DEF queue
<1>4. QED BY <1>2, <1>3, BuffersAfter

LEMMA BuffersPortMod ==
    ASSUME TypeOK, BuffersKept, PortModArrives
    PROVE  BuffersKept'
<1>1. PICK p \in AllPorts, bit \in Bits, on \in BOOLEAN : RxPortMod(p, {bit}, IF on THEN {bit} ELSE {})
  BY DEF PortModArrives
<1>2. held' = held
  BY DEF PortModArrives
<1> DEFINE new == (ports[p] \ {bit}) \cup ((IF on THEN {bit} ELSE {}) \cap {bit})
           down == "PORT_DOWN" \in new
           m == [type |-> "port_status", port |-> p, reason |-> "MODIFY", down |-> down]
<1>3. Say(<<Error>>) \/ Say(<<>>) \/ Say(<<m>>)
  BY <1>1 DEF RxPortMod
<1>4. <<m>> \in Seq(Messages)
  <2>1. down \in BOOLEAN
    OBVIOUS
  <2> HIDE DEF down
  <2>2. QED BY <2>1, StatusTyped
<1>5. ~ Reports(m) /\ ~ Reports(Error)
  BY DEF Reports, Error
<1> HIDE DEF m
<1>6. /\ \A k \in 1 .. Len(<<m>>) : ~ Reports(<<m>>[k])
      /\ \A k \in 1 .. Len(<<Error>>) : ~ Reports(<<Error>>[k])
      /\ \A k \in 1 .. Len(<<>>) : ~ Reports(<<>>[k])
  BY <1>5
<1>7. CASE Say(<<m>>)
  BY <1>2, <1>4, <1>6, <1>7, BuffersSaid
<1>8. CASE Say(<<Error>>)
  BY <1>2, <1>6, <1>8, ErrorOrNone, BuffersSaid
<1>9. CASE Say(<<>>)
  BY <1>2, <1>6, <1>9, ErrorOrNone, BuffersSaid
<1>10. QED BY <1>3, <1>7, <1>8, <1>9

LEMMA BuffersPorts ==
    ASSUME TypeOK, BuffersKept, PortsChange
    PROVE  BuffersKept'
<1>1. PICK p \in LatePorts : AddPort(p) \/ DeletePort(p)
  BY DEF PortsChange
<1>2. held' = held /\ p \in AllPorts
  BY DEF PortsChange, AllPorts
<1>3. PICK reason \in {"ADD", "DELETE", "MODIFY"} :
        Say(<<[type |-> "port_status", port |-> p, reason |-> reason, down |-> FALSE]>>)
  BY <1>1 DEF AddPort, DeletePort
<1> DEFINE m == [type |-> "port_status", port |-> p, reason |-> reason, down |-> FALSE]
<1>4. <<m>> \in Seq(Messages)
  BY <1>2, StatusTyped
<1>5. ~ Reports(m)
  BY DEF Reports
<1>6. Say(<<m>>)
  BY <1>3
<1> HIDE DEF m
<1>7. \A k \in 1 .. Len(<<m>>) : ~ Reports(<<m>>[k])
  BY <1>5
<1>8. QED BY <1>2, <1>4, <1>6, <1>7, BuffersSaid

LEMMA BuffersExpiry ==
    ASSUME TypeOK, BuffersKept, Expiry
    PROVE  BuffersKept'
<1>1. PICK idle \in SUBSET { e \in ToSet(table) : e.idle }, hard \in SUBSET { e \in ToSet(table) : e.hard } :
        RemoveExpiredEntries(idle, hard)
  BY DEF Expiry
<1> DEFINE r == RemoveExpired(table, idle, hard)
           removed == r.removed
           more == FlowsRemoved(removed)
<1>2. Say(more) /\ held' = held
  BY <1>1 DEF RemoveExpiredEntries, Expiry
<1>3. removed \in Seq(Entries)
  BY TypeParts, ExpiredTyped
<1> HIDE DEF removed
<1>4. more \in Seq(Messages) /\ \A i \in 1 .. Len(more) : more[i].type = "flow_removed"
  BY <1>3, RemovedTyped, RemovedKinds
<1> HIDE DEF more
<1>5. \A i \in 1 .. Len(more) : ~ Reports(more[i])
  BY <1>4 DEF Reports
<1>6. QED BY <1>2, <1>4, <1>5, BuffersSaid

\* A report that has been on its way is held from now on.
LEMMA BuffersTake ==
    ASSUME TypeOK, BuffersKept, TakeMessage
    PROVE  BuffersKept'
<1> DEFINE n == Len(toController)
           m == Head(toController)
           queue == toController'
           R == ReportsIn(toController)
           S == ReportsIn(queue)
           H == held'
<1>1. /\ n \in Nat /\ n # 0 /\ m = toController[1]
      /\ DOMAIN toController = 1 .. n /\ DOMAIN queue = 1 .. n - 1
      /\ \A i \in 1 .. n - 1 : queue[i] = toController[i + 1]
  <2>1. toController \in Seq(Messages)
    BY TypeParts
  <2>2. QED BY <2>1, Taken
<1>2. packetBuffer' = packetBuffer /\ H = IF Reports(m) THEN held \cup {m} ELSE held
  BY DEF TakeMessage, Reports
<1> HIDE DEF n, m, queue, H
<1>3. \A k \in 1 .. n - 1 : k + 1 \in 1 .. n /\ k + 1 # 1 /\ \A l \in 1 .. n - 1 : k + 1 = l + 1 => k = l
  BY <1>1
<1>4. \A k \in 1 .. n : k = 1 \/ (k - 1 \in 1 .. n - 1 /\ (k - 1) + 1 = k)
  BY <1>1
<1>5. \A k \in S : k + 1 \in R /\ k + 1 # 1 /\ queue[k] = toController[k + 1] /\ \A l \in S : k + 1 = l + 1 => k = l
  BY <1>1, <1>3 DEF ReportsIn
<1>6. \A k \in R : k = 1 \/ (k - 1 \in S /\ queue[k - 1] = toController[k])
  BY <1>1, <1>4 DEF ReportsIn
<1>7. 1 \in R <=> Reports(m)
  <2>1. 1 \in 1 .. n
    BY <1>1
  <2>2. QED BY <1>1, <2>1 DEF ReportsIn
<1>8. /\ \A g, h \in held : g.buffer = h.buffer => g = h
      /\ \A h \in held, k \in R : h.buffer # toController[k].buffer
      /\ \A k, l \in R : toController[k].buffer = toController[l].buffer => k = l
      /\ \A h \in held : IsAbout(h, packetBuffer, 0)
      /\ \A k \in R : IsAbout(toController[k], packetBuffer, 0)
      /\ \A j \in 1 .. MaxBuffers : packetBuffer[j] # None /\ j # 0 =>
           (\E h \in held : h.buffer = j) \/ (\E k \in R : toController[k].buffer = j)
  BY DEF BuffersKept, Accounted
<1> HIDE DEF R, S, IsAbout, Reports
<1>9. \A h \in H : h \in held \/ (Reports(m) /\ h = toController[1])
  BY <1>1, <1>2
<1>10. \A g, h \in H : g.buffer = h.buffer => g = h
  BY <1>7, <1>8, <1>9
<1>11. \A h \in H, k \in S : h.buffer # queue[k].buffer
  BY <1>5, <1>7, <1>8, <1>9
<1>12. \A k, l \in S : queue[k].buffer = queue[l].buffer => k = l
  BY <1>5, <1>8
<1>13. \A h \in H : IsAbout(h, packetBuffer, 0)
  BY <1>7, <1>8, <1>9
<1>14. \A k \in S : IsAbout(queue[k], packetBuffer, 0)
  BY <1>5, <1>8
<1>15. ASSUME NEW j \in 1 .. MaxBuffers, packetBuffer[j] # None, j # 0
       PROVE  (\E h \in H : h.buffer = j) \/ (\E k \in S : queue[k].buffer = j)
  <2>1. CASE \E h \in held : h.buffer = j
    BY <1>2, <2>1
  <2>2. CASE \E k \in R : toController[k].buffer = j
    <3>1. PICK k \in R : toController[k].buffer = j
      BY <2>2
    <3>2. CASE k = 1
      BY <1>1, <1>2, <1>7, <3>1, <3>2
    <3>3. CASE k # 1
      BY <1>6, <3>1, <3>3
    <3>4. QED BY <3>2, <3>3
  <2>3. QED BY <1>8, <1>15, <2>1, <2>2
<1>16. Accounted(H, queue, packetBuffer, 0)
  BY <1>10, <1>11, <1>12, <1>13, <1>14, <1>15 DEF Accounted, S
<1>17. held' = H /\ toController' = queue
  BY DEF H, queue
<1>18. QED BY <1>2, <1>16, <1>17, BuffersAfter

LEMMA BuffersInit == Init => BuffersKept
<1>1. SUFFICES ASSUME Init PROVE BuffersKept
  OBVIOUS
<1>2. ReportsIn(toController) = {} /\ held = {} /\ \A j \in 1 .. MaxBuffers : packetBuffer[j] = None
  BY <1>1 DEF Init, ReportsIn
<1>3. QED BY <1>2 DEF BuffersKept, Accounted

LEMMA BuffersHold == NoLateRewrites => (Spec => [](TypeOK /\ BuffersKept))
<1>1. SUFFICES ASSUME NoLateRewrites PROVE Spec => [](TypeOK /\ BuffersKept)
  OBVIOUS
<1>2. BuffersKept /\ TypeOK /\ TypeOK' /\ [Next]_vars => BuffersKept'
  <2>1. SUFFICES ASSUME BuffersKept, TypeOK, TypeOK', [Next]_vars PROVE BuffersKept'
    OBVIOUS
  <2>2. CASE Next
    BY <1>1, <2>1, <2>2, BuffersPacket, BuffersFlowMod, BuffersPacketOut, BuffersPortMod, BuffersPorts,
       BuffersExpiry, BuffersTake DEF Next
  <2>3. CASE UNCHANGED vars
    BY <2>1, <2>3 DEF vars, switchVars, BuffersKept, Accounted, ReportsIn, IsAbout, Reports
  <2>4. QED BY <2>1, <2>2, <2>3
<1>3. Spec => Init /\ [][Next]_vars
  BY DEF Spec
<1>4. QED BY <1>2, <1>3, BuffersInit, TypesHold, PTL

LEMMA KeptAccounts ==
    ASSUME TypeOK, BuffersKept
    PROVE  BuffersAccounted
<1> DEFINE R == ReportsIn(toController)
<1>1. /\ \A g, h \in held : g.buffer = h.buffer => g = h
      /\ \A h \in held, k \in R : h.buffer # toController[k].buffer
      /\ \A k, l \in R : toController[k].buffer = toController[l].buffer => k = l
      /\ \A h \in held : IsAbout(h, packetBuffer, 0)
      /\ \A k \in R : IsAbout(toController[k], packetBuffer, 0)
      /\ \A j \in 1 .. MaxBuffers : packetBuffer[j] # None /\ j # 0 =>
           (\E h \in held : h.buffer = j) \/ (\E k \in R : toController[k].buffer = j)
  BY DEF BuffersKept, Accounted
<1>2. Reported = held \cup { toController[k] : k \in R }
  BY DEF Reported, ReportsIn, Reports
<1> HIDE DEF R, IsAbout
<1>3. \A g, h \in Reported : g.buffer = h.buffer => g = h
  BY <1>1, <1>2
<1>4. \A m \in Reported : /\ packetBuffer[m.buffer] # None
                          /\ packetBuffer[m.buffer] = [packet |-> m.packet, in_port |-> m.in_port]
  <2>1. \A m \in Reported : IsAbout(m, packetBuffer, 0)
    BY <1>1, <1>2
  <2>2. \A m : IsAbout(m, packetBuffer, 0) =>
               /\ packetBuffer[m.buffer] # None
               /\ packetBuffer[m.buffer] = [packet |-> m.packet, in_port |-> m.in_port]
    BY DEF IsAbout
  <2>3. QED BY <2>1, <2>2
<1>5. ASSUME NEW i \in 1 .. MaxBuffers
      PROVE  LET r == { m \in Reported : m.buffer = i }
             IN  IF packetBuffer[i] = None THEN r = {}
                 ELSE Cardinality(r) = 1 /\ \A m \in r :
                        m.packet = packetBuffer[i].packet /\ m.in_port = packetBuffer[i].in_port
  <2> DEFINE r == { m \in Reported : m.buffer = i }
  <2>1. CASE packetBuffer[i] = None
    BY <1>4, <2>1
  <2>2. CASE packetBuffer[i] # None
    <3>1. i # 0
      BY SoftSwitchAssumption
    <3>2. PICK m \in Reported : m.buffer = i
      BY <1>1, <1>2, <2>2, <3>1
    <3>3. r = {m}
      BY <1>3, <3>2
    <3>4. Cardinality(r) = 1
      BY <3>3, FS_Singleton
    <3>5. \A x \in r : x.packet = packetBuffer[i].packet /\ x.in_port = packetBuffer[i].in_port
      <4>1. TAKE x \in r
      <4>2. packetBuffer[i] = [packet |-> x.packet, in_port |-> x.in_port]
        BY <1>4
      <4>3. QED BY <4>2
    <3>6. QED BY <2>2, <3>4, <3>5
  <2>3. QED BY <2>1, <2>2
<1>6. QED BY <1>5 DEF BuffersAccounted

\* The same of the specification of the switch.
LEMMA BuffersHoldAccounted == NoLateRewrites => (Spec => []BuffersAccounted)
<1>1. SUFFICES ASSUME NoLateRewrites PROVE Spec => []BuffersAccounted
  OBVIOUS
<1>2. Spec => [](TypeOK /\ BuffersKept)
  BY <1>1, BuffersHold
<1>3. TypeOK /\ BuffersKept => BuffersAccounted
  BY KeptAccounts
<1>4. QED BY <1>2, <1>3, PTL

-----------------------------------------------------------------------------
(* The table as a set of entries.                                           *)

Alike(d, e) == d.match = e.match /\ d.priority = e.priority

\* By descending priority, and nothing is there twice.
Tidy(t) == /\ Sorted(t)
           /\ \A i, j \in DOMAIN t : Alike(t[i], t[j]) => i = j

LEMMA Members ==
    ASSUME NEW t \in Seq(Entries)
    PROVE  /\ Len(t) \in Nat /\ DOMAIN t = 1 .. Len(t) /\ ToSet(t) = { t[i] : i \in 1 .. Len(t) }
           /\ \A i \in 1 .. Len(t) : t[i] \in Entries /\ EffectivePriority(t[i]) \in Nat
           /\ ToSet(t) \subseteq Entries
<1>1. Len(t) \in Nat /\ DOMAIN t = 1 .. Len(t) /\ \A i \in 1 .. Len(t) : t[i] \in Entries
  OBVIOUS
<1>2. \A i \in 1 .. Len(t) : EffectivePriority(t[i]) \in Nat
  BY <1>1, EntryTypes
<1>3. ToSet(t) = { t[i] : i \in 1 .. Len(t) }
  BY <1>1 DEF ToSet
<1>4. QED BY <1>1, <1>2, <1>3

\* Entries that are different members of a tidy table are not alike.
LEMMA TidyAlike ==
    ASSUME NEW t \in Seq(Entries), Tidy(t), NEW d \in ToSet(t), NEW e \in ToSet(t), Alike(d, e)
    PROVE  d = e
<1>1. PICK i \in 1 .. Len(t) : d = t[i]
  BY Members
<1>2. PICK j \in 1 .. Len(t) : e = t[j]
  BY Members
<1>3. i = j
  BY <1>1, <1>2, Members DEF Tidy
<1>4. QED BY <1>1, <1>2, <1>3

LEMMA TidyCounted ==
    ASSUME NEW t \in Seq(Entries), Tidy(t)
    PROVE  Cardinality(ToSet(t)) = Len(t)
<1> DEFINE n == Len(t)
           S == ToSet(t)
<1>1. n \in Nat /\ DOMAIN t = 1 .. n /\ S = { t[i] : i \in 1 .. n }
  BY Members
<1>2. t \in [1 .. n -> S]
  <2>1. t \in [1 .. n -> Entries] /\ \A i \in 1 .. n : t[i] \in S
    BY <1>1
  <2> HIDE DEF n, S
  <2>2. QED BY <2>1
<1>3. \A i, j \in 1 .. n : t[i] = t[j] => i = j
  BY <1>1 DEF Tidy, Alike
<1> HIDE DEF n, S
<1>4. t \in Injection(1 .. n, S)
  BY <1>2, <1>3 DEF Injection, IsInjective
<1>5. t \in Surjection(1 .. n, S)
  BY <1>1, <1>2 DEF Surjection
<1>6. ExistsBijection(1 .. n, S)
  BY <1>4, <1>5 DEF ExistsBijection, Bijection
<1>7. 0 \in Nat /\ IsFiniteSet(1 .. n) /\ Cardinality(1 .. n) = n
  BY <1>1, FS_Interval
<1>8. Cardinality(S) = n
  BY <1>6, <1>7, FS_Bijection
<1>9. QED BY <1>8 DEF S, n

LEMMA TidyWithout ==
    ASSUME NEW t \in Seq(Entries), Tidy(t), NEW gone
    PROVE  /\ Without(t, gone) \in Seq(Entries) /\ Tidy(Without(t, gone))
           /\ ToSet(Without(t, gone)) = ToSet(t) \ gone
<1> DEFINE places == { i \in DOMAIN t : t[i] \in gone => \E j \in 1 .. (i - 1) : t[j] = t[i] }
           u == Without(t, gone)
<1>1. DOMAIN t = 1 .. Len(t) /\ Len(t) \in Nat /\ ToSet(t) = { t[i] : i \in 1 .. Len(t) }
  BY Members
<1>2. \A i \in 1 .. Len(t) : i \in places <=> t[i] \notin gone
  <2>1. TAKE i \in 1 .. Len(t)
  <2>2. ASSUME NEW j \in 1 .. (i - 1), t[j] = t[i] PROVE FALSE
    <3>1. j \in 1 .. Len(t) /\ j # i
      BY <1>1
    <3>2. QED BY <1>1, <2>2, <3>1 DEF Tidy, Alike
  <2>3. QED BY <1>1, <2>2
<1>3. u = Picked(t, places)
  BY DEF Without
<1> HIDE DEF places, u
<1>4. u \in Seq(Entries) /\ Origins(t, places, u) # {}
  BY <1>3, PickedOrigins
<1>5. PICK c \in Origins(t, places, u) : TRUE
  BY <1>4
<1>6. /\ c \in [1 .. Len(u) -> 1 .. Len(t)]
      /\ \A k \in 1 .. Len(u) : c[k] \in places /\ u[k] = t[c[k]]
      /\ \A k, l \in 1 .. Len(u) : k < l => c[k] < c[l]
      /\ \A i \in 1 .. Len(t) : i \in places => \E k \in 1 .. Len(u) : c[k] = i
  BY <1>5 DEF Origins
<1>7. DOMAIN u = 1 .. Len(u) /\ Len(u) \in Nat /\ ToSet(u) = { u[i] : i \in 1 .. Len(u) }
  BY <1>4, Members
<1>8. Sorted(u)
  BY <1>1, <1>6, <1>7 DEF Tidy, Sorted
<1>9. ASSUME NEW k \in 1 .. Len(u), NEW l \in 1 .. Len(u), Alike(u[k], u[l]) PROVE k = l
  <2>1. c[k] = c[l]
    BY <1>1, <1>6, <1>9 DEF Tidy
  <2>2. ~ (k < l) /\ ~ (l < k)
    <3>1. c[k] \in Int /\ c[l] \in Int
      BY <1>6
    <3>2. QED BY <1>6, <2>1, <3>1
  <2>3. QED BY <1>7, <2>2
<1>10. ToSet(u) = ToSet(t) \ gone
  <2>1. ASSUME NEW e \in ToSet(u) PROVE e \in ToSet(t) \ gone
    <3>1. PICK k \in 1 .. Len(u) : e = u[k]
      BY <1>7
    <3>2. c[k] \in 1 .. Len(t) /\ e = t[c[k]] /\ c[k] \in places
      BY <1>6, <3>1
    <3>3. QED BY <1>1, <1>2, <3>2
  <2>2. ASSUME NEW e \in ToSet(t) \ gone PROVE e \in ToSet(u)
    <3>1. PICK i \in 1 .. Len(t) : e = t[i]
      BY <1>1
    <3>2. i \in places
      BY <1>2, <2>2, <3>1
    <3>3. PICK k \in 1 .. Len(u) : c[k] = i
      BY <1>6, <3>2
    <3>4. e = u[k]
      BY <1>6, <3>1, <3>3
    <3>5. QED BY <1>7, <3>4
  <2>3. QED BY <2>1, <2>2
<1>11. Tidy(u)
  BY <1>7, <1>8, <1>9 DEF Tidy
<1>12. QED BY <1>4, <1>10, <1>11 DEF u

LEMMA TidyAdd ==
    ASSUME NEW t \in Seq(Entries), Tidy(t), NEW e \in Entries, \A d \in ToSet(t) : ~ Alike(d, e)
    PROVE  Tidy(AddEntry(t, e)) /\ ToSet(AddEntry(t, e)) = ToSet(t) \cup {e}
<1> DEFINE p == EffectivePriority(e)
           place == Place(t, p)
           u == AddEntry(t, e)
           n == Len(t)
<1>1. DOMAIN t = 1 .. n /\ n \in Nat /\ ToSet(t) = { t[i] : i \in 1 .. n }
      /\ \A i \in 1 .. n : EffectivePriority(t[i]) \in Nat
  BY Members
<1>2. p \in Nat
  BY EntryTypes
<1>3. place \in 0 .. n /\ \A j \in 1 .. n : IF j <= place THEN EffectivePriority(t[j]) > p
                                                         ELSE EffectivePriority(t[j]) <= p
  <2> HIDE DEF p
  <2>1. QED BY <1>2, Placed DEF Tidy
<1>4. u = InsertAt(t, place + 1, e)
  BY DEF AddEntry
<1> HIDE DEF place, u, n
<1>5. place + 1 \in 1 .. n + 1
  BY <1>1, <1>3
<1> DEFINE q == place + 1
<1> HIDE DEF q
<1>6. /\ u \in Seq(Entries) /\ Len(u) = n + 1
      /\ \A k \in 1 .. n + 1 : u[k] = IF k < q THEN t[k] ELSE IF k = q THEN e ELSE t[k - 1]
  <2>1. q \in 1 .. Len(t) + 1 /\ u = InsertAt(t, q, e)
    BY <1>4, <1>5 DEF q, n
  <2>2. QED BY <2>1, InsertedAt DEF n
<1>7. DOMAIN u = 1 .. n + 1 /\ ToSet(u) = { u[i] : i \in 1 .. n + 1 }
  BY <1>6, Members
<1>8. \A k \in 1 .. n + 1 : \/ k < q /\ k \in 1 .. n /\ u[k] = t[k]
                            \/ k = q /\ u[k] = e
                            \/ k > q /\ k - 1 \in 1 .. n /\ u[k] = t[k - 1]
  BY <1>1, <1>5, <1>6 DEF q
<1>9. ToSet(u) = ToSet(t) \cup {e}
  <2>1. ASSUME NEW d \in ToSet(u) PROVE d \in ToSet(t) \cup {e}
    BY <1>1, <1>7, <1>8
  <2>2. e \in ToSet(u)
    <3>1. q \in 1 .. n + 1 /\ u[q] = e
      BY <1>5, <1>6 DEF q
    <3>2. QED BY <1>7, <3>1
  <2>3. ASSUME NEW i \in 1 .. n PROVE t[i] \in ToSet(u)
    <3>1. CASE i < q
      <4>1. i \in 1 .. n + 1 /\ u[i] = t[i]
        BY <1>1, <1>6, <3>1
      <4>2. QED BY <1>7, <4>1
    <3>2. CASE ~ (i < q)
      <4>1. i + 1 \in 1 .. n + 1 /\ ~ (i + 1 < q) /\ i + 1 # q /\ (i + 1) - 1 = i
        BY <1>1, <1>5, <3>2 DEF q
      <4>2. u[i + 1] = t[i]
        BY <1>6, <4>1
      <4>3. QED BY <1>7, <4>1, <4>2
    <3>3. QED BY <3>1, <3>2
  <2>4. QED BY <1>1, <2>1, <2>2, <2>3
<1>10. ASSUME NEW i \in 1 .. n + 1, NEW j \in 1 .. n + 1, i < j
       PROVE  EffectivePriority(u[i]) >= EffectivePriority(u[j])
  <2> DEFINE EP(d) == EffectivePriority(d)
  <2>1. \A k, l \in 1 .. n : k < l => EP(t[k]) >= EP(t[l])
    BY <1>1 DEF Tidy, Sorted
  <2>2. \A k \in 1 .. n : /\ EP(t[k]) \in Nat
                          /\ k < q => EP(t[k]) > EP(e)
                          /\ k >= q => EP(t[k]) <= EP(e)
    BY <1>1, <1>3 DEF q, p
  <2>3. EP(e) \in Nat
    BY <1>2 DEF p
  <2> HIDE DEF EP
  <2>4. CASE i < q
    <3>1. i \in 1 .. n /\ u[i] = t[i]
      BY <1>8, <1>5, <2>4 DEF q
    <3>2. CASE j < q
      BY <1>5, <1>8, <1>10, <2>1, <3>1, <3>2 DEF q, EP
    <3>3. CASE j = q
      <4>1. u[j] = e
        BY <1>5, <1>8, <3>3 DEF q
      <4>2. EP(t[i]) > EP(e)
        BY <2>2, <2>4, <3>1
      <4>3. EP(u[i]) >= EP(u[j])
        BY <2>2, <2>3, <3>1, <4>1, <4>2
      <4>4. QED BY <4>3 DEF EP
    <3>4. CASE j > q
      <4>1. j - 1 \in 1 .. n /\ u[j] = t[j - 1] /\ j - 1 >= q
        BY <1>5, <1>8, <3>4 DEF q
      <4>2. EP(t[i]) > EP(e) /\ EP(t[j - 1]) <= EP(e) /\ EP(t[i]) \in Nat /\ EP(t[j - 1]) \in Nat
        BY <2>2, <2>4, <3>1, <4>1
      <4>3. EP(u[i]) >= EP(u[j])
        BY <2>3, <3>1, <4>1, <4>2
      <4>4. QED BY <4>3 DEF EP
    <3>5. QED BY <1>5, <3>2, <3>3, <3>4 DEF q
  <2>5. CASE i >= q
    <3>1. j > q /\ j - 1 \in 1 .. n /\ u[j] = t[j - 1] /\ j - 1 >= q
      BY <1>5, <1>8, <1>10, <2>5 DEF q
    <3>2. CASE i = q
      <4>1. u[i] = e
        BY <1>5, <1>8, <3>2 DEF q
      <4>2. EP(t[j - 1]) <= EP(e) /\ EP(t[j - 1]) \in Nat
        BY <2>2, <3>1
      <4>3. EP(u[i]) >= EP(u[j])
        BY <2>3, <3>1, <4>1, <4>2
      <4>4. QED BY <4>3 DEF EP
    <3>3. CASE i > q
      <4>1. i - 1 \in 1 .. n /\ u[i] = t[i - 1] /\ i - 1 < j - 1
        BY <1>5, <1>8, <1>10, <3>3 DEF q
      <4>2. EP(t[i - 1]) >= EP(t[j - 1])
        BY <2>1, <3>1, <4>1
      <4>3. EP(u[i]) >= EP(u[j])
        BY <3>1, <4>1, <4>2
      <4>4. QED BY <4>3 DEF EP
    <3>4. QED BY <1>5, <2>5, <3>2, <3>3 DEF q
  <2>6. QED BY <1>5, <2>4, <2>5 DEF q
<1>11. ASSUME NEW i \in 1 .. n + 1, NEW j \in 1 .. n + 1, Alike(u[i], u[j]) PROVE i = j
  <2>1. \A k, l \in 1 .. n : Alike(t[k], t[l]) => k = l
    BY <1>1 DEF Tidy
  <2>2. \A k \in 1 .. n : ~ Alike(t[k], e) /\ ~ Alike(e, t[k])
    BY <1>1 DEF Alike
  <2> HIDE DEF Alike
  <2>3. (i = q) <=> (j = q)
    BY <1>5, <1>8, <1>11, <2>2 DEF q
  <2>4. (i < q) <=> (j < q)
    <3>1. CASE i < q /\ j > q
      <4>1. i \in 1 .. n /\ u[i] = t[i] /\ j - 1 \in 1 .. n /\ u[j] = t[j - 1]
        BY <1>5, <1>8, <3>1 DEF q
      <4>2. i = j - 1
        BY <1>11, <2>1, <4>1
      <4>3. QED BY <1>5, <3>1, <4>2 DEF q
    <3>2. CASE j < q /\ i > q
      <4>1. j \in 1 .. n /\ u[j] = t[j] /\ i - 1 \in 1 .. n /\ u[i] = t[i - 1]
        BY <1>5, <1>8, <3>2 DEF q
      <4>2. j = i - 1
        BY <1>11, <2>1, <4>1
      <4>3. QED BY <1>5, <3>2, <4>2 DEF q
    <3>3. i < q \/ i = q \/ i > q
      BY <1>5 DEF q
    <3>4. j < q \/ j = q \/ j > q
      BY <1>5 DEF q
    <3>5. i < q => i # q
      BY <1>5 DEF q
    <3>6. j < q => j # q
      BY <1>5 DEF q
    <3>7. QED BY <2>3, <3>1, <3>2, <3>3, <3>4, <3>5, <3>6
  <2>5. CASE i = q
    BY <2>3, <2>5
  <2>6. CASE i < q
    <3>1. i \in 1 .. n /\ u[i] = t[i] /\ j \in 1 .. n /\ u[j] = t[j]
      BY <1>5, <1>8, <2>4, <2>6 DEF q
    <3>2. QED BY <1>11, <2>1, <3>1
  <2>7. CASE i > q
    <3>1. j > q
      BY <1>5, <2>3, <2>4, <2>7 DEF q
    <3>2. i - 1 \in 1 .. n /\ u[i] = t[i - 1] /\ j - 1 \in 1 .. n /\ u[j] = t[j - 1]
      BY <1>5, <1>8, <2>7, <3>1 DEF q
    <3>3. i - 1 = j - 1
      BY <1>11, <2>1, <3>2
    <3>4. QED BY <3>3
  <2>8. QED BY <1>5, <2>5, <2>6, <2>7 DEF q
<1>12. Tidy(u)
  BY <1>7, <1>10, <1>11 DEF Tidy, Sorted
<1>13. QED BY <1>9, <1>12 DEF u

\* The terms of the promise are those of the table.
LEMMA MatchFields == \A m \in Matches : DOMAIN m = Fields /\ \A f \in Fields : m[f] \in Int \cup {Wild} \cup Addresses
  BY DEF Matches, Fields

LEMMA CoversIs ==
    ASSUME NEW m \in Matches, NEW n
    PROVE  (Promise!Covers(m, n) <=> Encompasses(m, n)) /\ (Promise!Matches(m, n) <=> Encompasses(m, n))
  BY MatchFields DEF Promise!Covers, Promise!Matches, Encompasses

LEMMA SameIs == \A d, e : Promise!Same(d, e) <=> Alike(d, e)
  BY DEF Promise!Same, Alike

LEMMA HigherIs ==
    ASSUME NEW d \in Entries, NEW e \in Entries
    PROVE  Promise!Higher(d, e) <=> EffectivePriority(d) > EffectivePriority(e)
<1>1. d.match \in Matches /\ e.match \in Matches /\ d.priority \in Priorities /\ e.priority \in Priorities
  BY EntryTypes
<1>2. /\ d.priority \in Nat /\ d.priority < 65537
      /\ e.priority \in Nat /\ e.priority < 65537
  BY <1>1, PrioritiesBelow
<1>3. (Promise!Exact(d.match) <=> ~ IsWildcarded(d.match)) /\ (Promise!Exact(e.match) <=> ~ IsWildcarded(e.match))
  BY <1>1, MatchFields DEF Promise!Exact, IsWildcarded
<1>4. QED BY <1>2, <1>3 DEF Promise!Higher, EffectivePriority

LEMMA EncompassesItself == \A m : Encompasses(m, m)
  BY DEF Encompasses

\* An entry that is refused because of an overlap does overlap.
LEMMA OverlapIs ==
    ASSUME NEW t \in Seq(Entries), NEW new \in Entries, Overlapping(t, new)
    PROVE  \E d \in ToSet(t) : Promise!Overlap(d, new)
<1>1. PICK i \in DOMAIN t : /\ EffectivePriority(t[i]) = EffectivePriority(new)
                            /\ \/ IsMatchedBy(t[i], new.match, 0, FALSE, None)
                               \/ IsMatchedBy(new, t[i].match, 0, FALSE, None)
  BY DEF Overlapping
<1> DEFINE d == t[i]
<1>2. d \in ToSet(t) /\ d \in Entries
  BY Members
<1> HIDE DEF d
<1>3. EffectivePriority(d) = EffectivePriority(new) /\ EffectivePriority(d) \in Nat
  BY <1>1, <1>2, EntryTypes DEF d
<1>4. ~ Promise!Higher(d, new) /\ ~ Promise!Higher(new, d)
  BY <1>2, <1>3, HigherIs
<1>5. Encompasses(new.match, d.match) \/ Encompasses(d.match, new.match)
  BY <1>1 DEF IsMatchedBy, d
<1>6. DOMAIN d.match = Fields
  BY <1>2, EntryTypes, MatchFields
<1>7. \A f \in DOMAIN d.match : d.match[f] \in {Wild, new.match[f]} \/ new.match[f] = Wild
  BY <1>5, <1>6 DEF Encompasses
<1>8. QED BY <1>2, <1>4, <1>7 DEF Promise!Overlap

\* What an added entry does to the set of entries, and what a refusal does.
Others(S, new) == { d \in S : ~ Alike(d, new) }

Added(S, new, T) ==
    \/ /\ "EMERG" \notin new.flags
       /\ T = IF Cardinality(Others(S, new)) < MaxEntries THEN Others(S, new) \cup {new} ELSE Others(S, new)
    \/ /\ \/ "EMERG" \in new.flags
          \/ "CHECK_OVERLAP" \in new.flags /\ \E d \in S : Promise!Overlap(d, new)
       /\ T = S

LEMMA AddKeeps ==
    ASSUME NEW t \in Seq(Entries), Tidy(t), NEW fm \in FlowMods,
           fm.command # "ADD" => \A d \in ToSet(t) : ~ Alike(d, Entry(fm))
    PROVE  LET u == FlowModAdd(t, fm).table IN Tidy(u) /\ Added(ToSet(t), Entry(fm), ToSet(u))
<1> DEFINE same == IF fm.command # "ADD" THEN {} ELSE MatchingEntries(t, fm.match, fm.priority, TRUE, None)
           kept == Without(t, same)
           new == Entry(fm)
           u == FlowModAdd(t, fm).table
<1>1. new \in Entries /\ new.match = fm.match /\ new.priority = fm.priority /\ new.flags = fm.flags
  BY EntryOf DEF Entry
<1>2. DOMAIN t = 1 .. Len(t) /\ ToSet(t) = { t[i] : i \in 1 .. Len(t) }
  BY Members
<1> HIDE DEF new
<1>3. \A d : IsMatchedBy(d, fm.match, fm.priority, TRUE, None) <=> Alike(d, new)
  BY <1>1 DEF IsMatchedBy, Alike
<1>4. MatchingEntries(t, fm.match, fm.priority, TRUE, None) = { d \in ToSet(t) : Alike(d, new) }
  BY <1>2, <1>3 DEF MatchingEntries
<1>5. ToSet(t) \ same = Others(ToSet(t), new)
  BY <1>4 DEF Others, new
<1> HIDE DEF same
<1>6. kept \in Seq(Entries) /\ Tidy(kept) /\ ToSet(kept) = Others(ToSet(t), new)
  BY <1>5, TidyWithout
<1> HIDE DEF kept
<1>7. Cardinality(Others(ToSet(t), new)) = Len(kept) /\ Len(kept) \in Nat
  BY <1>6, TidyCounted, Members
<1>8. Tidy(AddEntry(kept, new)) /\ ToSet(AddEntry(kept, new)) = Others(ToSet(t), new) \cup {new}
  <2>1. \A d \in ToSet(kept) : ~ Alike(d, new)
    BY <1>6 DEF Others
  <2>2. QED BY <1>1, <1>6, <2>1, TidyAdd
<1>9. FlowModAdd(t, fm) =
        IF \/ "EMERG" \in fm.flags
           \/ "CHECK_OVERLAP" \in fm.flags /\ Overlapping(t, new)
        THEN Failed(t)
        ELSE IF Len(kept) >= MaxEntries THEN Failed(kept)
        ELSE Done(AddEntry(kept, new))
  BY DEF FlowModAdd, kept, same, new
<1>10. CASE "EMERG" \in fm.flags \/ ("CHECK_OVERLAP" \in fm.flags /\ Overlapping(t, new))
  <2>1. u = t
    BY <1>9, <1>10 DEF Failed
  <2>2. "CHECK_OVERLAP" \in fm.flags /\ Overlapping(t, new) => \E d \in ToSet(t) : Promise!Overlap(d, new)
    BY <1>1, OverlapIs
  <2> HIDE DEF u
  <2>3. Added(ToSet(t), new, ToSet(u))
    BY <1>1, <1>10, <2>1, <2>2 DEF Added
  <2>4. Tidy(u)
    BY <2>1
  <2>5. QED BY <2>3, <2>4 DEF new, u
<1>11. CASE ~ ("EMERG" \in fm.flags \/ ("CHECK_OVERLAP" \in fm.flags /\ Overlapping(t, new)))
  <2>1. MaxEntries \in Nat
    BY FlowTableAssumption
  <2>2. CASE Len(kept) >= MaxEntries
    <3>1. u = kept
      BY <1>9, <1>11, <2>2 DEF Failed
    <3>2. ~ (Cardinality(Others(ToSet(t), new)) < MaxEntries)
      BY <1>7, <2>1, <2>2
    <3> HIDE DEF u
    <3>3. Added(ToSet(t), new, ToSet(u))
      BY <1>1, <1>6, <1>11, <3>1, <3>2 DEF Added
    <3>4. QED BY <1>6, <3>1, <3>3 DEF new, u
  <2>3. CASE ~ (Len(kept) >= MaxEntries)
    <3>1. u = AddEntry(kept, new)
      BY <1>9, <1>11, <2>3 DEF Done
    <3>2. Cardinality(Others(ToSet(t), new)) < MaxEntries
      BY <1>7, <2>1, <2>3
    <3> HIDE DEF u
    <3>3. Added(ToSet(t), new, ToSet(u))
      BY <1>1, <1>8, <1>11, <3>1, <3>2 DEF Added
    <3>4. QED BY <1>8, <3>1, <3>3 DEF new, u
  <2>4. QED BY <2>2, <2>3
<1>12. QED BY <1>10, <1>11

WithActions(S, actions) == { [e EXCEPT !.actions = actions] : e \in S }

\* Entries get other actions, and stay in their places.
LEMMA ModifyKeeps ==
    ASSUME NEW t \in Seq(Entries), Tidy(t), NEW fm \in FlowMods, NEW strict \in BOOLEAN,
           NEW S, S = { e \in ToSet(t) : IsMatchedBy(e, fm.match, fm.priority, strict, None) }, S # {}
    PROVE  LET u == FlowModModify(t, fm, strict).table
           IN  Tidy(u) /\ ToSet(u) = (ToSet(t) \ S) \cup WithActions(S, fm.actions)
<1> DEFINE New(e) == [e EXCEPT !.actions = fm.actions]
           Is(e) == IsMatchedBy(e, fm.match, fm.priority, strict, None)
           u == [i \in DOMAIN t |-> IF Is(t[i]) THEN New(t[i]) ELSE t[i]]
           n == Len(t)
<1>1. n \in Nat /\ DOMAIN t = 1 .. n /\ ToSet(t) = { t[i] : i \in 1 .. n } /\ \A i \in 1 .. n : t[i] \in Entries
  BY Members
<1>2. FlowModModify(t, fm, strict).table = u
  <2>1. ~ \A i \in DOMAIN t : ~ Is(t[i])
    BY <1>1
  <2>2. QED BY <2>1 DEF FlowModModify, Done
<1>3. \A e \in Entries : New(e) \in Entries /\ New(e).match = e.match /\ New(e).priority = e.priority
  BY Modified
<1>4. DOMAIN u = 1 .. n /\ \A i \in 1 .. n : u[i] = IF Is(t[i]) THEN New(t[i]) ELSE t[i]
  BY <1>1
<1>5. S = { e \in ToSet(t) : Is(e) }
  OBVIOUS
<1> HIDE DEF u, n, Is, New
<1>6. ToSet(u) = { u[i] : i \in 1 .. n }
  BY <1>4 DEF ToSet
<1>7. \A i \in 1 .. n : u[i].match = t[i].match /\ u[i].priority = t[i].priority
  BY <1>1, <1>3, <1>4
<1>8. \A i \in 1 .. n : EffectivePriority(u[i]) = EffectivePriority(t[i])
  BY <1>7 DEF EffectivePriority
<1>9. Tidy(u)
  BY <1>1, <1>4, <1>7, <1>8 DEF Tidy, Sorted, Alike
<1>10. ToSet(u) = (ToSet(t) \ S) \cup { New(e) : e \in S }
  <2>1. ASSUME NEW d \in ToSet(u) PROVE d \in (ToSet(t) \ S) \cup { New(e) : e \in S }
    <3>1. PICK i \in 1 .. n : d = u[i]
      BY <1>6
    <3>2. QED BY <1>1, <1>4, <1>5, <3>1
  <2>2. ASSUME NEW d \in ToSet(t) \ S PROVE d \in ToSet(u)
    <3>1. PICK i \in 1 .. n : d = t[i]
      BY <1>1
    <3>2. u[i] = d
      BY <1>4, <1>5, <2>2, <3>1
    <3>3. QED BY <1>6, <3>2
  <2>3. ASSUME NEW e \in S PROVE New(e) \in ToSet(u)
    <3>1. PICK i \in 1 .. n : e = t[i]
      BY <1>1, <1>5
    <3>2. u[i] = New(e)
      BY <1>4, <1>5, <3>1
    <3>3. QED BY <1>6, <3>2
  <2>4. QED BY <2>1, <2>2, <2>3
<1>11. QED BY <1>2, <1>9, <1>10 DEF New, WithActions

LEMMA DeleteKeeps ==
    ASSUME NEW t \in Seq(Entries), Tidy(t), NEW fm \in FlowMods, NEW strict \in BOOLEAN
    PROVE  LET u == FlowModDelete(t, fm, strict).table
           IN  Tidy(u) /\ ToSet(u) = { e \in ToSet(t) :
                                         ~ IsMatchedBy(e, fm.match, fm.priority, strict, fm.out_port) }
<1> DEFINE gone == MatchingEntries(t, fm.match, fm.priority, strict, fm.out_port)
<1>1. FlowModDelete(t, fm, strict).table = Without(t, gone)
  BY DEF FlowModDelete
<1>2. gone = { e \in ToSet(t) : IsMatchedBy(e, fm.match, fm.priority, strict, fm.out_port) }
  BY Members DEF MatchingEntries
<1> HIDE DEF gone
<1>3. Tidy(Without(t, gone)) /\ ToSet(Without(t, gone)) = ToSet(t) \ gone
  BY TidyWithout
<1>4. QED BY <1>1, <1>2, <1>3

\* The entry that decides is one of the highest that match.
LEMMA LookKeeps ==
    ASSUME NEW t \in Seq(Entries), Tidy(t), NEW m
    PROVE  LET found == { e \in ToSet(t) : Promise!Matches(e.match, m) }
               best  == { e \in found : \A d \in found : ~ Promise!Higher(d, e) }
           IN  EntryFor(t, m) \in IF found = {} THEN {None} ELSE best
<1> DEFINE found == { e \in ToSet(t) : Promise!Matches(e.match, m) }
<1>1. /\ DOMAIN t = 1 .. Len(t) /\ Len(t) \in Nat /\ ToSet(t) = { t[i] : i \in 1 .. Len(t) }
      /\ \A i \in 1 .. Len(t) : t[i] \in Entries /\ EffectivePriority(t[i]) \in Nat
  BY Members
<1>2. \A e \in ToSet(t) : e \in Entries /\ (Promise!Matches(e.match, m) <=> Encompasses(e.match, m))
  <2>1. TAKE e \in ToSet(t)
  <2>2. e \in Entries
    BY Members
  <2>3. e.match \in Matches
    BY <2>2, EntryTypes
  <2>4. QED BY <2>2, <2>3, CoversIs
<1>3. found = { e \in ToSet(t) : Encompasses(e.match, m) }
  BY <1>2
<1> HIDE DEF found
<1>4. CASE EntryFor(t, m) = None /\ \A i \in DOMAIN t : ~ Encompasses(t[i].match, m)
  <2>1. found = {}
    BY <1>1, <1>3, <1>4
  <2>2. QED BY <1>4, <2>1 DEF found
<1>5. CASE \E i \in DOMAIN t : /\ EntryFor(t, m) = t[i] /\ t[i] \in Entries
                               /\ Encompasses(t[i].match, m)
                               /\ \A j \in DOMAIN t : Encompasses(t[j].match, m) => i <= j
  <2>1. PICK i \in 1 .. Len(t) : /\ EntryFor(t, m) = t[i] /\ t[i] \in Entries
                                 /\ Encompasses(t[i].match, m)
                                 /\ \A j \in 1 .. Len(t) : Encompasses(t[j].match, m) => i <= j
    BY <1>1, <1>5
  <2>2. t[i] \in found
    BY <1>1, <1>3, <2>1
  <2>3. ASSUME NEW d \in found PROVE ~ Promise!Higher(d, t[i])
    <3>1. PICK j \in 1 .. Len(t) : d = t[j] /\ Encompasses(t[j].match, m)
      BY <1>1, <1>3
    <3>2. i <= j /\ (i = j \/ i < j)
      BY <1>1, <2>1, <3>1
    <3>3. EffectivePriority(t[i]) >= EffectivePriority(t[j])
      BY <1>1, <3>2 DEF Tidy, Sorted
    <3>4. EffectivePriority(t[i]) \in Nat /\ EffectivePriority(t[j]) \in Nat /\ t[j] \in Entries
      BY <1>1
    <3>5. ~ (EffectivePriority(t[j]) > EffectivePriority(t[i]))
      BY <3>3, <3>4
    <3>6. QED BY <2>1, <3>1, <3>4, <3>5, HigherIs
  <2>4. EntryFor(t, m) \in { e \in found : \A d \in found : ~ Promise!Higher(d, e) } /\ found # {}
    BY <2>1, <2>2, <2>3
  <2>5. QED BY <2>4 DEF found
<1>6. QED BY <1>4, <1>5, FirstEntry

\* In a step of "table", where the table keeps the promise.
Tables == use = "table" /\ use' = "table"

LEMMA CardinalityIs == \A S : Promise!Cardinality(S) = Cardinality(S)
  BY DEF Promise!Cardinality, Cardinality

LEMMA AddPromised ==
    ASSUME Tables, NEW new, Added(ToSet(table), new, ToSet(table'))
    PROVE  Promise!AddOrRefuse(new)
<1> DEFINE S == ToSet(table)
           T == ToSet(table')
<1>1. Added(S, new, T) /\ { d \in S : ~ Promise!Same(d, new) } = Others(S, new)
  BY SameIs DEF Others
<1>2. (IF use = "learning" THEN {} ELSE ToSet(table)) = S
      /\ (IF use' = "learning" THEN {} ELSE ToSet(table')) = T
  BY DEF Tables
<1> HIDE DEF S, T
<1>3. CASE /\ "EMERG" \notin new.flags
           /\ T = IF Cardinality(Others(S, new)) < MaxEntries THEN Others(S, new) \cup {new} ELSE Others(S, new)
  <2>1. { d \in (IF use = "learning" THEN {} ELSE ToSet(table)) : ~ Promise!Same(d, new) } = Others(S, new)
    BY <1>1, <1>2
  <2>2. Promise!Add(new)
    BY <1>2, <1>3, <2>1, CardinalityIs DEF Promise!Add
  <2>3. QED BY <2>2 DEF Promise!AddOrRefuse
<1>4. CASE /\ \/ "EMERG" \in new.flags
              \/ "CHECK_OVERLAP" \in new.flags /\ \E d \in S : Promise!Overlap(d, new)
           /\ T = S
  BY <1>2, <1>4 DEF Promise!AddOrRefuse, Promise!Refuse
<1>5. QED BY <1>1, <1>3, <1>4 DEF Added

\* Entries by the terms of the promise and by those of the table.
LEMMA Selected ==
    ASSUME NEW t \in Seq(Entries), NEW fm \in FlowMods
    PROVE  /\ { e \in ToSet(t) : Promise!Covers(fm.match, e.match) }
                = { e \in ToSet(t) : IsMatchedBy(e, fm.match, fm.priority, FALSE, None) }
           /\ { e \in ToSet(t) : Promise!Same(e, Entry(fm)) }
                = { e \in ToSet(t) : IsMatchedBy(e, fm.match, fm.priority, TRUE, None) }
<1>1. \A e : Promise!Covers(fm.match, e.match) <=> IsMatchedBy(e, fm.match, fm.priority, FALSE, None)
  BY Requested, CoversIs DEF IsMatchedBy
<1>2. \A e : Promise!Same(e, Entry(fm)) <=> IsMatchedBy(e, fm.match, fm.priority, TRUE, None)
  BY SameIs DEF Alike, IsMatchedBy, Entry
<1>3. QED BY <1>1, <1>2

\* What is modified, or added where there is nothing to modify.
LEMMA ModifyPromised ==
    ASSUME Tables, table \in Seq(Entries), Tidy(table), NEW fm \in FlowMods, NEW strict \in BOOLEAN,
           fm.command # "ADD", table' = FlowModModify(table, fm, strict).table,
           NEW S, S = { e \in ToSet(table) : IsMatchedBy(e, fm.match, fm.priority, strict, None) }
    PROVE  /\ Tidy(table')
           /\ S = {} => Promise!AddOrRefuse(Entry(fm))
           /\ S # {} => Promise!Modify(S, fm.actions)
<1> DEFINE t == table
           u == table'
<1>1. CASE S = {}
  <2>1. FlowModModify(t, fm, strict) = FlowModAdd(t, fm)
    <3>1. \A i \in DOMAIN t : ~ IsMatchedBy(t[i], fm.match, fm.priority, strict, None)
      BY <1>1, Members
    <3>2. QED BY <3>1 DEF FlowModModify
  <2>2. \A d \in ToSet(t) : ~ Alike(d, Entry(fm))
    <3>1. \A d : Alike(d, Entry(fm)) => IsMatchedBy(d, fm.match, fm.priority, strict, None)
      BY EncompassesItself DEF Alike, Entry, IsMatchedBy
    <3>2. QED BY <1>1, <3>1
  <2>3. u = FlowModAdd(t, fm).table
    BY <2>1
  <2>4. Tidy(u) /\ Added(ToSet(t), Entry(fm), ToSet(u))
    BY <2>2, <2>3, AddKeeps
  <2>5. QED BY <1>1, <2>4, AddPromised
<1>2. CASE S # {}
  <2>1. Tidy(u) /\ ToSet(u) = (ToSet(t) \ S) \cup WithActions(S, fm.actions)
    <3> DEFINE v == FlowModModify(t, fm, strict).table
    <3>1. S = { e \in ToSet(t) : IsMatchedBy(e, fm.match, fm.priority, strict, None) } /\ t \in Seq(Entries) /\ Tidy(t)
      OBVIOUS
    <3>2. Tidy(v) /\ ToSet(v) = (ToSet(t) \ S) \cup WithActions(S, fm.actions)
      BY <1>2, <3>1, ModifyKeeps
    <3>3. u = v
      OBVIOUS
    <3> HIDE DEF v, u
    <3>4. QED BY <3>2, <3>3
  <2>2. Promise!Modify(S, fm.actions)
    BY <2>1 DEF Promise!Modify, Tables, WithActions
  <2>3. QED BY <1>2, <2>1, <2>2
<1>3. QED BY <1>1, <1>2

LEMMA DeletePromised ==
    ASSUME Tables, table \in Seq(Entries), Tidy(table), NEW fm \in FlowMods, NEW strict \in BOOLEAN,
           table' = FlowModDelete(table, fm, strict).table,
           NEW S, S = { e \in ToSet(table) : IsMatchedBy(e, fm.match, fm.priority, strict, None) }
    PROVE  /\ Tidy(table')
           /\ ToSet(table') = { e \in ToSet(table) : e \notin S \/
                                  ~ (\/ fm.out_port = None
                                     \/ \E i \in DOMAIN e.actions :
                                          e.actions[i] = [type |-> "output", port |-> fm.out_port]) }
<1>1. Tidy(table') /\ ToSet(table') = { e \in ToSet(table) :
                                         ~ IsMatchedBy(e, fm.match, fm.priority, strict, fm.out_port) }
  BY DeleteKeeps
<1>2. \A e : IsMatchedBy(e, fm.match, fm.priority, strict, fm.out_port) <=>
               /\ IsMatchedBy(e, fm.match, fm.priority, strict, None)
               /\ fm.out_port = None \/ OutputsTo(e, fm.out_port)
  BY DEF IsMatchedBy
<1>3. QED BY <1>1, <1>2 DEF OutputsTo

LEMMA ChangePromised ==
    ASSUME Tables, table \in Seq(Entries), Tidy(table), NEW fm \in FlowMods,
           table' = FlowMod(table, fm).table
    PROVE  Tidy(table') /\ Promise!Change(fm)
<1> DEFINE S == ToSet(table)
           covered == { e \in S : IsMatchedBy(e, fm.match, fm.priority, FALSE, None) }
           same == { e \in S : IsMatchedBy(e, fm.match, fm.priority, TRUE, None) }
           To(e) == \/ fm.out_port = None
                    \/ \E i \in DOMAIN e.actions : e.actions[i] = [type |-> "output", port |-> fm.out_port]
<1>1. (IF use = "learning" THEN {} ELSE ToSet(table)) = S
      /\ (IF use' = "learning" THEN {} ELSE ToSet(table')) = ToSet(table')
  BY DEF Tables
<1>2. /\ { e \in S : Promise!Covers(fm.match, e.match) } = covered
      /\ { e \in S : Promise!Same(e, Entry(fm)) } = same
  BY Selected
<1>3. Entry(fm) = [match |-> fm.match, priority |-> fm.priority, actions |-> fm.actions,
                   flags |-> fm.flags, idle |-> fm.idle, hard |-> fm.hard]
  BY DEF Entry
<1>4. Promise!Change(fm) <=>
        CASE fm.command = "ADD"           -> Promise!AddOrRefuse(Entry(fm))
          [] fm.command = "MODIFY"        -> IF covered = {} THEN Promise!AddOrRefuse(Entry(fm))
                                             ELSE Promise!Modify(covered, fm.actions)
          [] fm.command = "MODIFY_STRICT" -> IF same = {} THEN Promise!AddOrRefuse(Entry(fm))
                                             ELSE Promise!Modify(same, fm.actions)
          [] fm.command = "DELETE"        -> ToSet(table') = { e \in S : e \notin covered \/ ~ To(e) }
          [] fm.command = "DELETE_STRICT" -> ToSet(table') = { e \in S : e \notin same \/ ~ To(e) }
  <2> HIDE DEF S, covered, same
  <2>1. QED BY <1>1, <1>2, <1>3 DEF Promise!Change
<1> HIDE DEF To
<1>5. CASE fm.command = "ADD"
  <2>1. table' = FlowModAdd(table, fm).table
    BY <1>5 DEF FlowMod
  <2>2. Tidy(table') /\ Added(ToSet(table), Entry(fm), ToSet(table'))
    BY <1>5, <2>1, AddKeeps
  <2>3. Promise!AddOrRefuse(Entry(fm))
    BY <2>2, AddPromised
  <2>4. QED BY <1>4, <1>5, <2>2, <2>3
<1>6. CASE fm.command = "MODIFY"
  <2>1. table' = FlowModModify(table, fm, FALSE).table
    BY <1>6 DEF FlowMod
  <2>2. /\ Tidy(table')
        /\ covered = {} => Promise!AddOrRefuse(Entry(fm))
        /\ covered # {} => Promise!Modify(covered, fm.actions)
    BY <1>6, <2>1, ModifyPromised
  <2> HIDE DEF covered, same
  <2>3. QED BY <1>4, <1>6, <2>2
<1>7. CASE fm.command = "MODIFY_STRICT"
  <2>1. table' = FlowModModify(table, fm, TRUE).table
    BY <1>7 DEF FlowMod
  <2>2. /\ Tidy(table')
        /\ same = {} => Promise!AddOrRefuse(Entry(fm))
        /\ same # {} => Promise!Modify(same, fm.actions)
    BY <1>7, <2>1, ModifyPromised
  <2> HIDE DEF covered, same
  <2>3. QED BY <1>4, <1>7, <2>2
<1>8. CASE fm.command = "DELETE"
  <2>1. table' = FlowModDelete(table, fm, FALSE).table
    BY <1>8 DEF FlowMod
  <2>2. Tidy(table') /\ ToSet(table') = { e \in S : e \notin covered \/ ~ To(e) }
    BY <2>1, DeletePromised DEF To
  <2> HIDE DEF covered, same
  <2>3. QED BY <1>4, <1>8, <2>2
<1>9. CASE fm.command = "DELETE_STRICT"
  <2>1. table' = FlowModDelete(table, fm, TRUE).table
    BY <1>9 DEF FlowMod
  <2>2. Tidy(table') /\ ToSet(table') = { e \in S : e \notin same \/ ~ To(e) }
    BY <2>1, DeletePromised DEF To
  <2> HIDE DEF covered, same
  <2>3. QED BY <1>4, <1>9, <2>2
<1>10. QED BY <1>5, <1>6, <1>7, <1>8, <1>9, Requested

\* No action of an entry looks anything up.
LEMMA DoKeepsLast ==
    ASSUME NEW tab, NEW st \in States(tab), NEW a \in EntryActions
    PROVE  Do(st, a).last = st.last
<1>1. st = [packet |-> st.packet, in_port |-> st.in_port, table |-> st.table, buffers |-> st.buffers,
            slots |-> st.slots, out |-> st.out, told |-> st.told, last |-> st.last]
  BY DEF States, ProcessRecords
<1>2. \A x, y, z : [st EXCEPT !.slots = x, !.buffers = y, !.told = z].last = st.last
  BY <1>1
<1>3. \A x, y : [st EXCEPT !.packet = x, !.buffers = y].last = st.last
  BY <1>1
<1>4. \A x : [st EXCEPT !.out = x].last = st.last
  BY <1>1
<1>5. CASE a.type = "controller"
  <2>1. Do(st, a) = AskController(st, "ACTION")
    BY <1>5 DEF Do
  <2>2. QED BY <1>2, <2>1 DEF AskController
<1>6. CASE a.type = "set_dst"
  <2>1. Do(st, a) = Rewrite(st, a.addr)
    BY <1>6 DEF Do
  <2> DEFINE packet == [st.packet EXCEPT !.dst = a.addr]
             buffers == [j \in 1 .. MaxBuffers |->
                           IF j \in st.slots THEN [packet |-> [st.buffers[j].packet EXCEPT !.dst = a.addr],
                                                   in_port |-> st.buffers[j].in_port]
                           ELSE st.buffers[j]]
  <2>2. Rewrite(st, a.addr) = [st EXCEPT !.packet = packet, !.buffers = buffers]
    BY DEF Rewrite
  <2> HIDE DEF packet, buffers
  <2>3. QED BY <1>3, <2>1, <2>2
<1>7. CASE a.type \in {"output", "in_port", "flood", "all"}
  <2>1. \E x : Do(st, a) = [st EXCEPT !.out = x]
    BY <1>7 DEF Do
  <2>2. QED BY <1>4, <2>1
<1>8. QED BY <1>5, <1>6, <1>7, ActionKinds

LEMMA ProcessKeepsLast ==
    ASSUME NEW tab \in Seq(Entries), NEW st \in States(tab), NEW actions \in Seq(EntryActions)
    PROVE  Process(actions, st).last = st.last
<1> DEFINE S == { u \in States(tab) : u.last = st.last }
<1>1. ASSUME NEW u \in S, NEW a \in EntryActions PROVE DoAny(u, a) \in S
  <2>1. u \in States(tab) /\ u.last = st.last
    OBVIOUS
  <2>2. DoAny(u, a) = Do(u, a)
    BY ActionKinds DEF DoAny
  <2>3. Do(u, a) \in States(tab) /\ Do(u, a).last = u.last
    BY <2>1, DoTyped, DoKeepsLast
  <2>4. QED BY <2>1, <2>2, <2>3
<1>2. st \in S /\ actions \in Seq(EntryActions) /\ \A u \in S : u.last = st.last
  OBVIOUS
<1> HIDE DEF S
<1>3. FoldLeft(DoAny, st, actions) \in { h[Len(actions)] : h \in RunsAny(S, st, actions) }
  BY <1>1, <1>2, DoAnyChain
<1>4. PICK h \in RunsAny(S, st, actions) : Process(actions, st) = h[Len(actions)]
  BY <1>3 DEF Process
<1>5. h \in [0 .. Len(actions) -> S] /\ Len(actions) \in 0 .. Len(actions)
  BY <1>2, <1>4 DEF RunsAny
<1>6. h[Len(actions)] \in S
  BY <1>5
<1>7. QED BY <1>2, <1>4, <1>6

LEMMA BufferedKeepsLast ==
    ASSUME TypeOK, NEW tab \in Seq(Entries), NEW actions \in Seq(EntryActions), NEW b \in Ids
    PROVE  ProcessBuffered(actions, b, tab).last = last
<1>1. b \in 0 .. MaxBuffers /\ PortsTyped /\ packetBuffer \in Slots
  BY TypeParts
<1>2. actions \in Seq(OutActions)
  <2>1. EntryActions \subseteq OutActions
    BY DEF OutActions
  <2>2. QED BY <2>1, SeqWider
<1>3. Start(None, None, tab).last = last
  BY DEF Start
<1>4. CASE ~ (b = 0 \/ packetBuffer[b] = None)
  <2> DEFINE first == Start(packetBuffer[b].packet, packetBuffer[b].in_port, tab)
             final == Process(actions, first)
             r == ProcessBuffered(actions, b, tab)
  <2>1. first \in States(tab) /\ final \in States(tab) /\ r = [final EXCEPT !.buffers[b] = None]
    BY <1>1, <1>2, <1>4, FromBuffer
  <2>2. first.last = last
    BY DEF Start
  <2> HIDE DEF first
  <2>3. final.last = last
    BY <2>1, <2>2, ProcessKeepsLast
  <2> HIDE DEF final, r
  <2>4. r.last = final.last
    BY <2>1 DEF States, ProcessRecords
  <2>5. QED BY <2>3, <2>4 DEF r
<1>5. QED BY <1>3, <1>4 DEF ProcessBuffered

\* The promise in the terms of the switch.
LEMMA PromiseVars ==
    ASSUME Tables
    PROVE  /\ table' = table /\ last' = last => UNCHANGED Promise!vars
           /\ last' = last => UNCHANGED (IF use = "learning" THEN None ELSE last)
  BY DEF Tables, Promise!vars

\* A packet that is looked up, or none.
LEMMA LookPromised ==
    ASSUME Tables, TypeOK, Tidy(table), PacketArrives \/ PacketOutArrives
    PROVE  table' = table /\ (Promise!Next \/ UNCHANGED Promise!vars)
<1>1. PICK st \in Outcomes(table) : Commit(st, <<>>)
  BY PacketCommits, PacketOutCommits
<1>2. table' = table
  BY PacketCommits, PacketOutCommits
<1>3. last' = last \/ \E m \in PacketMatches : last' = Found(table, m)
  <2>1. st.last \in {last} \cup { Found(table, m) : m \in PacketMatches } /\ last' = st.last
    BY <1>1 DEF Outcomes, Commit
  <2>2. QED BY <2>1
<1>4. ASSUME NEW m \in PacketMatches, last' = Found(table, m) PROVE Promise!Next
  <2>1. m \in [in_port : AllPorts \cup {1, 2, 3}, dl_src : Addresses \cup Pair, dl_dst : Addresses \cup Pair]
    BY DEF PacketMatches
  <2> DEFINE found == { e \in ToSet(table) : Promise!Matches(e.match, m) }
             best == { e \in found : \A d \in found : ~ Promise!Higher(d, e) }
  <2>2. EntryFor(table, m) \in IF found = {} THEN {None} ELSE best
    BY TypeParts, LookKeeps
  <2>3. /\ (IF use = "learning" THEN {} ELSE ToSet(table)) = ToSet(table)
        /\ (IF use' = "learning" THEN {} ELSE ToSet(table')) = ToSet(table)
        /\ (IF use' = "learning" THEN None ELSE last') = [packet |-> m, entry |-> EntryFor(table, m)]
    BY <1>2, <1>4 DEF Tables, Found
  <2>4. Promise!Look(m)
    BY <2>2, <2>3 DEF Promise!Look
  <2>5. QED BY <2>1, <2>4 DEF Promise!Next
<1>5. QED BY <1>2, <1>3, <1>4, PromiseVars

LEMMA FlowModPromised ==
    ASSUME Tables, TypeOK, Tidy(table), FlowModArrives
    PROVE  Tidy(table') /\ Promise!Next
<1>1. PICK fm \in FlowMods, b \in Ids : RxFlowMod([fm EXCEPT !.buffer = b]) /\ Answer(b)
  BY DEF FlowModArrives
<1> DEFINE r == FlowMod(table, fm)
           tab == r.table
           actions == fm.actions
           st == ProcessBuffered(actions, b, tab)
           said == FlowsRemoved(r.removed) \o (IF r.error THEN <<Error>> ELSE <<>>)
<1>2. table' = tab /\ tab \in Seq(Entries) /\ Commit(st, said)
  BY <1>1, FlowModCommits
<1>3. actions \in Seq(EntryActions)
  BY Requested
<1>4. Tidy(table') /\ Promise!Change(fm)
  BY <1>2, TypeParts, ChangePromised
<1> HIDE DEF tab, actions
<1>5. last' = last
  <2>1. st.last = last
    BY <1>2, <1>3, BufferedKeepsLast
  <2> HIDE DEF st, said
  <2>2. QED BY <1>2, <2>1 DEF Commit
<1>6. UNCHANGED (IF use = "learning" THEN None ELSE last)
  BY <1>5, PromiseVars
<1>7. fm \in FlowMods \cup BufferMods
  OBVIOUS
<1>8. QED BY <1>4, <1>6, <1>7 DEF Promise!Next

LEMMA ExpiryPromised ==
    ASSUME Tables, TypeOK, Tidy(table), Expiry
    PROVE  Tidy(table') /\ Promise!Next
<1>1. PICK idle \in SUBSET { e \in ToSet(table) : e.idle }, hard \in SUBSET { e \in ToSet(table) : e.hard } :
        RemoveExpiredEntries(idle, hard)
  BY DEF Expiry
<1> DEFINE gone == idle \cup hard
<1>2. table' = Without(table, gone) /\ last' = last
  BY <1>1 DEF RemoveExpiredEntries, RemoveExpired, Say
<1>3. gone \in SUBSET { e \in ToSet(table) : e.idle \/ e.hard }
  OBVIOUS
<1> HIDE DEF gone
<1>4. Tidy(table') /\ ToSet(table') = ToSet(table) \ gone
  BY <1>2, TypeParts, TidyWithout
<1>5. /\ (IF use = "learning" THEN {} ELSE ToSet(table)) = ToSet(table)
      /\ (IF use' = "learning" THEN {} ELSE ToSet(table')) = ToSet(table')
  BY DEF Tables
<1>6. UNCHANGED (IF use = "learning" THEN None ELSE last)
  BY <1>2, PromiseVars
<1>7. Promise!Expire
  BY <1>3, <1>4, <1>5, <1>6 DEF Promise!Expire
<1>8. QED BY <1>4, <1>7 DEF Promise!Next

\* Every step of the switch is one that the promise allows.
LEMMA StepPromised ==
    ASSUME Tables, TypeOK, Tidy(table), [Next]_vars
    PROVE  Tidy(table') /\ (Promise!Next \/ UNCHANGED Promise!vars)
<1>1. CASE PacketArrives \/ PacketOutArrives
  BY <1>1, LookPromised
<1>2. CASE FlowModArrives
  BY <1>2, FlowModPromised
<1>3. CASE Expiry
  BY <1>3, ExpiryPromised
<1>4. CASE PortModArrives
  <2>1. table' = table /\ last' = last
    BY <1>4 DEF PortModArrives, RxPortMod, Say
  <2>2. QED BY <2>1, PromiseVars
<1>5. CASE PortsChange
  <2>1. table' = table /\ last' = last
    BY <1>5 DEF PortsChange, AddPort, DeletePort, Say
  <2>2. QED BY <2>1, PromiseVars
<1>6. CASE TakeMessage
  <2>1. table' = table /\ last' = last
    BY <1>6 DEF TakeMessage
  <2>2. QED BY <2>1, PromiseVars
<1>7. CASE UNCHANGED vars
  <2>1. table' = table /\ last' = last
    BY <1>7 DEF vars, switchVars
  <2>2. QED BY <2>1, PromiseVars
<1>8. QED BY <1>1, <1>2, <1>3, <1>4, <1>5, <1>6, <1>7 DEF Next

-----------------------------------------------------------------------------
(* The runs of MCSoftSwitch in which a controller changes the table.        *)

LEMMA TableSpec == SpecAny /\ use = "table" => Spec /\ [](use = "table")
<1>1. InitAny /\ use = "table" => Init
  BY DEF InitAny
<1>2. use = "table" /\ [NextAny]_<<vars, learnVars, use>> => (use = "table")' /\ [Next]_vars
  BY DEF NextAny, vars, switchVars, learnVars
<1>3. QED BY <1>1, <1>2, PTL DEF SpecAny, Spec

\* When no port_status is on its way, the controller knows every port there
\* is and whether its link is down (_rx_port_mod, add_port and delete_port of
\* the switch, handle_PORT_STATUS of the controller).
THEOREM PortsHoldInRun == SpecAny /\ use = "table" => []EveryPortKnown
<1>1. Spec /\ [](use = "table") => []PortsKnown
  BY NewsSaysPorts, NewsHold, PTL
<1>2. PortsKnown /\ use = "table" => EveryPortKnown
  BY DEF EveryPortKnown
<1>3. QED BY <1>1, <1>2, TableSpec, PTL

\* A slot of _packet_buffer is in use exactly while the controller has its id
\* to use, and holds the packet that was reported with this id, if no packet
\* is rewritten or looked up again after it was buffered.
THEOREM BuffersHoldInRun ==
    NoLateRewrites => (SpecAny /\ use = "table" => []EachBufferReported)
<1>1. SUFFICES ASSUME NoLateRewrites PROVE SpecAny /\ use = "table" => []EachBufferReported
  OBVIOUS
<1>2. Spec => []BuffersAccounted
  BY <1>1, BuffersHoldAccounted
<1>3. BuffersAccounted /\ use = "table" => EachBufferReported
  BY DEF EachBufferReported
<1>4. QED BY <1>2, <1>3, TableSpec, PTL

\* Whatever the controller asks for, the sorted list of flow_table.py does what
\* an OpenFlow table promises, within its limit of entries: flow_mods change
\* the entries they are for, and a lookup gives one of the highest priority.
THEOREM TableKeepsPromise == SpecAny /\ use = "table" => ImplementsTable
<1>1. Init /\ use = "table" => Tidy(table) /\ Promise!Init
  BY DEF Init, Tidy, Sorted, Promise!Init, ToSet
<1>2. TypeOK /\ Tidy(table) /\ use = "table" /\ (use = "table")' /\ [Next]_vars
        => Tidy(table)' /\ [Promise!Next]_(Promise!vars)
  BY StepPromised DEF Tables
<1>3. QED BY <1>1, <1>2, TableSpec, TypesHold, PTL DEF Spec, ImplementsTable, Promise!Spec
=============================================================================
