---------------------------- MODULE ReventProofs ----------------------------
(***************************************************************************)
(* The event dispatcher, for any listeners and any depth of dispatches:    *)
(* the list of handlers stays in order (ListInOrder), and each dispatch    *)
(* calls each of its listeners once and skips none (EachCalledOnce).       *)
(*                                                                         *)
(* Both rest on what Selected does to a list, which is recursive: first    *)
(* induction over sets of numbers, then that the recursion has a solution, *)
(* then what every solution keeps.                                         *)
(***************************************************************************)
EXTENDS Revent, FiniteSetTheorems, TLAPS
LOCAL INSTANCE SequencesExt

-----------------------------------------------------------------------------
(* Numbers.                                                                *)

\* A set of numbers with 0 that is closed under + 1 has no gap: below a
\* number that is not in it, + 1 would map a finite set one to one to less
\* than itself.
LEMMA Inductive ==
    ASSUME NEW T \in SUBSET Nat, 0 \in T, \A n \in T : n + 1 \in T
    PROVE  T = Nat
<1>1. SUFFICES ASSUME NEW n \in Nat, n \notin T PROVE FALSE
  OBVIOUS
<1> DEFINE S == { m \in 0 .. n : m \in T }
           next == [m \in S |-> m + 1]
<1>2. IsFiniteSet(S) /\ 0 \in S
  <2>1. IsFiniteSet(0 .. n)
    BY <1>1, FS_Interval
  <2>2. S \in SUBSET (0 .. n)
    OBVIOUS
  <2>3. QED BY <2>1, <2>2, FS_Subset
<1>3. IsFiniteSet(S \ {0}) /\ Cardinality(S \ {0}) = Cardinality(S) - 1 /\ Cardinality(S) \in Nat
  <2> HIDE DEF S
  <2>1. QED BY <1>2, FS_RemoveElement, FS_CardinalityType
<1>4. next \in [S -> S \ {0}]
  <2>1. ASSUME NEW m \in S PROVE m + 1 \in S \ {0}
    BY <1>1
  <2>2. QED BY <2>1
<1>5. PICK x, y \in S : x # y /\ next[x] = next[y]
  <2>1. Cardinality(S \ {0}) < Cardinality(S)
    <3> HIDE DEF S
    <3>1. QED BY <1>3
  <2> HIDE DEF S, next
  <2>2. QED BY <1>2, <1>3, <1>4, <2>1, FS_PigeonHole
<1>6. QED BY <1>5

\* A set of numbers with a bound has a greatest one.
LEMMA Greatest ==
    ASSUME NEW S \in SUBSET Nat, S # {}, NEW b \in Nat, \A x \in S : x <= b
    PROVE  Max(S) \in S
<1> DEFINE T == { n \in Nat : (\A x \in S : x <= n) => \E x \in S : \A y \in S : x >= y }
<1>1. 0 \in T
  <2>1. ASSUME \A x \in S : x <= 0 PROVE \E x \in S : \A y \in S : x >= y
    <3>1. PICK x \in S : TRUE
      OBVIOUS
    <3>2. \A y \in S : x >= y
      BY <2>1, <3>1
    <3>3. QED BY <3>2
  <2>2. QED BY <2>1
<1>2. ASSUME NEW n \in T PROVE n + 1 \in T
  <2>1. n \in Nat
    OBVIOUS
  <2>2. ASSUME \A x \in S : x <= n + 1 PROVE \E x \in S : \A y \in S : x >= y
    <3>1. CASE n + 1 \in S
      BY <2>2, <3>1
    <3>2. CASE n + 1 \notin S
      <4>1. \A x \in S : x <= n
        BY <2>1, <2>2, <3>2
      <4>2. QED BY <4>1
    <3>3. QED BY <3>1, <3>2
  <2>3. QED BY <2>1, <2>2
<1>3. b \in T
  <2>1. T \in SUBSET Nat
    OBVIOUS
  <2> HIDE DEF T
  <2>2. QED BY <1>1, <1>2, <2>1, Inductive
<1>4. \E x \in S : \A y \in S : x >= y
  BY <1>3
<1>5. QED BY <1>4 DEF Max

-----------------------------------------------------------------------------
(* Lists.                                                                  *)

\* g is the recursion of Selected, up to its n-th value.
IsSelection(g, n, s, some) ==
    /\ g[0] = <<>>
    /\ \A i \in 1 .. n : g[i] = IF s[i] \in some THEN Append(g[i - 1], s[i]) ELSE g[i - 1]

LEMMA SelectionSteps ==
    ASSUME NEW S, NEW s \in Seq(S), NEW some
    PROVE  \E g \in [0 .. Len(s) -> Seq(S)] :
             IsSelection(g, Len(s), s, some) /\ Selected(s, some) = g[Len(s)]
<1> DEFINE T == { n \in Nat : n <= Len(s) => \E g \in [0 .. n -> Seq(S)] : IsSelection(g, n, s, some) }
<1>1. 0 \in T
  <2>1. [i \in 0 .. 0 |-> <<>>] \in [0 .. 0 -> Seq(S)]
    OBVIOUS
  <2>2. IsSelection([i \in 0 .. 0 |-> <<>>], 0, s, some)
    BY DEF IsSelection
  <2>3. QED BY <2>1, <2>2
<1>2. ASSUME NEW n \in T PROVE n + 1 \in T
  <2>1. n \in Nat
    OBVIOUS
  <2>2. SUFFICES ASSUME n + 1 <= Len(s)
                 PROVE  \E g \in [0 .. n + 1 -> Seq(S)] : IsSelection(g, n + 1, s, some)
    BY <2>1
  <2>3. PICK g \in [0 .. n -> Seq(S)] : IsSelection(g, n, s, some)
    BY <2>1, <2>2
  <2> DEFINE new == IF s[n + 1] \in some THEN Append(g[n], s[n + 1]) ELSE g[n]
             h == [i \in 0 .. n + 1 |-> IF i = n + 1 THEN new ELSE g[i]]
  <2>4. new \in Seq(S)
    <3>1. s[n + 1] \in S /\ g[n] \in Seq(S)
      BY <2>1, <2>2, <2>3
    <3>2. QED BY <3>1
  <2>5. h \in [0 .. n + 1 -> Seq(S)]
    <3> HIDE DEF new
    <3>1. \A i \in 0 .. n + 1 : i = n + 1 \/ i \in 0 .. n
      BY <2>1
    <3>2. QED BY <2>3, <2>4, <3>1
  <2>6. /\ h[0] = <<>> /\ h[n + 1] = new
        /\ \A i \in 0 .. n : h[i] = g[i]
    <3> HIDE DEF new
    <3>1. QED BY <2>1, <2>3 DEF IsSelection
  <2>7. ASSUME NEW i \in 1 .. n + 1
        PROVE  h[i] = IF s[i] \in some THEN Append(h[i - 1], s[i]) ELSE h[i - 1]
    <3>1. i - 1 \in 0 .. n /\ h[i - 1] = g[i - 1]
      BY <2>1, <2>6
    <3>2. CASE i = n + 1
      <4>1. i - 1 = n
        BY <2>1, <3>2
      <4>2. QED BY <2>6, <3>1, <3>2, <4>1
    <3>3. CASE i # n + 1
      <4>1. i \in 1 .. n /\ i \in 0 .. n
        BY <2>1, <3>3
      <4> HIDE DEF h, new
      <4>2. QED BY <2>3, <2>6, <3>1, <4>1 DEF IsSelection
    <3>4. QED BY <3>2, <3>3
  <2>8. IsSelection(h, n + 1, s, some)
    <3> HIDE DEF h
    <3>1. QED BY <2>6, <2>7 DEF IsSelection
  <2>9. QED BY <2>5, <2>8
<1>3. PICK g \in [0 .. Len(s) -> Seq(S)] : IsSelection(g, Len(s), s, some)
  <2>1. T \in SUBSET Nat /\ Len(s) \in Nat
    OBVIOUS
  <2>2. T = Nat
    <3> HIDE DEF T
    <3>1. QED BY <1>1, <1>2, <2>1, Inductive
  <2>3. Len(s) \in T
    <3> HIDE DEF T
    <3>1. QED BY <2>1, <2>2
  <2>4. QED BY <2>1, <2>3
<1> DEFINE Eq(f) == f = [n \in 0 .. Len(s) |->
                         IF n = 0 THEN <<>>
                         ELSE IF s[n] \in some THEN Append(f[n - 1], s[n]) ELSE f[n - 1]]
           f == CHOOSE f : Eq(f)
<1>4. Eq(g)
  <2>1. g = [n \in 0 .. Len(s) |-> g[n]]
    BY <1>3
  <2>2. ASSUME NEW n \in 0 .. Len(s)
        PROVE  g[n] = IF n = 0 THEN <<>>
                      ELSE IF s[n] \in some THEN Append(g[n - 1], s[n]) ELSE g[n - 1]
    <3>1. n = 0 \/ n \in 1 .. Len(s)
      OBVIOUS
    <3>2. QED BY <1>3, <3>1 DEF IsSelection
  <2>3. QED BY <2>1, <2>2
<1>5. Eq(f)
  <2> HIDE DEF Eq
  <2>1. QED BY <1>4
<1>6. Selected(s, some) = f[Len(s)]
  BY DEF Selected
<1>7. IsSelection(f, Len(s), s, some) /\ DOMAIN f = 0 .. Len(s)
  <2>1. /\ DOMAIN f = 0 .. Len(s)
        /\ \A n \in 0 .. Len(s) :
             f[n] = IF n = 0 THEN <<>>
                    ELSE IF s[n] \in some THEN Append(f[n - 1], s[n]) ELSE f[n - 1]
    <3> HIDE DEF f
    <3>1. QED BY <1>5
  <2>2. 0 \in 0 .. Len(s) /\ \A i \in 1 .. Len(s) : i \in 0 .. Len(s) /\ i # 0
    OBVIOUS
  <2> HIDE DEF f
  <2>3. QED BY <2>1, <2>2 DEF IsSelection
<1> HIDE DEF f, Eq
<1>8. \A n \in 0 .. Len(s) : f[n] \in Seq(S)
  <2> DEFINE U == { n \in Nat : n <= Len(s) => f[n] \in Seq(S) }
  <2>1. 0 \in U
    <3>1. f[0] = <<>>
      BY <1>7 DEF IsSelection
    <3>2. f[0] \in Seq(S)
      BY <3>1
    <3>3. QED BY <3>2
  <2>2. ASSUME NEW n \in U PROVE n + 1 \in U
    <3>1. n \in Nat
      OBVIOUS
    <3>2. ASSUME n + 1 <= Len(s) PROVE f[n + 1] \in Seq(S)
      <4>1. f[n] \in Seq(S) /\ n + 1 \in 1 .. Len(s) /\ (n + 1) - 1 = n
        BY <3>1, <3>2
      <4>2. s[n + 1] \in S
        BY <4>1
      <4>3. f[n + 1] = IF s[n + 1] \in some THEN Append(f[n], s[n + 1]) ELSE f[n]
        BY <1>7, <4>1 DEF IsSelection
      <4>4. QED BY <4>1, <4>2, <4>3
    <3>3. QED BY <3>1, <3>2
  <2>3. U = Nat
    <3>1. U \in SUBSET Nat
      OBVIOUS
    <3> HIDE DEF U
    <3>2. QED BY <2>1, <2>2, <3>1, Inductive
  <2>4. QED BY <2>3
<1>9. f \in [0 .. Len(s) -> Seq(S)]
  <2>1. f = [n \in 0 .. Len(s) |-> f[n]]
    BY <1>5, <1>7 DEF Eq
  <2>2. QED BY <1>8, <2>1
<1>10. QED BY <1>6, <1>7, <1>9

\* The order of any two elements is kept.
Pairwise(s, R) == \A i, j \in DOMAIN s : i < j => <<s[i], s[j]>> \in R

\* One step of a selection, for what holds of each of its lists: its elements
\* are those of the first n that are selected, in their order.
SelectsFirst(t, n, s, some) ==
    /\ \A k \in DOMAIN t : \E a \in 1 .. n : t[k] = s[a] /\ s[a] \in some
    /\ \A a \in 1 .. n : s[a] \in some => \E k \in DOMAIN t : t[k] = s[a]
    /\ \A k, l \in DOMAIN t : k < l =>
         \E a, b \in 1 .. n : a < b /\ t[k] = s[a] /\ t[l] = s[b]
    /\ (\A a \in 1 .. n : s[a] \in some) => Len(t) = n /\ \A a \in 1 .. n : t[a] = s[a]

LEMMA SelectedFirst ==
    ASSUME NEW S, NEW s \in Seq(S), NEW some
    PROVE  Selected(s, some) \in Seq(S) /\ SelectsFirst(Selected(s, some), Len(s), s, some)
<1>1. PICK g \in [0 .. Len(s) -> Seq(S)] :
        IsSelection(g, Len(s), s, some) /\ Selected(s, some) = g[Len(s)]
  BY SelectionSteps
<1> DEFINE T == { n \in Nat : n <= Len(s) => SelectsFirst(g[n], n, s, some) }
<1>2. 0 \in T
  <2>1. g[0] = <<>> /\ DOMAIN g[0] = {} /\ Len(g[0]) = 0 /\ \A a \in 1 .. 0 : FALSE
    BY <1>1 DEF IsSelection
  <2>2. QED BY <2>1 DEF SelectsFirst
<1>3. ASSUME NEW n \in T, n + 1 <= Len(s) PROVE SelectsFirst(g[n + 1], n + 1, s, some)
  <2>1. n \in Nat /\ n <= Len(s) /\ n + 1 \in 1 .. Len(s) /\ (n + 1) - 1 = n /\ n \in 0 .. Len(s)
    BY <1>3
  <2>2. SelectsFirst(g[n], n, s, some) /\ g[n] \in Seq(S) /\ s[n + 1] \in S
    BY <1>3, <2>1
  <2>3. g[n + 1] = IF s[n + 1] \in some THEN Append(g[n], s[n + 1]) ELSE g[n]
    BY <1>1, <2>1 DEF IsSelection
  <2>4. /\ \A a \in 1 .. n : a \in 1 .. n + 1 /\ a < n + 1
        /\ \A a \in 1 .. n + 1 : a \in 1 .. n \/ a = n + 1
        /\ n + 1 \in 1 .. n + 1
    BY <2>1
  <2>5. CASE s[n + 1] \notin some
    <3> DEFINE t == g[n]
    <3>1. g[n + 1] = t
      BY <2>3, <2>5
    <3>2. SelectsFirst(t, n, s, some)
      BY <2>2
    <3> HIDE DEF t
    <3>3. SelectsFirst(t, n + 1, s, some)
      <4>1. \A k \in DOMAIN t : \E a \in 1 .. n + 1 : t[k] = s[a] /\ s[a] \in some
        BY <2>4, <3>2 DEF SelectsFirst
      <4>2. \A a \in 1 .. n + 1 : s[a] \in some => \E k \in DOMAIN t : t[k] = s[a]
        BY <2>4, <2>5, <3>2 DEF SelectsFirst
      <4>3. \A k, l \in DOMAIN t : k < l =>
              \E a, b \in 1 .. n + 1 : a < b /\ t[k] = s[a] /\ t[l] = s[b]
        BY <2>4, <3>2 DEF SelectsFirst
      <4>4. QED BY <2>4, <2>5, <4>1, <4>2, <4>3 DEF SelectsFirst
    <3>4. QED BY <3>1, <3>3
  <2>6. CASE s[n + 1] \in some
    <3> DEFINE t == g[n]
               m == Len(t)
               u == Append(t, s[n + 1])
    <3>1. g[n + 1] = u
      BY <2>3, <2>6
    <3>2. /\ t \in Seq(S) /\ m \in Nat /\ DOMAIN t = 1 .. m /\ Len(u) = m + 1
          /\ DOMAIN u = 1 .. m + 1 /\ u[m + 1] = s[n + 1]
          /\ \A k \in 1 .. m : u[k] = t[k]
      BY <2>2
    <3>3. SelectsFirst(t, n, s, some)
      BY <2>2
    <3>4. /\ \A k \in 1 .. m : k \in 1 .. m + 1 /\ k < m + 1
          /\ \A k \in 1 .. m + 1 : k \in 1 .. m \/ k = m + 1
          /\ \A k, l \in 1 .. m + 1 : k < l => k \in 1 .. m
          /\ m + 1 \in 1 .. m + 1
      BY <3>2
    <3> HIDE DEF t, u, m
    <3>5. \A k \in DOMAIN u : \E a \in 1 .. n + 1 : u[k] = s[a] /\ s[a] \in some
      BY <2>4, <2>6, <3>2, <3>3, <3>4 DEF SelectsFirst
    <3>6. \A a \in 1 .. n + 1 : s[a] \in some => \E k \in DOMAIN u : u[k] = s[a]
      <4>1. ASSUME NEW a \in 1 .. n, s[a] \in some PROVE \E k \in DOMAIN u : u[k] = s[a]
        <5>1. PICK k \in DOMAIN t : t[k] = s[a]
          BY <3>3, <4>1 DEF SelectsFirst
        <5>2. QED BY <3>2, <3>4, <5>1
      <4>2. \E k \in DOMAIN u : u[k] = s[n + 1]
        BY <3>2, <3>4
      <4>3. QED BY <2>4, <4>1, <4>2
    <3>7. \A k, l \in DOMAIN u : k < l =>
            \E a, b \in 1 .. n + 1 : a < b /\ u[k] = s[a] /\ u[l] = s[b]
      <4>1. SUFFICES ASSUME NEW k \in DOMAIN u, NEW l \in DOMAIN u, k < l
                     PROVE \E a, b \in 1 .. n + 1 : a < b /\ u[k] = s[a] /\ u[l] = s[b]
        OBVIOUS
      <4>2. k \in 1 .. m /\ (l \in 1 .. m \/ l = m + 1)
        BY <3>2, <3>4, <4>1
      <4>3. CASE l \in 1 .. m
        <5>1. PICK a \in 1 .. n, b \in 1 .. n : a < b /\ t[k] = s[a] /\ t[l] = s[b]
          BY <3>2, <3>3, <4>1, <4>2, <4>3 DEF SelectsFirst
        <5>2. QED BY <2>4, <3>2, <4>2, <4>3, <5>1
      <4>4. CASE l = m + 1
        <5>1. PICK a \in 1 .. n : t[k] = s[a]
          BY <3>2, <3>3, <4>2 DEF SelectsFirst
        <5>2. QED BY <2>4, <3>2, <4>2, <4>4, <5>1
      <4>5. QED BY <4>2, <4>3, <4>4
    <3>8. ASSUME \A a \in 1 .. n + 1 : s[a] \in some
          PROVE  Len(u) = n + 1 /\ \A a \in 1 .. n + 1 : u[a] = s[a]
      <4>1. m = n /\ \A a \in 1 .. n : t[a] = s[a]
        BY <2>4, <3>3, <3>8 DEF SelectsFirst, m
      <4>2. QED BY <2>4, <3>2, <4>1
    <3>9. SelectsFirst(u, n + 1, s, some)
      BY <3>5, <3>6, <3>7, <3>8 DEF SelectsFirst
    <3>10. QED BY <3>1, <3>9
  <2>7. QED BY <2>5, <2>6
<1>4. Len(s) \in T
  <2>1. T \in SUBSET Nat /\ Len(s) \in Nat /\ \A n \in T : n \in Nat /\ (n + 1 \in Nat)
    OBVIOUS
  <2>2. \A n \in T : n + 1 \in T
    BY <1>3
  <2> HIDE DEF T
  <2>3. QED BY <1>2, <2>1, <2>2, Inductive
<1>5. QED BY <1>1, <1>4

\* What is selected of a list keeps its order; all of it is the list itself,
\* and none of it nothing.
LEMMA SelectedHolds ==
    ASSUME NEW S, NEW s \in Seq(S), NEW some
    PROVE  /\ Selected(s, some) \in Seq(S)
           /\ ToSet(Selected(s, some)) = ToSet(s) \cap some
           /\ \A R : Pairwise(s, R) => Pairwise(Selected(s, some), R)
           /\ ToSet(s) \subseteq some => Selected(s, some) = s
           /\ ToSet(s) \cap some = {} => Selected(s, some) = <<>>
<1> DEFINE t == Selected(s, some)
           n == Len(s)
<1>1. /\ t \in Seq(S) /\ SelectsFirst(t, n, s, some)
      /\ n \in Nat /\ DOMAIN s = 1 .. n
  BY SelectedFirst
<1>2. DOMAIN t = 1 .. Len(t) /\ Len(t) \in Nat
  BY <1>1
<1> HIDE DEF t, n
<1>3. ToSet(t) = ToSet(s) \cap some
  BY <1>1 DEF ToSet, SelectsFirst
<1>4. ASSUME NEW R, Pairwise(s, R) PROVE Pairwise(t, R)
  <2>1. SUFFICES ASSUME NEW k \in DOMAIN t, NEW l \in DOMAIN t, k < l
                 PROVE  <<t[k], t[l]>> \in R
    BY DEF Pairwise
  <2>2. PICK a \in 1 .. n, b \in 1 .. n : a < b /\ t[k] = s[a] /\ t[l] = s[b]
    BY <1>1, <2>1 DEF SelectsFirst
  <2>3. QED BY <1>1, <1>4, <2>2 DEF Pairwise
<1>5. ASSUME ToSet(s) \subseteq some PROVE t = s
  <2>1. \A a \in 1 .. n : s[a] \in some
    BY <1>1, <1>5 DEF ToSet
  <2>2. Len(t) = n /\ \A a \in 1 .. n : t[a] = s[a]
    BY <1>1, <2>1 DEF SelectsFirst
  <2>3. QED BY <1>1, <1>2, <2>2 DEF n
<1>6. ASSUME ToSet(s) \cap some = {} PROVE t = <<>>
  <2>1. DOMAIN t = {}
    BY <1>3, <1>6 DEF ToSet
  <2>2. QED BY <1>1, <1>2, <2>1
<1>7. QED BY <1>1, <1>3, <1>4, <1>5, <1>6 DEF t

LEMMA JoinedHolds ==
    ASSUME NEW S, NEW s \in Seq(S), NEW t \in Seq(S), NEW R,
           Pairwise(s, R), Pairwise(t, R),
           \A x \in ToSet(s), y \in ToSet(t) : <<x, y>> \in R
    PROVE  /\ s \o t \in Seq(S) /\ ToSet(s \o t) = ToSet(s) \cup ToSet(t)
           /\ Pairwise(s \o t, R)
<1> DEFINE u == s \o t
           m == Len(s)
           n == Len(t)
<1>1. /\ m \in Nat /\ n \in Nat /\ u \in Seq(S)
      /\ DOMAIN s = 1 .. m /\ DOMAIN t = 1 .. n /\ DOMAIN u = 1 .. m + n
      /\ \A i \in 1 .. m : u[i] = s[i]
      /\ \A i \in 1 .. m + n : i > m => u[i] = t[i - m]
  OBVIOUS
<1>2. /\ \A i \in 1 .. m + n : i \in 1 .. m \/ (i > m /\ i - m \in 1 .. n)
      /\ \A i \in 1 .. m : i \in 1 .. m + n
      /\ \A i \in 1 .. n : i + m \in 1 .. m + n /\ i + m > m /\ (i + m) - m = i
  BY <1>1
<1> HIDE DEF u, m, n
<1>3. ToSet(u) = ToSet(s) \cup ToSet(t)
  <2>1. ToSet(u) \subseteq ToSet(s) \cup ToSet(t)
    BY <1>1, <1>2 DEF ToSet
  <2>2. ToSet(s) \subseteq ToSet(u)
    BY <1>1, <1>2 DEF ToSet
  <2>3. ASSUME NEW i \in 1 .. n PROVE t[i] \in ToSet(u)
    <3>1. i + m \in DOMAIN u /\ u[i + m] = t[i]
      BY <1>1, <1>2
    <3>2. QED BY <3>1 DEF ToSet
  <2>4. QED BY <1>1, <2>1, <2>2, <2>3 DEF ToSet
<1>4. ASSUME NEW i \in DOMAIN u, NEW j \in DOMAIN u, i < j PROVE <<u[i], u[j]>> \in R
  <2>1. CASE j \in 1 .. m
    <3>1. i \in 1 .. m
      BY <1>1, <1>2, <1>4, <2>1
    <3>2. QED BY <1>1, <1>4, <2>1, <3>1 DEF Pairwise
  <2>2. CASE j > m /\ j - m \in 1 .. n /\ i \in 1 .. m
    <3>1. u[i] \in ToSet(s) /\ u[j] \in ToSet(t)
      BY <1>1, <2>2 DEF ToSet
    <3>2. QED BY <3>1
  <2>3. CASE j > m /\ j - m \in 1 .. n /\ i > m /\ i - m \in 1 .. n
    <3>1. i - m < j - m
      BY <1>1, <1>4
    <3>2. QED BY <1>1, <2>3, <3>1 DEF Pairwise
  <2>4. QED BY <1>1, <1>2, <2>1, <2>2, <2>3
<1>5. QED BY <1>1, <1>3, <1>4 DEF u, Pairwise

LEMMA OneHolds ==
    ASSUME NEW S, NEW x \in S, NEW R
    PROVE  <<x>> \in Seq(S) /\ ToSet(<<x>>) = {x} /\ Pairwise(<<x>>, R)
<1> DEFINE s == <<x>>
<1>1. s \in Seq(S) /\ DOMAIN s = {1} /\ s[1] = x
  OBVIOUS
<1> HIDE DEF s
<1>2. ToSet(s) = {x} /\ Pairwise(s, R)
  BY <1>1 DEF ToSet, Pairwise
<1>3. QED BY <1>1, <1>2 DEF s

-----------------------------------------------------------------------------
(* The list of handlers.                                                   *)

\* Two entries of a list, one before the other.
Before == { xy \in Entries \X Entries :
              \/ xy[1].priority > xy[2].priority
              \/ xy[1].priority = xy[2].priority /\ xy[1].eid < xy[2].eid }
Differ == { xy \in Entries \X Entries : xy[1].eid # xy[2].eid }

\* A list of listeners, of ids up to some number, each once.
ListInv(list, id) ==
    list \in Seq(Entries) /\ Pairwise(list, Differ) /\ \A e \in ToSet(list) : e.eid <= id

LEMMA EntryTyped ==
    \A e \in Entries : e.eid \in Nat /\ e.priority \in 0 .. 2
BY ReventAssumption DEF Entries, Listeners, Priorities, NoPriority

\* A new entry goes behind those of its priority and before the lower ones.
LEMMA InsertHolds ==
    ASSUME NEW list, NEW id, ListInv(list, id), NEW e \in Entries,
           \A x \in ToSet(list) : x.eid < e.eid
    PROVE  /\ Insert(list, e) \in Seq(Entries)
           /\ ToSet(Insert(list, e)) = ToSet(list) \cup {e}
           /\ Pairwise(Insert(list, e), Differ)
           /\ Pairwise(list, Before) => Pairwise(Insert(list, e), Before)
           /\ e.priority = NoPriority => Insert(list, e) = list \o <<e>>
<1> DEFINE ahead == { x \in Entries : x.priority >= e.priority }
           front == Selected(list, ahead)
           back  == Selected(list, Entries \ ahead)
<1>1. list \in Seq(Entries) /\ ToSet(list) \subseteq Entries /\ Pairwise(list, Differ)
  BY DEF ListInv, ToSet
<1>2. /\ front \in Seq(Entries) /\ ToSet(front) = ToSet(list) \cap ahead
      /\ back \in Seq(Entries) /\ ToSet(back) = ToSet(list) \cap (Entries \ ahead)
      /\ \A R : Pairwise(list, R) => Pairwise(front, R) /\ Pairwise(back, R)
      /\ ToSet(list) \subseteq ahead => front = list
      /\ ToSet(list) \cap (Entries \ ahead) = {} => back = <<>>
  <2> HIDE DEF ahead
  <2>1. QED BY <1>1, SelectedHolds
<1>3. Insert(list, e) = (front \o <<e>>) \o back
  BY DEF Insert
<1>4. /\ \A x \in ToSet(front) : x \in Entries /\ x.priority >= e.priority /\ x.eid < e.eid
      /\ \A x \in ToSet(back) : x \in Entries /\ ~ (x.priority >= e.priority) /\ x.eid < e.eid
  BY <1>1, <1>2
<1> HIDE DEF front, back
<1>5. \A x \in ToSet(front), y \in ToSet(back) : <<x, y>> \in Before /\ (x # y => TRUE)
  BY <1>4, EntryTyped DEF Before
<1>6. \A x \in ToSet(front), y \in ToSet(back) : x.eid # y.eid
  <2>1. SUFFICES ASSUME NEW x \in ToSet(front), NEW y \in ToSet(back), x.eid = y.eid PROVE FALSE
    OBVIOUS
  <2>2. x \in ToSet(list) /\ y \in ToSet(list) /\ x # y
    BY <1>2, <1>4
  <2>3. PICK i \in DOMAIN list, j \in DOMAIN list : list[i] = x /\ list[j] = y
    BY <2>2 DEF ToSet
  <2>4. i # j /\ i \in Nat /\ j \in Nat
    BY <1>1, <2>2, <2>3
  <2>5. (i < j => <<x, y>> \in Differ) /\ (j < i => <<y, x>> \in Differ)
    BY <1>1, <2>3 DEF Pairwise
  <2>6. QED BY <2>1, <2>4, <2>5 DEF Differ
<1>7. ASSUME NEW R, Pairwise(list, R),
             \A x \in ToSet(front) : <<x, e>> \in R,
             \A y \in ToSet(back) : <<e, y>> \in R,
             \A x \in ToSet(front), y \in ToSet(back) : <<x, y>> \in R
      PROVE  /\ (front \o <<e>>) \o back \in Seq(Entries)
             /\ ToSet((front \o <<e>>) \o back) = ToSet(front) \cup {e} \cup ToSet(back)
             /\ Pairwise((front \o <<e>>) \o back, R)
  <2> DEFINE one == <<e>>
             start == front \o one
  <2>1. one \in Seq(Entries) /\ ToSet(one) = {e} /\ Pairwise(one, R)
    BY OneHolds
  <2>2. Pairwise(front, R) /\ Pairwise(back, R)
    BY <1>2, <1>7
  <2> HIDE DEF one
  <2>3. start \in Seq(Entries) /\ ToSet(start) = ToSet(front) \cup {e} /\ Pairwise(start, R)
    BY <1>2, <1>7, <2>1, <2>2, JoinedHolds
  <2> HIDE DEF start
  <2>4. \A x \in ToSet(start), y \in ToSet(back) : <<x, y>> \in R
    BY <1>7, <2>3
  <2>5. /\ start \o back \in Seq(Entries)
        /\ ToSet(start \o back) = ToSet(start) \cup ToSet(back)
        /\ Pairwise(start \o back, R)
    BY <1>2, <2>2, <2>3, <2>4, JoinedHolds
  <2>6. QED BY <2>3, <2>5 DEF start, one
<1>8. /\ \A x \in ToSet(front) : <<x, e>> \in Differ /\ <<x, e>> \in Before
      /\ \A y \in ToSet(back) : <<e, y>> \in Differ /\ <<e, y>> \in Before
      /\ \A x \in ToSet(front), y \in ToSet(back) : <<x, y>> \in Differ
  BY <1>4, <1>6, EntryTyped DEF Differ, Before
<1>9. ToSet(front) \cup ToSet(back) = ToSet(list)
  BY <1>1, <1>2
<1>10. ASSUME e.priority = NoPriority PROVE (front \o <<e>>) \o back = list \o <<e>>
  <2>1. ToSet(list) \subseteq ahead
    BY <1>1, <1>10, EntryTyped DEF NoPriority
  <2>2. front = list /\ back = <<>>
    <3> HIDE DEF ahead
    <3>1. QED BY <1>2, <2>1
  <2>3. <<e>> \in Seq(Entries) /\ list \o <<e>> \in Seq(Entries)
    BY <1>1
  <2>4. \A x \in Seq(Entries) : x \o <<>> = x
    OBVIOUS
  <2>5. QED BY <2>2, <2>3, <2>4
<1>11. /\ (front \o <<e>>) \o back \in Seq(Entries)
       /\ ToSet((front \o <<e>>) \o back) = ToSet(list) \cup {e}
       /\ Pairwise((front \o <<e>>) \o back, Differ)
  BY <1>1, <1>7, <1>8, <1>9
<1>12. Pairwise(list, Before) => Pairwise((front \o <<e>>) \o back, Before)
  BY <1>5, <1>7, <1>8
<1>13. QED BY <1>3, <1>10, <1>11, <1>12

LEMMA EidsHold ==
    ASSUME NEW list \in Seq(Entries) PROVE EidsOf(list) \subseteq Listeners
<1>1. \A i \in DOMAIN list : list[i] \in Entries
  OBVIOUS
<1>2. QED BY <1>1 DEF EidsOf, Entries

-----------------------------------------------------------------------------
(* The dispatches.                                                         *)

WalkedIn(d, list) == IF d.shared THEN list ELSE d.list

\* A dispatch, when the source has this list and has given out ids up to id:
\* it has called what it has passed, and owes no call to others than those of
\* the list it walks.
DispatchInv(d, list, id) ==
    LET w == WalkedIn(d, list)
    IN  /\ ListInv(w, id)
        /\ d.passed <= Len(w) /\ Len(d.called) = d.passed
        /\ \A i \in 1 .. d.passed : d.called[i] = w[i].eid
        /\ d.owed \subseteq EidsOf(w)

\* The list of the source: in order, each listener once.
HandlersInv ==
    /\ lastID \in 0 .. MaxListeners
    /\ ListInv(handlers, lastID) /\ Pairwise(handlers, Before)

\* No dispatch has lost its place in the list it walks.
ReventInv ==
    /\ TypeOK /\ HandlersInv
    /\ \A k \in DOMAIN dispatch : DispatchInv(dispatch[k], handlers, lastID)

\* The same of other dispatches than those of the state.
DispatchesInv(ds, list, id) ==
    ds \in Seq(Dispatches) /\ \A k \in DOMAIN ds : DispatchInv(ds[k], list, id)

LEMMA InvParts ==
    /\ ReventInv => DispatchesInv(dispatch, handlers, lastID)
    /\ \A k \in DOMAIN dispatch : Walked(dispatch[k]) = WalkedIn(dispatch[k], handlers)
BY DEF ReventInv, TypeOK, DispatchesInv, Walked, WalkedIn

LEMMA PrefixHolds ==
    ASSUME NEW S, NEW s \in Seq(S), NEW m \in 0 .. Len(s)
    PROVE  /\ SubSeq(s, 1, m) \in Seq(S)
           /\ \A k \in DOMAIN SubSeq(s, 1, m) : k \in DOMAIN s /\ SubSeq(s, 1, m)[k] = s[k]
<1>1. SubSeq(s, 1, m) \in Seq(S) /\ DOMAIN SubSeq(s, 1, m) = 1 .. m
  OBVIOUS
<1>2. \A k \in 1 .. m : k \in DOMAIN s /\ SubSeq(s, 1, m)[k] = s[k]
  OBVIOUS
<1>3. QED BY <1>1, <1>2

\* Dispatches end from the inside.
LEMMA EndingKeeps ==
    ASSUME NEW ds, NEW list, NEW id, DispatchesInv(ds, list, id), NEW m \in 0 .. Len(ds)
    PROVE  DispatchesInv(SubSeq(ds, 1, m), list, id)
BY PrefixHolds DEF DispatchesInv

\* A listener is added at the end, while handlers run.
LEMMA AddingKeeps ==
    ASSUME NEW d \in Dispatches, NEW list, NEW id \in Nat, ListInv(list, id),
           DispatchInv(d, list, id), NEW e \in Entries,
           ListInv(list \o <<e>>, id + 1)
    PROVE  DispatchInv(d, list \o <<e>>, id + 1)
<1>1. CASE ~ d.shared
  <2>1. WalkedIn(d, list) = d.list /\ WalkedIn(d, list \o <<e>>) = d.list
    BY <1>1 DEF WalkedIn
  <2>2. ListInv(d.list, id + 1)
    <3>1. ToSet(d.list) \subseteq Entries /\ ListInv(d.list, id)
      BY <2>1 DEF DispatchInv, ListInv, ToSet
    <3>2. \A x \in ToSet(d.list) : x.eid <= id + 1
      BY <3>1, EntryTyped DEF ListInv
    <3>3. QED BY <3>1, <3>2 DEF ListInv
  <2>3. QED BY <2>1, <2>2 DEF DispatchInv
<1>2. CASE d.shared
  <2> DEFINE w == list \o <<e>>
  <2>1. WalkedIn(d, list) = list /\ WalkedIn(d, w) = w
    BY <1>2 DEF WalkedIn
  <2>2. /\ list \in Seq(Entries) /\ Len(list) \in Nat /\ Len(w) = Len(list) + 1
        /\ DOMAIN list = 1 .. Len(list) /\ DOMAIN w = 1 .. Len(w)
        /\ \A i \in 1 .. Len(list) : w[i] = list[i]
    BY DEF ListInv
  <2>3. d.passed \in Nat
    BY DEF Dispatches
  <2> HIDE DEF w
  <2>4. EidsOf(list) \subseteq EidsOf(w)
    BY <2>2 DEF EidsOf
  <2>5. d.passed <= Len(list) /\ \A i \in 1 .. d.passed : d.called[i] = list[i].eid
    BY <2>1 DEF DispatchInv
  <2>6. d.passed <= Len(w) /\ \A i \in 1 .. d.passed : d.called[i] = w[i].eid
    BY <2>2, <2>3, <2>5
  <2>7. QED BY <2>1, <2>4, <2>6 DEF DispatchInv, w
<1>3. QED BY <1>1, <1>2 DEF Dispatches

\* Listeners are removed: the dispatch keeps the list it walks.
LEMMA DetachKeeps ==
    ASSUME ReventInv, NEW k \in DOMAIN dispatch, NEW gone, NEW list
    PROVE  /\ Detach(dispatch[k], gone) \in Dispatches
           /\ DispatchInv(Detach(dispatch[k], gone), list, lastID)
<1> DEFINE d == dispatch[k]
           w == Walked(d)
           new == Detach(d, gone)
<1>1. d \in Dispatches /\ DispatchInv(d, handlers, lastID) /\ w = WalkedIn(d, handlers)
  BY InvParts DEF DispatchesInv
<1>2. w \in Seq(Entries)
  BY <1>1 DEF DispatchInv, ListInv
<1>3. new = [d EXCEPT !.list = w, !.shared = FALSE, !.owed = @ \ gone]
  BY DEF Detach
<1> HIDE DEF d, w, new
<1>4. new \in Dispatches
  BY <1>1, <1>2, <1>3 DEF Dispatches
<1>5. /\ new.shared = FALSE /\ new.list = w /\ new.owed = d.owed \ gone
      /\ new.passed = d.passed /\ new.called = d.called
  BY <1>1, <1>3 DEF Dispatches
<1>6. WalkedIn(new, list) = w
  BY <1>5 DEF WalkedIn
<1>7. QED BY <1>1, <1>4, <1>5, <1>6 DEF DispatchInv, d, new

LEMMA DetachedKeeps ==
    ASSUME ReventInv, NEW gone, NEW list
    PROVE  /\ DispatchesInv(Detached(gone), list, lastID)
           /\ Len(Detached(gone)) = Len(dispatch)
<1>1. dispatch \in Seq(Dispatches) /\ DOMAIN dispatch = 1 .. Len(dispatch) /\ Len(dispatch) \in Nat
  BY DEF ReventInv, TypeOK
<1>2. Detached(gone) = [i \in 1 .. Len(dispatch) |-> Detach(dispatch[i], gone)]
  BY <1>1 DEF Detached
<1>3. \A i \in 1 .. Len(dispatch) :
        /\ Detach(dispatch[i], gone) \in Dispatches
        /\ DispatchInv(Detach(dispatch[i], gone), list, lastID)
  BY <1>1, DetachKeeps
<1> DEFINE f == [i \in 1 .. Len(dispatch) |-> Detach(dispatch[i], gone)]
<1>4. f \in Seq(Dispatches) /\ Len(f) = Len(dispatch) /\ DOMAIN f = 1 .. Len(dispatch)
  <2>1. f \in [1 .. Len(dispatch) -> Dispatches]
    BY <1>3
  <2>2. \A S, n : \A g \in [1 .. n -> S] : n \in Nat => g \in Seq(S) /\ Len(g) = n
    OBVIOUS
  <2> HIDE DEF f
  <2>3. QED BY <1>1, <2>1, <2>2
<1>5. \A i \in 1 .. Len(dispatch) : f[i] = Detach(dispatch[i], gone)
  OBVIOUS
<1> HIDE DEF f
<1>6. QED BY <1>2, <1>3, <1>4, <1>5 DEF DispatchesInv, f

\* One dispatch changes, and the others do not.
LEMMA ChangeKeeps ==
    ASSUME NEW ds, NEW list, NEW id, DispatchesInv(ds, list, id), NEW k \in DOMAIN ds,
           NEW d \in Dispatches, DispatchInv(d, list, id)
    PROVE  DispatchesInv([ds EXCEPT ![k] = d], list, id)
BY DEF DispatchesInv

\* The source's list when listeners are removed from it.
LEMMA WithoutHolds ==
    ASSUME HandlersInv, NEW gone
    PROVE  /\ ListInv(Without(gone), lastID) /\ Pairwise(Without(gone), Before)
           /\ gone = {} => Without(gone) = handlers
<1> DEFINE kept == { e \in Entries : e.eid \notin gone }
<1>1. handlers \in Seq(Entries) /\ ListInv(handlers, lastID) /\ Pairwise(handlers, Before)
  BY DEF HandlersInv, ListInv
<1>2. gone = {} => ToSet(handlers) \subseteq kept
  BY <1>1 DEF ToSet
<1>3. Without(gone) = Selected(handlers, kept)
  BY DEF Without
<1> HIDE DEF kept
<1>4. /\ Without(gone) \in Seq(Entries) /\ ToSet(Without(gone)) = ToSet(handlers) \cap kept
      /\ \A R : Pairwise(handlers, R) => Pairwise(Without(gone), R)
      /\ ToSet(handlers) \subseteq kept => Without(gone) = handlers
  BY <1>1, <1>3, SelectedHolds
<1>5. QED BY <1>1, <1>2, <1>4 DEF ListInv

-----------------------------------------------------------------------------
(* The steps.                                                              *)

LEMMA InnerHolds ==
    ASSUME ReventInv, ~ Idle
    PROVE  /\ dispatch \in Seq(Dispatches) /\ Len(dispatch) \in Nat \ {0}
           /\ Len(dispatch) \in DOMAIN dispatch /\ Inner = dispatch[Len(dispatch)]
           /\ Inner \in Dispatches /\ DispatchInv(Inner, handlers, lastID)
           /\ Walked(Inner) = WalkedIn(Inner, handlers)
<1>1. dispatch \in Seq(Dispatches) /\ dispatch # <<>>
  BY DEF ReventInv, TypeOK, Idle
<1>2. Len(dispatch) \in Nat \ {0} /\ Len(dispatch) \in DOMAIN dispatch
  BY <1>1
<1>3. Inner = dispatch[Len(dispatch)]
  BY DEF Inner, Last
<1>4. QED BY <1>1, <1>2, <1>3, InvParts DEF DispatchesInv

LEMMA AddListenerOrders ==
    ASSUME HandlersInv, NEW p \in Priorities, NEW once \in BOOLEAN, AddListener(p, once)
    PROVE  /\ HandlersInv'
           /\ p = NoPriority =>
                handlers' = handlers \o <<[eid |-> lastID + 1, priority |-> p, once |-> once]>>
<1> DEFINE e == [eid |-> GenerateEventID, priority |-> p, once |-> once]
<1>1. /\ lastID < MaxListeners /\ lastID' = lastID + 1 /\ handlers' = Insert(handlers, e)
      /\ dispatch' = dispatch /\ returned' = returned
      /\ Idle \/ p \in LatePriorities
  BY DEF AddListener
<1>2. /\ ListInv(handlers, lastID) /\ Pairwise(handlers, Before)
      /\ lastID \in Nat /\ ToSet(handlers) \subseteq Entries
      /\ handlers \in Seq(Entries)
  BY ReventAssumption DEF HandlersInv, ListInv, ToSet
<1>3. e \in Entries /\ e.eid = lastID + 1 /\ e.priority = p
  BY <1>1, <1>2, ReventAssumption DEF Entries, Listeners, GenerateEventID
<1> HIDE DEF e
<1>4. \A x \in ToSet(handlers) : x.eid < e.eid
  BY <1>2, <1>3, EntryTyped DEF ListInv
<1>5. /\ handlers' \in Seq(Entries) /\ ToSet(handlers') = ToSet(handlers) \cup {e}
      /\ Pairwise(handlers', Differ) /\ Pairwise(handlers', Before)
      /\ p = NoPriority => handlers' = handlers \o <<e>>
  BY <1>1, <1>2, <1>3, <1>4, InsertHolds
<1>6. ListInv(handlers', lastID')
  <2>1. \A x \in ToSet(handlers') : x.eid <= lastID + 1
    BY <1>2, <1>3, <1>5, EntryTyped DEF ListInv
  <2>2. QED BY <1>1, <1>5, <2>1 DEF ListInv
<1>7. QED BY <1>1, <1>2, <1>5, <1>6, ReventAssumption DEF HandlersInv, e, GenerateEventID

LEMMA AddListenerKeeps ==
    ASSUME LatePriorities \subseteq {NoPriority},
           ReventInv, NEW p \in Priorities, NEW once \in BOOLEAN, AddListener(p, once)
    PROVE  ReventInv'
<1> DEFINE e == [eid |-> lastID + 1, priority |-> p, once |-> once]
<1>1. /\ lastID < MaxListeners /\ lastID' = lastID + 1
      /\ dispatch' = dispatch /\ returned' = returned
      /\ Idle \/ p = NoPriority
  BY DEF AddListener
<1>2. /\ ListInv(handlers, lastID) /\ lastID \in Nat /\ DispatchesInv(dispatch, handlers, lastID)
  BY InvParts, ReventAssumption DEF ReventInv, HandlersInv
<1>3. e \in Entries
  BY <1>1, <1>2, ReventAssumption DEF Entries, Listeners
<1>4. HandlersInv' /\ (p = NoPriority => handlers' = handlers \o <<e>>)
  BY AddListenerOrders DEF ReventInv
<1> HIDE DEF e
<1>5. ListInv(handlers', lastID + 1)
  BY <1>1, <1>4 DEF HandlersInv
<1>6. ASSUME NEW k \in DOMAIN dispatch
      PROVE  DispatchInv(dispatch[k], handlers', lastID + 1)
  <2>1. dispatch[k] \in Dispatches /\ DispatchInv(dispatch[k], handlers, lastID)
    BY <1>2 DEF DispatchesInv
  <2>2. dispatch # <<>>
    OBVIOUS
  <2>3. handlers' = handlers \o <<e>>
    BY <1>1, <1>4, <2>2 DEF Idle
  <2>4. ListInv(handlers \o <<e>>, lastID + 1)
    BY <1>5, <2>3
  <2>5. DispatchInv(dispatch[k], handlers \o <<e>>, lastID + 1)
    BY <1>2, <1>3, <2>1, <2>4, AddingKeeps
  <2>6. QED BY <2>3, <2>5
<1>7. TypeOK'
  BY <1>1, <1>4, <1>5 DEF ReventInv, TypeOK, HandlersInv, ListInv
<1>8. QED BY <1>1, <1>4, <1>6, <1>7 DEF ReventInv

LEMMA RemoveListenersKeeps ==
    ASSUME ReventInv, NEW gone, RemoveListeners(gone)
    PROVE  ReventInv'
<1>1. /\ handlers' = Without(gone) /\ dispatch' = Detached(gone)
      /\ lastID' = lastID /\ returned' = returned
  BY DEF RemoveListeners
<1>2. ListInv(handlers', lastID) /\ Pairwise(handlers', Before)
  BY <1>1, WithoutHolds DEF ReventInv
<1>3. DispatchesInv(dispatch', handlers', lastID)
  BY <1>1, DetachedKeeps
<1>4. QED BY <1>1, <1>2, <1>3 DEF ReventInv, HandlersInv, TypeOK, ListInv, DispatchesInv

LEMMA RaiseEventKeeps ==
    ASSUME ReventInv, NEW catches \in BOOLEAN, RaiseEvent(catches)
    PROVE  ReventInv'
<1> DEFINE d == Begun(catches)
<1>1. /\ dispatch' = dispatch \/ dispatch' = Append(dispatch, d)
      /\ UNCHANGED <<handlers, lastID, returned>>
  BY DEF RaiseEvent
<1>2. handlers \in Seq(Entries) /\ ListInv(handlers, lastID) /\ Len(handlers) \in Nat
  BY DEF ReventInv, HandlersInv, TypeOK
<1>3. d \in Dispatches
  <2>1. EidsOf(handlers) \subseteq Listeners
    BY <1>2, EidsHold
  <2>2. QED BY <2>1 DEF Begun, Dispatches
<1>4. /\ d.shared = TRUE /\ d.passed = 0 /\ d.called = <<>> /\ d.owed = EidsOf(handlers)
  BY DEF Begun
<1> HIDE DEF d
<1>5. DispatchInv(d, handlers, lastID)
  BY <1>2, <1>4 DEF DispatchInv, WalkedIn
<1>6. DispatchesInv(dispatch, handlers, lastID)
  BY InvParts
<1>7. DispatchesInv(Append(dispatch, d), handlers, lastID)
  <2> DEFINE n == Len(dispatch)
             ds == Append(dispatch, d)
  <2>1. /\ ds \in Seq(Dispatches) /\ DOMAIN ds = 1 .. n + 1 /\ ds[n + 1] = d
        /\ n \in Nat /\ DOMAIN dispatch = 1 .. n /\ \A k \in 1 .. n : ds[k] = dispatch[k]
    BY <1>3, <1>6 DEF DispatchesInv
  <2>2. \A k \in 1 .. n + 1 : k \in 1 .. n \/ k = n + 1
    BY <2>1
  <2> HIDE DEF n, ds
  <2>3. QED BY <1>5, <1>6, <2>1, <2>2 DEF DispatchesInv, ds
<1>8. DispatchesInv(dispatch', handlers', lastID')
  BY <1>1, <1>6, <1>7
<1>9. QED BY <1>1, <1>8 DEF ReventInv, HandlersInv, TypeOK, DispatchesInv

LEMMA InvokeKeeps ==
    ASSUME ReventInv, Invoke
    PROVE  ReventInv'
<1> DEFINE w == Walked(Inner)
           next == w[Inner.passed + 1]
           d == Calls(Inner, next)
<1>1. ~ Idle /\ Inner.passed < Len(w) /\ UNCHANGED <<handlers, lastID, returned>>
  BY DEF Invoke, Between
<1>2. /\ dispatch \in Seq(Dispatches) /\ Len(dispatch) \in DOMAIN dispatch
      /\ Inner = dispatch[Len(dispatch)] /\ Inner \in Dispatches
      /\ DispatchInv(Inner, handlers, lastID) /\ w = WalkedIn(Inner, handlers)
  BY <1>1, InnerHolds
<1>3. dispatch' = [dispatch EXCEPT ![Len(dispatch)] = d]
  BY DEF Invoke
<1> HIDE DEF w
<1>4. w \in Seq(Entries) /\ Inner.passed \in Nat /\ Inner.called \in Seq(Listeners)
  BY <1>2 DEF DispatchInv, ListInv, Dispatches
<1>5. next \in Entries
  BY <1>1, <1>4
<1> HIDE DEF next
<1>6. next.eid \in Listeners /\ next.once \in BOOLEAN
  BY <1>5 DEF Entries
<1>7. /\ Inner.passed + 1 \in Nat /\ Append(Inner.called, next.eid) \in Seq(Listeners)
  BY <1>4, <1>6
<1>8. d \in Dispatches
  BY <1>2, <1>6, <1>7 DEF Dispatches, Calls
<1>9. /\ d.shared = Inner.shared /\ d.list = Inner.list /\ d.owed = Inner.owed
      /\ d.passed = Inner.passed + 1 /\ d.called = Append(Inner.called, next.eid)
  BY <1>2 DEF Dispatches, Calls
<1> HIDE DEF d
<1>10. WalkedIn(d, handlers) = w
  BY <1>2, <1>9 DEF WalkedIn
<1>11. DispatchInv(d, handlers, lastID)
  <2>1. /\ Len(Inner.called) = Inner.passed
        /\ \A i \in 1 .. Inner.passed : Inner.called[i] = w[i].eid
        /\ Inner.owed \subseteq EidsOf(w) /\ ListInv(w, lastID)
    BY <1>2 DEF DispatchInv
  <2>2. d.passed <= Len(w) /\ Len(d.called) = d.passed
    BY <1>1, <1>4, <1>6, <1>9, <2>1
  <2>3. ASSUME NEW i \in 1 .. d.passed PROVE d.called[i] = w[i].eid
    <3>1. i \in 1 .. Inner.passed \/ i = Inner.passed + 1
      BY <1>4, <1>9
    <3>2. QED BY <1>4, <1>6, <1>9, <2>1, <3>1 DEF next
  <2>4. QED BY <1>9, <1>10, <2>1, <2>2, <2>3 DEF DispatchInv
<1>12. DispatchesInv(dispatch', handlers, lastID)
  BY <1>2, <1>3, <1>8, <1>11, ChangeKeeps, InvParts
<1>13. QED BY <1>1, <1>12 DEF ReventInv, HandlersInv, TypeOK, DispatchesInv

LEMMA EndOfListKeeps ==
    ASSUME ReventInv, EndOfList
    PROVE  ReventInv'
<1>1. ~ Idle /\ dispatch' = Front(dispatch) /\ UNCHANGED <<handlers, lastID, returned>>
  BY DEF EndOfList, Between
<1>2. Len(dispatch) - 1 \in 0 .. Len(dispatch)
  BY <1>1, InnerHolds
<1>3. DispatchesInv(dispatch', handlers, lastID)
  BY <1>1, <1>2, EndingKeeps, InvParts DEF Front
<1>4. QED BY <1>1, <1>3 DEF ReventInv, HandlersInv, TypeOK, DispatchesInv

LEMMA ReturnKeeps ==
    ASSUME ReventInv, NEW halt \in BOOLEAN, NEW remove \in BOOLEAN, Return(halt, remove)
    PROVE  ReventInv'
<1> DEFINE gone == RemovedOnReturn(remove)
           kept == IF gone = {} THEN dispatch ELSE Detached(gone)
           m == Len(kept)
           d == [kept[m] EXCEPT !.running = NoListener]
<1>1. /\ ~ Idle /\ Inner.running # NoListener /\ handlers' = Without(gone)
      /\ dispatch' = IF halt THEN Front(kept) ELSE [kept EXCEPT ![m].running = NoListener]
      /\ returned' = returned \cup {Inner.running} /\ lastID' = lastID
  BY DEF Return, Calling
<1> HIDE DEF gone
<1>2. /\ Len(dispatch) \in Nat \ {0} /\ Inner \in Dispatches
  BY <1>1, InnerHolds
<1>3. ListInv(handlers', lastID) /\ Pairwise(handlers', Before)
  BY <1>1, WithoutHolds DEF ReventInv
<1>4. DispatchesInv(kept, handlers', lastID) /\ m = Len(dispatch)
  <2>1. CASE gone = {}
    <3>1. handlers' = handlers
      BY <1>1, <2>1, WithoutHolds DEF ReventInv
    <3>2. kept = dispatch
      BY <2>1
    <3>3. QED BY <3>1, <3>2, InvParts
  <2>2. CASE gone # {}
    BY <2>2, DetachedKeeps
  <2>3. QED BY <2>1, <2>2
<1> HIDE DEF kept
<1>5. kept \in Seq(Dispatches) /\ m \in DOMAIN kept /\ kept[m] \in Dispatches
  BY <1>2, <1>4 DEF DispatchesInv
<1>6. d \in Dispatches /\ DispatchInv(d, handlers', lastID)
  <2>1. d \in Dispatches
    BY <1>5 DEF Dispatches
  <2>2. /\ d.shared = kept[m].shared /\ d.list = kept[m].list /\ d.owed = kept[m].owed
        /\ d.passed = kept[m].passed /\ d.called = kept[m].called
    BY <1>5 DEF Dispatches
  <2>3. DispatchInv(kept[m], handlers', lastID)
    BY <1>4, <1>5 DEF DispatchesInv
  <2> HIDE DEF d
  <2>4. QED BY <2>1, <2>2, <2>3 DEF DispatchInv, WalkedIn
<1>7. DispatchesInv(dispatch', handlers', lastID)
  <2>1. CASE halt
    <3>1. m - 1 \in 0 .. m
      BY <1>2, <1>4
    <3>2. QED BY <1>1, <1>4, <2>1, <3>1, EndingKeeps DEF Front
  <2>2. CASE ~ halt
    <3>1. dispatch' = [kept EXCEPT ![m] = d]
      BY <1>1, <2>2
    <3> HIDE DEF d, m
    <3>2. QED BY <1>4, <1>5, <1>6, <3>1, ChangeKeeps
  <2>3. QED BY <2>1, <2>2
<1>8. returned' \subseteq Listeners
  <2>1. Inner.running \in Listeners
    BY <1>1, <1>2 DEF Dispatches
  <2>2. QED BY <1>1, <2>1 DEF ReventInv, TypeOK
<1>9. QED BY <1>1, <1>3, <1>7, <1>8 DEF ReventInv, HandlersInv, TypeOK, DispatchesInv, ListInv

LEMMA FailKeeps ==
    ASSUME ReventInv, Fail
    PROVE  ReventInv'
<1> DEFINE catching == { i \in DOMAIN dispatch : dispatch[i].catches }
           outer == { i \in 0 .. Len(dispatch) - 1 : i + 1 \in catching \cup {1} }
<1>1. ~ Idle /\ dispatch' = SubSeq(dispatch, 1, Max(outer)) /\ UNCHANGED <<handlers, lastID, returned>>
  BY DEF Fail, Calling
<1>2. Len(dispatch) \in Nat \ {0}
  BY <1>1, InnerHolds
<1>3. Max(outer) \in 0 .. Len(dispatch)
  <2>1. 0 \in outer
    BY <1>2
  <2>2. outer \in SUBSET Nat /\ \A i \in outer : i <= Len(dispatch) /\ i \in 0 .. Len(dispatch)
    BY <1>2
  <2> HIDE DEF outer
  <2>3. QED BY <1>2, <2>1, <2>2, Greatest
<1> HIDE DEF outer
<1>4. DispatchesInv(dispatch', handlers, lastID)
  BY <1>1, <1>3, EndingKeeps, InvParts
<1>5. QED BY <1>1, <1>4 DEF ReventInv, HandlersInv, TypeOK, DispatchesInv

LEMMA StepKeepsOrder == HandlersInv /\ [Next]_vars => HandlersInv'
<1> SUFFICES ASSUME HandlersInv, [Next]_vars PROVE HandlersInv'
  OBVIOUS
<1>1. ASSUME NEW p \in Priorities, NEW once \in BOOLEAN, AddListener(p, once) PROVE HandlersInv'
  BY <1>1, AddListenerOrders
<1>2. ASSUME NEW gone, handlers' = Without(gone), lastID' = lastID PROVE HandlersInv'
  BY <1>2, WithoutHolds DEF HandlersInv
<1>3. ASSUME NEW gone, RemoveListeners(gone) PROVE HandlersInv'
  BY <1>2, <1>3 DEF RemoveListeners
<1>4. ASSUME NEW halt \in BOOLEAN, NEW remove \in BOOLEAN, Return(halt, remove) PROVE HandlersInv'
  BY <1>2, <1>4 DEF Return
<1>5. ASSUME UNCHANGED <<handlers, lastID>> PROVE HandlersInv'
  BY <1>5 DEF HandlersInv
<1>6. (\E catches \in BOOLEAN : RaiseEvent(catches)) \/ Invoke \/ EndOfList \/ Fail \/ UNCHANGED vars
        => HandlersInv'
  BY <1>5 DEF RaiseEvent, Invoke, EndOfList, Fail, vars
<1>7. QED BY <1>1, <1>3, <1>4, <1>6 DEF Next

LEMMA StepKeepsRevent ==
    LatePriorities \subseteq {NoPriority} /\ ReventInv /\ [Next]_vars => ReventInv'
<1> SUFFICES ASSUME LatePriorities \subseteq {NoPriority}, ReventInv, [Next]_vars PROVE ReventInv'
  OBVIOUS
<1>1. ASSUME NEW p \in Priorities, NEW once \in BOOLEAN, AddListener(p, once) PROVE ReventInv'
  BY <1>1, AddListenerKeeps
<1>2. ASSUME NEW gone, RemoveListeners(gone) PROVE ReventInv'
  BY <1>2, RemoveListenersKeeps
<1>3. ASSUME NEW catches \in BOOLEAN, RaiseEvent(catches) PROVE ReventInv'
  BY <1>3, RaiseEventKeeps
<1>4. ASSUME NEW halt \in BOOLEAN, NEW remove \in BOOLEAN, Return(halt, remove) PROVE ReventInv'
  BY <1>4, ReturnKeeps
<1>5. UNCHANGED vars => ReventInv'
  BY DEF vars, ReventInv, HandlersInv, TypeOK, DispatchInv
<1>6. QED BY <1>1, <1>2, <1>3, <1>4, <1>5, InvokeKeeps, EndOfListKeeps, FailKeeps DEF Next

LEMMA Beginning == Init => ReventInv /\ HandlersInv
<1> SUFFICES ASSUME Init PROVE ReventInv /\ HandlersInv
  OBVIOUS
<1>1. handlers \in Seq(Entries) /\ dispatch \in Seq(Dispatches) /\ DOMAIN handlers = {} /\ DOMAIN dispatch = {}
  BY DEF Init
<1>2. ListInv(handlers, lastID) /\ Pairwise(handlers, Before)
  BY <1>1 DEF ListInv, Pairwise, ToSet
<1>3. lastID \in 0 .. MaxListeners /\ returned \subseteq Listeners
  BY ReventAssumption DEF Init
<1>4. QED BY <1>1, <1>2, <1>3 DEF ReventInv, HandlersInv, TypeOK

LEMMA ReventHolds == LatePriorities \subseteq {NoPriority} /\ Spec => []ReventInv
<1>1. SUFFICES ASSUME LatePriorities \subseteq {NoPriority} PROVE Spec => []ReventInv
  OBVIOUS
<1>2. ReventInv /\ [Next]_vars => ReventInv'
  BY <1>1, StepKeepsRevent
<1>3. QED BY <1>2, Beginning, PTL DEF Spec

-----------------------------------------------------------------------------
(* The list of handlers is sorted by falling priority and, among equals,   *)
(* by the order of registration, whatever priorities the handlers          *)
(* themselves add listeners with: the stable sort of addListener, and the  *)
(* filtered copies of removeListener.                                      *)
THEOREM ListInOrder == Spec => []InOrder
<1>1. HandlersInv => InOrder
  <2> SUFFICES ASSUME HandlersInv, NEW i \in DOMAIN handlers, NEW j \in DOMAIN handlers, i < j
               PROVE  \/ handlers[i].priority > handlers[j].priority
                      \/ /\ handlers[i].priority = handlers[j].priority
                         /\ handlers[i].eid < handlers[j].eid
    BY DEF InOrder
  <2>1. <<handlers[i], handlers[j]>> \in Before
    BY DEF HandlersInv, Pairwise
  <2>2. QED BY <2>1 DEF Before
<1>2. QED BY <1>1, Beginning, StepKeepsOrder, PTL DEF Spec

(* A dispatch calls no listener twice and, when its list is walked, has    *)
(* called each one that was there at its start and was not removed, while  *)
(* handlers add, remove and raise.  The hypothesis is that of the run:     *)
(* what handlers add has no priority, as in all of this repository, and so *)
(* goes to the end of the list.  The list of a dispatch would be sorted    *)
(* under it otherwise.                                                     *)
THEOREM EachCalledOnce == LatePriorities \subseteq {NoPriority} /\ Spec => []CalledOnceEach
<1>1. ASSUME ReventInv, NEW k \in DOMAIN dispatch
      PROVE  /\ \A i, j \in DOMAIN dispatch[k].called :
                  i # j => dispatch[k].called[i] # dispatch[k].called[j]
             /\ dispatch[k].passed >= Len(Walked(dispatch[k])) =>
                  dispatch[k].owed \subseteq ToSet(dispatch[k].called)
  <2> DEFINE d == dispatch[k]
             w == Walked(d)
  <2>1. d \in Dispatches /\ DispatchInv(d, handlers, lastID) /\ w = WalkedIn(d, handlers)
    BY <1>1, InvParts DEF DispatchesInv
  <2> HIDE DEF d, w
  <2>2. /\ d.passed \in Nat /\ d.passed <= Len(w) /\ Len(w) \in Nat
        /\ DOMAIN d.called = 1 .. d.passed /\ DOMAIN w = 1 .. Len(w)
        /\ \A i \in 1 .. d.passed : d.called[i] = w[i].eid
        /\ Pairwise(w, Differ) /\ d.owed \subseteq EidsOf(w)
    BY <2>1 DEF DispatchInv, ListInv, Dispatches
  <2>3. ASSUME NEW i \in 1 .. d.passed, NEW j \in 1 .. d.passed, i # j
        PROVE  d.called[i] # d.called[j]
    <3>1. i \in DOMAIN w /\ j \in DOMAIN w /\ (i < j \/ j < i)
      BY <2>2, <2>3
    <3>2. <<w[i], w[j]>> \in Differ \/ <<w[j], w[i]>> \in Differ
      BY <2>2, <3>1 DEF Pairwise
    <3>3. w[i].eid # w[j].eid
      BY <3>2 DEF Differ
    <3>4. QED BY <2>2, <2>3, <3>3
  <2>4. \A i, j \in DOMAIN d.called : i # j => d.called[i] # d.called[j]
    BY <2>2, <2>3
  <2>5. ASSUME d.passed >= Len(w) PROVE d.owed \subseteq ToSet(d.called)
    <3>1. d.passed = Len(w)
      BY <2>2, <2>5
    <3>2. EidsOf(w) \subseteq ToSet(d.called)
      BY <2>2, <3>1 DEF EidsOf, ToSet
    <3>3. QED BY <2>2, <3>2
  <2>6. QED BY <2>4, <2>5 DEF d, w
<1>2. ReventInv => CalledOnceEach
  BY <1>1 DEF CalledOnceEach
<1>3. QED BY <1>2, ReventHolds, PTL
=============================================================================
