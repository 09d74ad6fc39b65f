-------------------------- MODULE SequenceLemmas ---------------------------
(***************************************************************************)
(* What the proofs about AgentLoop and ChatDurability share: induction on  *)
(* a set of numbers, and functions on the places of a sequence that are    *)
(* defined from their values at later places, as CollapsedFrom, or at the  *)
(* place before, as Parsed.                                                *)
(***************************************************************************)
EXTENDS Integers, Sequences, SequenceTheorems, WellFoundedInduction, TLAPS

Less == {p \in Nat \X Nat : p[1] < p[2]}

(***************************************************************************)
(* A set of numbers that is not empty has a least one.                     *)
(***************************************************************************)
LEMMA LeastNumber ==
    ASSUME NEW T \in SUBSET Nat, T # {}
    PROVE  \E n \in T : \A m \in T : n <= m
<1>1. IsWellFoundedOn(Less, Nat)
    BY NatLessThanWellFounded DEF OpToRel, Less
<1>2. \E n \in T : \A m \in T : ~(<<m, n>> \in Less)
    BY <1>1, WFMin
<1>3. \A n, m \in T : ~(<<m, n>> \in Less) => n <= m
    BY DEF Less
<1> QED
    BY <1>2, <1>3

LEMMA GreatestNumber ==
    ASSUME NEW n \in Nat, NEW T \in SUBSET (0..n), T # {}
    PROVE  \E m \in T : \A k \in T : k <= m
<1> DEFINE U == {n - k : k \in T}
<1>1. PICK d \in U : \A e \in U : d <= e
  <2>1. \A k \in T : n - k \in Nat
      OBVIOUS
  <2>2. U \in SUBSET Nat
      BY <2>1
  <2>3. U # {}
      OBVIOUS
  <2> HIDE DEF U
  <2> QED
      BY <2>2, <2>3, LeastNumber
<1>2. PICK m \in T : d = n - m
    BY <1>1
<1>3. ASSUME NEW k \in T PROVE k <= m
  <2>1. d <= n - k
      BY <1>1
  <2> QED
      BY <1>2, <2>1
<1> QED
    BY <1>3

(***************************************************************************)
(* Induction upwards and downwards.                                        *)
(***************************************************************************)
LEMMA InductionUp ==
    ASSUME NEW T, NEW n \in Nat, 0 \in T,
           \A i \in 1..n : i - 1 \in T => i \in T
    PROVE  \A i \in 0..n : i \in T
<1>1. SUFFICES ASSUME {i \in 0..n : i \notin T} # {} PROVE FALSE
    OBVIOUS
<1>2. PICK i \in 0..n : i \notin T /\ \A k \in 0..n : k \notin T => i <= k
  <2>1. {k \in 0..n : k \notin T} \in SUBSET Nat
      OBVIOUS
  <2> QED
      BY <2>1, <1>1, LeastNumber
<1>3. i \in 1..n /\ i - 1 \in 0..n
    BY <1>2
<1> QED
    BY <1>2, <1>3

\* What holds at a place may rest on what holds at every later place.
LEMMA InductionDown ==
    ASSUME NEW T, NEW n \in Nat,
           \A i \in 1..n : (\A k \in (i + 1)..n : k \in T) => i \in T
    PROVE  \A i \in 1..n : i \in T
<1>1. SUFFICES ASSUME {i \in 1..n : i \notin T} # {} PROVE FALSE
    OBVIOUS
<1>2. PICK d \in {n - i : i \in {k \in 1..n : k \notin T}} :
          \A e \in {n - i : i \in {k \in 1..n : k \notin T}} : d <= e
  <2>1. {n - i : i \in {k \in 1..n : k \notin T}} \in SUBSET Nat
      OBVIOUS
  <2>2. {n - i : i \in {k \in 1..n : k \notin T}} # {}
      BY <1>1
  <2> QED
      BY <2>1, <2>2, LeastNumber
<1>3. PICK i \in 1..n : i \notin T /\ d = n - i
    BY <1>2
<1>4. \A k \in (i + 1)..n : k \in T
  <2> SUFFICES ASSUME NEW k \in (i + 1)..n, k \notin T PROVE FALSE
      OBVIOUS
  <2>1. k \in 1..n /\ n - k \in {n - j : j \in {m \in 1..n : m \notin T}}
      OBVIOUS
  <2>2. d <= n - k
      BY <2>1, <1>2
  <2> QED
      BY <2>2, <1>3
<1> QED
    BY <1>3, <1>4

(***************************************************************************)
(* Of the numbers from i to n that follow i without a gap in A there is a  *)
(* last one.                                                               *)
(***************************************************************************)
LEMMA RunHasEnd ==
    ASSUME NEW n \in Nat, NEW i \in 1..n, NEW A
    PROVE  \E j \in i..n : /\ \A k \in (i + 1)..j : k \in A
                           /\ j = n \/ j + 1 \notin A
<1> DEFINE Stops == {j \in i..n : j = n \/ j + 1 \notin A}
<1>1. PICK j \in Stops : \A m \in Stops : j <= m
  <2>1. Stops \in SUBSET Nat /\ n \in Stops
      OBVIOUS
  <2> QED
      BY <2>1, LeastNumber
<1>2. ASSUME NEW k \in (i + 1)..j PROVE k \in A
  <2>1. k - 1 \in i..n /\ k - 1 < j
      BY <1>1
  <2>2. k - 1 \notin Stops
      BY <1>1, <2>1
  <2> QED
      BY <2>1, <2>2
<1> QED
    BY <1>1, <1>2

(***************************************************************************)
(* A function whose value at a place is a piece followed by its value at a *)
(* later place exists.                                                     *)
(***************************************************************************)
IsForward(f, n, piece, next) ==
    /\ f = [i \in 1..(n + 1) |-> f[i]]
    /\ f[n + 1] = <<>>
    /\ \A i \in 1..n : f[i] = piece[i] \o f[next[i]]

LEMMA RecursionForward ==
    ASSUME NEW n \in Nat, NEW piece, NEW next, \A i \in 1..n : next[i] \in (i + 1)..(n + 1)
    PROVE  \E f : IsForward(f, n, piece, next)
<1> DEFINE Value(f, i) == IF i > n THEN <<>> ELSE piece[i] \o f[next[i]]
           Solves(f, m) == \A i \in m..(n + 1) : f[i] = Value(f, i)
           T == {m \in 1..(n + 1) : \E f : Solves(f, m)}
<1>0. ASSUME NEW k \in T PROVE \E f : Solves(f, k)
    OBVIOUS
<1>1. ASSUME NEW m \in 1..(n + 1), \A k \in (m + 1)..(n + 1) : k \in T PROVE m \in T
  <2>1. CASE m = n + 1
    <3> DEFINE g == [i \in {n + 1} |-> <<>>]
    <3>1. ASSUME NEW i \in m..(n + 1) PROVE g[i] = Value(g, i)
      <4>1. i = n + 1 /\ i > n
          BY <2>1
      <4> QED
          BY <4>1
    <3> HIDE DEF g
    <3>2. \E f : Solves(f, m)
        BY <3>1
    <3> QED
        BY <3>2
  <2>2. CASE m \in 1..n
    <3>1. PICK f : Solves(f, m + 1)
      <4>1. m + 1 \in (m + 1)..(n + 1)
          BY <2>2
      <4> HIDE DEF T, Solves
      <4>2. m + 1 \in T
          BY <4>1, <1>1
      <4> QED
          BY <4>2, <1>0
    <3> DEFINE g == [i \in m..(n + 1) |-> IF i = m THEN Value(f, m) ELSE f[i]]
    <3>2. ASSUME NEW i \in m..(n + 1), i <= n PROVE g[next[i]] = f[next[i]]
      <4>1. next[i] \in (i + 1)..(n + 1)
          BY <2>2, <3>2
      <4> QED
          BY <4>1, <2>2
    <3>3. ASSUME NEW i \in m..(n + 1) PROVE g[i] = Value(f, i)
        BY <3>1, <2>2
    <3>4. ASSUME NEW i \in m..(n + 1) PROVE g[i] = Value(g, i)
      <4>1. g[i] = Value(f, i)
          BY <3>3
      <4>2. i <= n => g[next[i]] = f[next[i]]
          BY <3>2
      <4> HIDE DEF g
      <4> QED
          BY <4>1, <4>2
    <3> HIDE DEF g
    <3>5. Solves(g, m)
        BY <3>4
    <3> QED
        BY <3>5, <2>2
  <2> QED
      BY <2>1, <2>2
<1>2. PICK f : Solves(f, 1)
  <2>1. 1 \in T
    <3>1. n + 1 \in Nat /\ 1 \in 1..(n + 1)
        OBVIOUS
    <3> HIDE DEF T
    <3> QED
        BY <1>1, <3>1, InductionDown
  <2> QED
      BY <2>1
<1> DEFINE h == [i \in 1..(n + 1) |-> f[i]]
<1>3. ASSUME NEW i \in 1..(n + 1) PROVE h[i] = Value(h, i)
  <2>1. i <= n => next[i] \in 1..(n + 1)
      OBVIOUS
  <2>2. i <= n => h[next[i]] = f[next[i]]
      BY <2>1
  <2>3. h[i] = Value(f, i)
      BY <1>2
  <2> HIDE DEF h
  <2> QED
      BY <2>2, <2>3
<1>4. h = [i \in 1..(n + 1) |-> h[i]]
    OBVIOUS
<1> HIDE DEF h
<1>5. ASSUME NEW i \in 1..n PROVE h[i] = piece[i] \o h[next[i]]
  <2>1. i \in 1..(n + 1) /\ ~(i > n)
      OBVIOUS
  <2> QED
      BY <2>1, <1>3
<1>6. h[n + 1] = <<>>
  <2>1. n + 1 \in 1..(n + 1) /\ n + 1 > n
      OBVIOUS
  <2> QED
      BY <2>1, <1>3
<1>7. IsForward(h, n, piece, next)
    BY <1>4, <1>5, <1>6 DEF IsForward
<1> QED
    BY <1>7

(***************************************************************************)
(* A function whose value at a place is its value at the place before with *)
(* a piece after it exists.                                                *)
(***************************************************************************)
IsBackward(f, n, piece) ==
    /\ f = [i \in 0..n |-> f[i]]
    /\ f[0] = <<>>
    /\ \A i \in 1..n : f[i] = f[i - 1] \o piece[i]

LEMMA RecursionBackward ==
    ASSUME NEW n \in Nat, NEW piece
    PROVE  \E f : IsBackward(f, n, piece)
<1> DEFINE Value(f, i) == IF i = 0 THEN <<>> ELSE f[i - 1] \o piece[i]
           Solves(f, m) == \A i \in 0..m : f[i] = Value(f, i)
           T == {m \in 0..n : \E f : Solves(f, m)}
<1>1. 0 \in T
  <2> DEFINE g == [i \in {0} |-> <<>>]
  <2>1. Solves(g, 0)
      OBVIOUS
  <2> HIDE DEF g
  <2> QED
      BY <2>1
<1>2. ASSUME NEW m \in 1..n, m - 1 \in T PROVE m \in T
  <2>1. PICK f : Solves(f, m - 1)
      BY <1>2
  <2> DEFINE g == [i \in 0..m |-> IF i = m THEN Value(f, m) ELSE f[i]]
  <2>2. ASSUME NEW i \in 0..m PROVE g[i] = Value(f, i)
      BY <2>1
  <2>3. ASSUME NEW i \in 1..m PROVE g[i - 1] = f[i - 1]
      OBVIOUS
  <2> HIDE DEF g
  <2>4. Solves(g, m)
      BY <2>2, <2>3
  <2> QED
      BY <2>4
<1>3. PICK f : Solves(f, n)
  <2>1. n \in T
    <3> HIDE DEF T
    <3> QED
        BY <1>1, <1>2, InductionUp
  <2> QED
      BY <2>1
<1> DEFINE h == [i \in 0..n |-> f[i]]
<1>4. ASSUME NEW i \in 0..n PROVE h[i] = Value(h, i)
  <2>1. i # 0 => h[i - 1] = f[i - 1]
      OBVIOUS
  <2>2. h[i] = Value(f, i)
      BY <1>3
  <2> HIDE DEF h
  <2> QED
      BY <2>1, <2>2
<1>5. h = [i \in 0..n |-> h[i]]
    OBVIOUS
<1> HIDE DEF h
<1>6. ASSUME NEW i \in 1..n PROVE h[i] = h[i - 1] \o piece[i]
  <2>1. i \in 0..n /\ i # 0
      OBVIOUS
  <2> QED
      BY <2>1, <1>4
<1>7. h[0] = <<>>
  <2>1. 0 \in 0..n
      OBVIOUS
  <2> QED
      BY <2>1, <1>4
<1>8. IsBackward(h, n, piece)
    BY <1>5, <1>6, <1>7 DEF IsBackward
<1> QED
    BY <1>8

(***************************************************************************)
(* The places of two sequences one after the other.                        *)
(***************************************************************************)
Joins(c, a, b) ==
    /\ Len(c) = Len(a) + Len(b)
    /\ \A k \in 1..Len(a) : c[k] = a[k]
    /\ \A k \in 1..Len(b) : c[Len(a) + k] = b[k]
    /\ \A k \in 1..Len(c) : k \in 1..Len(a) \/ \E m \in 1..Len(b) : k = Len(a) + m

LEMMA ConcatJoins ==
    ASSUME NEW S, NEW a \in Seq(S), NEW b \in Seq(S)
    PROVE  a \o b \in Seq(S) /\ Joins(a \o b, a, b)
<1> DEFINE c == a \o b
<1>1. /\ c \in Seq(S) /\ Len(c) = Len(a) + Len(b)
      /\ \A i \in 1..(Len(a) + Len(b)) :
            c[i] = IF i <= Len(a) THEN a[i] ELSE b[i - Len(a)]
    BY ConcatProperties
<1> HIDE DEF c
<1>2. Len(a) \in Nat /\ Len(b) \in Nat
    OBVIOUS
<1>3. ASSUME NEW k \in 1..Len(b) PROVE c[Len(a) + k] = b[k]
  <2>1. Len(a) + k \in 1..(Len(a) + Len(b)) /\ ~(Len(a) + k <= Len(a)) /\ (Len(a) + k) - Len(a) = k
      BY <1>2
  <2> QED
      BY <1>1, <2>1
<1>4. ASSUME NEW k \in 1..Len(a) PROVE c[k] = a[k]
    BY <1>1, <1>2
<1>5. ASSUME NEW k \in 1..Len(c)
      PROVE  k \in 1..Len(a) \/ \E m \in 1..Len(b) : k = Len(a) + m
  <2>1. k \in 1..Len(a) \/ (k - Len(a) \in 1..Len(b) /\ k = Len(a) + (k - Len(a)))
      BY <1>1, <1>2
  <2> QED
      BY <2>1
<1> QED
    BY <1>1, <1>3, <1>4, <1>5 DEF c, Joins
=============================================================================
