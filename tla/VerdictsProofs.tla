--------------------------- MODULE VerdictsProofs ---------------------------
(***************************************************************************)
(* What Compiler and Verdicts promise, for every rule set, every inventory *)
(* and every packet.                                                       *)
(***************************************************************************)
EXTENDS Verdicts, TLAPS, WellFoundedInduction, FiniteSetTheorems, SequenceTheorems

----------------------------------------------------------------------------
(* Induction: a set of numbers that is not empty has a least one.           *)

LEMMA Least ==
  ASSUME NEW T, T \subseteq Nat, T # {}
  PROVE  \E x \in T : \A y \in T : x <= y
<1> DEFINE R == {ss \in Nat \X Nat : ss[1] < ss[2]}
<1>1. IsWellFoundedOn(R, Nat)
  BY NatLessThanWellFounded DEF OpToRel
<1>2. PICK x \in T : \A y \in T : ~ (<<y, x>> \in R)
  <2> HIDE DEF R
  <2> QED BY <1>1, WFMin
<1>3. \A y \in T : ~(y < x)
  BY <1>2
<1>4. QED BY <1>3

\* FlattenSeq's own recursion has a solution, and every solution is a
\* function to sequences.
Concatenates(f, n, s) == f = [i \in 1..n |-> IF i = 1 THEN s[i] ELSE f[i-1] \o s[i]]

LEMMA FlattenExists ==
  ASSUME NEW S, NEW n \in Nat, NEW s \in [1..n -> Seq(S)]
  PROVE  \E f : Concatenates(f, n, s)
<1> USE DEF Concatenates
<1> DEFINE Sol(k, f) == Concatenates(f, k, s)
           T == {k \in 0..n : ~ \E f : Sol(k, f)}
<1>0. n \in 0..n /\ T \subseteq Nat
  <2> HIDE DEF Sol
  <2> QED OBVIOUS
<1>1. SUFFICES ASSUME T # {} PROVE FALSE
  <2>1. CASE n \in T
    BY <2>1
  <2>2. CASE n \notin T
    <3> HIDE DEF Sol
    <3>1. \E f : Sol(n, f)
      BY <2>2, <1>0
    <3> QED BY <3>1 DEF Sol
  <2> QED BY <2>1, <2>2
<1>2. PICK k \in T : \A j \in T : k <= j
  <2> HIDE DEF T
  <2> QED BY <1>0, <1>1, Least
<1>3. k # 0
  <2> DEFINE e == [i \in 1..0 |-> s[i]]
  <2>1. Sol(0, e)
    OBVIOUS
  <2> HIDE DEF Sol, e
  <2> QED BY <2>1
<1>4. k \in 0..n /\ k - 1 \in 0..n /\ k - 1 \notin T
  <2>1. k \in 0..n
    <3> HIDE DEF Sol
    <3> QED OBVIOUS
  <2> HIDE DEF T
  <2> QED BY <1>2, <1>3, <2>1
<1>5. PICK f : Sol(k - 1, f)
  <2> HIDE DEF Sol
  <2> QED BY <1>4
<1> DEFINE g == [i \in 1..k |-> IF i < k THEN f[i]
                                ELSE IF k = 1 THEN s[1] ELSE f[k-1] \o s[k]]
<1>6. ASSUME NEW i \in 1..k PROVE g[i] = IF i = 1 THEN s[i] ELSE g[i-1] \o s[i]
  <2>1. CASE i < k
    <3>0. i \in 1..(k-1) /\ (i # 1 => i - 1 \in 1..(k-1))
      BY <1>4, <2>1
    <3> HIDE DEF T
    <3>1. f[i] = IF i = 1 THEN s[i] ELSE f[i-1] \o s[i]
      BY <1>5, <3>0, Zenon
    <3>2. g[i] = f[i] /\ (i # 1 => g[i-1] = f[i-1])
      BY <1>4, <2>1
    <3> QED BY <3>1, <3>2
  <2>2. CASE i = k
    BY <2>2
  <2> QED BY <2>1, <2>2
<1>7. g = [i \in 1..k |-> IF i = 1 THEN s[i] ELSE g[i-1] \o s[i]]
  BY <1>6, Zenon
<1>8. Sol(k, g)
  <2> HIDE DEF g
  <2> QED BY <1>7
<1> QED
  <2> HIDE DEF Sol, g
  <2> QED BY <1>8, <1>2

\* f[i] is the concatenation of the first i elements of s.
Partial(f, s, n, S) ==
  /\ f \in [1..n -> Seq(S)]
  /\ f[1] = s[1] /\ FlattenSeq(s) = f[n]
  /\ \A i \in 2..n : f[i] = f[i-1] \o s[i]

LEMMA Flatten ==
  ASSUME NEW S, NEW n \in Nat \ {0}, NEW s \in [1..n -> Seq(S)]
  PROVE  \E f : Partial(f, s, n, S)
<1> DEFINE Sol(f) == f = [i \in 1..n |-> IF i = 1 THEN s[i] ELSE f[i-1] \o s[i]]
           f == CHOOSE g : Sol(g)
<1>1. Len(s) = n
  OBVIOUS
<1>2. FlattenSeq(s) = f[n]
  BY <1>1, Zenon DEF FlattenSeq
<1>3. Sol(f)
  <2>1. \E g : Sol(g)
    <3>1. n \in Nat
      OBVIOUS
    <3>2. \E g : Concatenates(g, n, s)
      BY <3>1, FlattenExists, Zenon
    <3> QED BY <3>2, Zenon DEF Concatenates
  <2> HIDE DEF Sol
  <2> QED BY <2>1, Zenon
<1> HIDE DEF f
<1>4. f = [i \in 1..n |-> f[i]]
  <2> DEFINE e(i) == IF i = 1 THEN s[i] ELSE f[i-1] \o s[i]
  <2>1. f = [i \in 1..n |-> e(i)]
    BY <1>3
  <2> HIDE DEF e
  <2> QED BY <2>1
<1>5. \A i \in 1..n : f[i] = IF i = 1 THEN s[i] ELSE f[i-1] \o s[i]
  <2> DEFINE e(i) == IF i = 1 THEN s[i] ELSE f[i-1] \o s[i]
  <2>1. f = [i \in 1..n |-> e(i)]
    BY <1>3
  <2>2. \A i \in 1..n : f[i] = e(i)
    <3> HIDE DEF e
    <3> QED BY <2>1
  <2> QED BY <2>2
<1> HIDE DEF Sol
<1>6. \A i \in 1..n : f[i] \in Seq(S)
  <2> DEFINE T == {i \in 1..n : f[i] \notin Seq(S)}
  <2> SUFFICES ASSUME T # {} PROVE FALSE
    BY DEF T
  <2>1. PICK i \in T : \A j \in T : i <= j
    <3>1. T \subseteq Nat
      OBVIOUS
    <3> HIDE DEF T
    <3> QED BY <3>1, Least
  <2>2. i \in 1..n /\ f[i] \notin Seq(S)
    OBVIOUS
  <2>3. i # 1
    BY <1>5, <2>2
  <2>4. f[i-1] \in Seq(S)
    <3>1. i - 1 \notin T
      <4> HIDE DEF T
      <4> QED BY <2>1, <2>2
    <3> QED BY <3>1, <2>2, <2>3
  <2>5. f[i] = f[i-1] \o s[i] /\ s[i] \in Seq(S)
    BY <2>2, <2>3, <1>5
  <2> QED BY <2>2, <2>4, <2>5
<1>7. f \in [1..n -> Seq(S)]
  <2>1. [i \in 1..n |-> f[i]] \in [1..n -> Seq(S)]
    BY <1>6
  <2> QED BY <1>4, <2>1, Zenon
<1>8. f[1] = s[1]
  BY <1>5
<1>9. ASSUME NEW i \in 2..n PROVE f[i] = f[i-1] \o s[i]
  <2>1. i \in 1..n /\ i # 1
    OBVIOUS
  <2> QED BY <1>5, <2>1, Zenon
<1> QED BY <1>2, <1>7, <1>8, <1>9 DEF Partial

LEMMA FlattenEmpty == FlattenSeq(<<>>) = <<>>
  BY DEF FlattenSeq

\* A concatenation of sequences over S is one.
LEMMA FlattenType ==
  ASSUME NEW S, NEW s \in Seq(Seq(S))
  PROVE  FlattenSeq(s) \in Seq(S)
<1>1. CASE s = <<>>
  <2>1. FlattenSeq(s) = <<>>
    BY <1>1, FlattenEmpty, Zenon
  <2>2. <<>> \in Seq(S)
    OBVIOUS
  <2> QED BY <2>1, <2>2, Zenon
<1>2. CASE s # <<>>
  <2> DEFINE n == Len(s)
  <2>1. n \in Nat \ {0} /\ s \in [1..n -> Seq(S)]
    <3>1. Len(s) \in Nat /\ s \in [1..Len(s) -> Seq(S)]
      OBVIOUS
    <3> QED BY <1>2, <3>1
  <2> HIDE DEF n
  <2>2. PICK f : Partial(f, s, n, S)
    BY <2>1, Flatten
  <2> QED BY <2>1, <2>2 DEF Partial
<1> QED BY <1>1, <1>2

\* The last part may be concatenated by itself.
LEMMA FlattenSnoc ==
  ASSUME NEW S, NEW n \in Nat, NEW s \in [1..(n+1) -> Seq(S)]
  PROVE  FlattenSeq(s) = FlattenSeq([i \in 1..n |-> s[i]]) \o s[n+1]
<1> DEFINE t == [i \in 1..n |-> s[i]]
<1>0. t \in [1..n -> Seq(S)] /\ n + 1 \in Nat \ {0} /\ \A i \in 1..n : t[i] = s[i]
  OBVIOUS
<1> HIDE DEF t
<1>1. PICK f : Partial(f, s, n + 1, S)
  BY <1>0, Flatten
<1>2. CASE n = 0
  <2>1. FlattenSeq(s) = s[1] /\ s[1] \in Seq(S)
    BY <1>1, <1>2 DEF Partial
  <2>2. t = <<>>
    BY <1>2, <1>0
  <2>3. FlattenSeq(t) = <<>>
    BY <2>2, FlattenEmpty, Zenon
  <2>4. <<>> \o s[1] = s[1]
    BY <2>1
  <2> QED BY <1>2, <2>1, <2>3, <2>4 DEF t
<1>3. CASE n # 0
  <2>0. n \in Nat \ {0}
    BY <1>3
  <2>1. PICK g : Partial(g, t, n, S)
    BY <1>0, <2>0, Flatten
  <2> DEFINE T == {i \in 1..n : f[i] # g[i]}
  <2>2. T = {}
    <3> SUFFICES ASSUME T # {} PROVE FALSE
      OBVIOUS
    <3>1. PICK i \in T : \A j \in T : i <= j
      <4>1. T \subseteq Nat
        OBVIOUS
      <4> HIDE DEF T
      <4> QED BY <4>1, Least
    <3>2. i \in 1..n /\ f[i] # g[i]
      OBVIOUS
    <3>3. i # 1
      BY <1>0, <1>1, <2>1, <3>2 DEF Partial
    <3>4. i - 1 \in 1..n /\ i \in 2..n /\ i \in 2..(n+1) /\ ~(i <= i - 1)
      BY <3>2, <3>3
    <3>5. f[i-1] = g[i-1]
      <4>1. i - 1 \notin T
        <5> HIDE DEF T
        <5> QED BY <3>1, <3>4
      <4> QED BY <3>4, <4>1
    <3>6. f[i] = f[i-1] \o s[i] /\ g[i] = g[i-1] \o t[i] /\ t[i] = s[i]
      BY <1>0, <1>1, <2>1, <3>2, <3>4 DEF Partial
    <3> QED BY <3>2, <3>5, <3>6
  <2>3. f[n] = g[n]
    <3>1. n \in 1..n
      BY <2>0
    <3> QED BY <2>2, <3>1
  <2>4. n + 1 \in 2..(n+1) /\ (n + 1) - 1 = n
    BY <2>0
  <2>5. f[n+1] = f[n] \o s[n+1]
    BY <1>1, <2>4 DEF Partial
  <2> QED BY <1>1, <2>1, <2>3, <2>5 DEF Partial, t
<1> QED BY <1>2, <1>3

\* Concatenating one-element sequences gives their elements.
LEMMA FlattenSingles ==
  ASSUME NEW S, NEW n \in Nat, NEW s \in [1..n -> S]
  PROVE  FlattenSeq([i \in 1..n |-> <<s[i]>>]) = s
<1> DEFINE One(k) == [i \in 1..k |-> <<s[i]>>]
           Part(k) == [i \in 1..k |-> s[i]]
           T == {k \in 0..n : FlattenSeq(One(k)) # Part(k)}
<1>1. T = {}
  <2> SUFFICES ASSUME T # {} PROVE FALSE
    OBVIOUS
  <2>1. PICK k \in T : \A j \in T : k <= j
    <3>1. T \subseteq Nat
      <4> HIDE DEF One, Part
      <4> QED OBVIOUS
    <3> HIDE DEF T
    <3> QED BY <3>1, Least
  <2>2. k \in 0..n /\ FlattenSeq(One(k)) # Part(k)
    <3> HIDE DEF One, Part
    <3> QED OBVIOUS
  <2>3. k # 0
    <3>1. One(0) = <<>> /\ Part(0) = <<>>
      OBVIOUS
    <3>2. FlattenSeq(One(0)) = Part(0)
      BY <3>1, FlattenEmpty, Zenon
    <3> QED BY <2>2, <3>2
  <2> DEFINE j == k - 1
  <2>4. j \in Nat /\ k = j + 1 /\ j + 1 \in 1..n /\ 1..(j+1) \subseteq 1..n
    BY <2>2, <2>3
  <2> HIDE DEF j
  <2>5. FlattenSeq(One(j)) = Part(j)
    <3>1. j \in 0..n /\ j \notin T
      <4>1. j \in 0..n /\ ~(k <= j)
        BY <2>2, <2>4
      <4> HIDE DEF T
      <4> QED BY <2>1, <4>1
    <3> HIDE DEF One, Part
    <3> QED BY <3>1
  <2>6. One(j+1) \in [1..(j+1) -> Seq(S)]
    BY <2>4
  <2>7. FlattenSeq(One(j+1)) = FlattenSeq([i \in 1..j |-> One(j+1)[i]]) \o One(j+1)[j+1]
    <3> DEFINE o == One(j+1)
    <3>1. o \in [1..(j+1) -> Seq(S)]
      BY <2>6
    <3> HIDE DEF o
    <3>2. FlattenSeq(o) = FlattenSeq([i \in 1..j |-> o[i]]) \o o[j+1]
      BY <2>4, <3>1, FlattenSnoc
    <3> QED BY <3>2 DEF o
  <2>8. [i \in 1..j |-> One(j+1)[i]] = One(j) /\ One(j+1)[j+1] = <<s[j+1]>>
    BY <2>4
  <2>9. Part(j) \o <<s[j+1]>> = Part(j+1)
    <3>1. Part(j) \in Seq(S) /\ Len(Part(j)) = j /\ s[j+1] \in S
      BY <2>4
    <3>2. /\ Part(j) \o <<s[j+1]>> \in Seq(S) /\ Len(Part(j) \o <<s[j+1]>>) = j + 1
          /\ Part(j+1) \in Seq(S) /\ Len(Part(j+1)) = j + 1
      <4>1. Part(j+1) \in Seq(S) /\ Len(Part(j+1)) = j + 1
        BY <2>4
      <4> HIDE DEF Part
      <4> QED BY <2>4, <3>1, <4>1
    <3>3. ASSUME NEW i \in 1..(j+1) PROVE (Part(j) \o <<s[j+1]>>)[i] = Part(j+1)[i]
      BY <2>4, <3>1, <3>3
    <3> HIDE DEF Part
    <3> QED BY <2>4, <3>2, <3>3, SeqEqual
  <2> HIDE DEF One, Part
  <2> QED BY <2>2, <2>4, <2>5, <2>7, <2>8, <2>9
<1>2. n \notin T
  BY <1>1
<1>3. FlattenSeq(One(n)) = Part(n)
  <2> HIDE DEF One, Part
  <2> QED BY <1>2
<1>4. Part(n) = s
  OBVIOUS
<1> QED BY <1>3, <1>4

\* The lines of all elements of t, and those elements of s that are in M.
Map(t, lines) == FlattenSeq([j \in DOMAIN t |-> lines[t[j]]])
Picked(s, M) == FlattenSeq([i \in DOMAIN s |-> IF s[i] \in M THEN <<s[i]>> ELSE <<>>])
MapPicked(s, M, lines) == FlattenSeq([i \in DOMAIN s |-> IF s[i] \in M THEN lines[s[i]] ELSE <<>>])

LEMMA MapSnoc ==
  ASSUME NEW S, NEW X, NEW lines \in [S -> Seq(X)], NEW t \in Seq(S), NEW x \in S
  PROVE  Map(t \o <<x>>, lines) = Map(t, lines) \o lines[x]
<1> DEFINE n == Len(t)
           u == t \o <<x>>
           g == [j \in 1..(n+1) |-> lines[u[j]]]
<1>1. n \in Nat /\ DOMAIN t = 1..n /\ DOMAIN u = 1..(n+1) /\ u[n+1] = x /\ \A j \in 1..n : u[j] = t[j]
  OBVIOUS
<1>2. u \in Seq(S)
  OBVIOUS
<1> HIDE DEF n, u
<1>3. g \in [1..(n+1) -> Seq(X)]
  BY <1>1, <1>2
<1>4. [j \in 1..n |-> g[j]] = [j \in DOMAIN t |-> lines[t[j]]] /\ g[n+1] = lines[x]
  BY <1>1
<1>5. [j \in DOMAIN u |-> lines[u[j]]] = g
  BY <1>1
<1> HIDE DEF g
<1>6. FlattenSeq(g) = FlattenSeq([j \in 1..n |-> g[j]]) \o g[n+1]
  BY <1>1, <1>3, FlattenSnoc
<1>7. Map(u, lines) = Map(t, lines) \o lines[x]
  BY <1>4, <1>5, <1>6, Zenon DEF Map
<1> QED BY <1>7 DEF u

LEMMA MapType ==
  ASSUME NEW S, NEW X, NEW lines \in [S -> Seq(X)], NEW t \in Seq(S)
  PROVE  Map(t, lines) \in Seq(X)
<1> DEFINE n == Len(t)
<1>1. n \in Nat /\ DOMAIN t = 1..n /\ \A j \in 1..n : t[j] \in S
  OBVIOUS
<1> HIDE DEF n
<1>2. [j \in 1..n |-> lines[t[j]]] \in Seq(Seq(X))
  BY <1>1
<1> QED BY <1>1, <1>2, FlattenType DEF Map

LEMMA MapEmpty ==
  ASSUME NEW lines PROVE Map(<<>>, lines) = <<>>
<1>1. [j \in DOMAIN <<>> |-> lines[<<>>[j]]] = <<>>
  OBVIOUS
<1>2. Map(<<>>, lines) = FlattenSeq(<<>>)
  BY <1>1, Zenon DEF Map
<1> QED BY <1>2, FlattenEmpty, Zenon

\* Emitting the lines of the elements picked is picking what is emitted.
LEMMA PickedFacts ==
  ASSUME NEW S, NEW X, NEW lines \in [S -> Seq(X)], NEW s \in Seq(S), NEW M
  PROVE  /\ Picked(s, M) \in Seq(S)
         /\ Map(Picked(s, M), lines) = MapPicked(s, M, lines)
         /\ Picked(s, M) = <<>> <=> \A i \in DOMAIN s : s[i] \notin M
<1> DEFINE n == Len(s)
           Pick(k) == [i \in 1..k |-> IF s[i] \in M THEN <<s[i]>> ELSE <<>>]
           Out(k) == [i \in 1..k |-> IF s[i] \in M THEN lines[s[i]] ELSE <<>>]
           P(k) == /\ FlattenSeq(Pick(k)) \in Seq(S)
                   /\ Map(FlattenSeq(Pick(k)), lines) = FlattenSeq(Out(k))
                   /\ FlattenSeq(Pick(k)) = <<>> <=> \A i \in 1..k : s[i] \notin M
           T == {k \in 0..n : ~P(k)}
<1>1. n \in Nat /\ s \in [1..n -> S] /\ DOMAIN s = 1..n
  OBVIOUS
<1> HIDE DEF n
<1>2. P(0)
  <2>1. Pick(0) = <<>> /\ Out(0) = <<>>
    OBVIOUS
  <2>2. FlattenSeq(Pick(0)) = <<>> /\ FlattenSeq(Out(0)) = <<>>
    BY <2>1, FlattenEmpty, Zenon
  <2>3. Map(FlattenSeq(Pick(0)), lines) = <<>>
    BY <2>2, MapEmpty, Zenon
  <2>4. <<>> \in Seq(S) /\ \A i \in 1..0 : s[i] \notin M
    OBVIOUS
  <2> HIDE DEF Pick, Out
  <2> QED BY <2>2, <2>3, <2>4, Zenon
<1>3. ASSUME NEW k \in 0..n, k + 1 \in 1..n, P(k) PROVE P(k + 1)
  <2>1. Pick(k+1) \in [1..(k+1) -> Seq(S)] /\ Out(k+1) \in [1..(k+1) -> Seq(X)]
    BY <1>1, <1>3
  <2>2. /\ [i \in 1..k |-> Pick(k+1)[i]] = Pick(k) /\ [i \in 1..k |-> Out(k+1)[i]] = Out(k)
        /\ Pick(k+1)[k+1] = IF s[k+1] \in M THEN <<s[k+1]>> ELSE <<>>
        /\ Out(k+1)[k+1] = IF s[k+1] \in M THEN lines[s[k+1]] ELSE <<>>
    BY <1>1, <1>3
  <2> DEFINE t == FlattenSeq(Pick(k))
             o == FlattenSeq(Out(k))
  <2>3. /\ FlattenSeq(Pick(k+1)) = t \o Pick(k+1)[k+1]
        /\ FlattenSeq(Out(k+1)) = o \o Out(k+1)[k+1]
    <3>1. k \in Nat
      BY <1>1
    <3>2. FlattenSeq(Pick(k+1)) = FlattenSeq([i \in 1..k |-> Pick(k+1)[i]]) \o Pick(k+1)[k+1]
      <4> HIDE DEF Pick
      <4> QED BY <2>1, <3>1, FlattenSnoc
    <3>3. FlattenSeq(Out(k+1)) = FlattenSeq([i \in 1..k |-> Out(k+1)[i]]) \o Out(k+1)[k+1]
      <4> HIDE DEF Out
      <4> QED BY <2>1, <3>1, FlattenSnoc
    <3> HIDE DEF Pick, Out
    <3> QED BY <2>2, <3>2, <3>3
  <2>4. t \in Seq(S) /\ Map(t, lines) = o /\ (t = <<>> <=> \A i \in 1..k : s[i] \notin M)
    <3> HIDE DEF Pick, Out
    <3> QED BY <1>3
  <2>5. o \in Seq(X)
    <3> HIDE DEF t, o
    <3> QED BY <2>4, MapType
  <2>6. s[k+1] \in S
    BY <1>1, <1>3
  <2>7. CASE s[k+1] \in M
    <3>1. FlattenSeq(Pick(k+1)) = t \o <<s[k+1]>> /\ FlattenSeq(Out(k+1)) = o \o lines[s[k+1]]
      <4> HIDE DEF Pick, Out
      <4> QED BY <2>2, <2>3, <2>7
    <3>2. Map(t \o <<s[k+1]>>, lines) = o \o lines[s[k+1]]
      <4> HIDE DEF t, o
      <4> QED BY <2>4, <2>6, MapSnoc
    <3>3. t \o <<s[k+1]>> \in Seq(S) /\ t \o <<s[k+1]>> # <<>>
      <4> HIDE DEF t, o
      <4> QED BY <2>4, <2>6
    <3>4. ~ \A i \in 1..(k+1) : s[i] \notin M
      BY <1>3, <2>7
    <3> HIDE DEF Pick, Out, t, o
    <3> QED BY <3>1, <3>2, <3>3, <3>4
  <2>8. CASE s[k+1] \notin M
    <3>1. FlattenSeq(Pick(k+1)) = t \o <<>> /\ FlattenSeq(Out(k+1)) = o \o <<>>
      <4> HIDE DEF Pick, Out
      <4> QED BY <2>2, <2>3, <2>8
    <3>2. t \o <<>> = t /\ o \o <<>> = o
      <4> HIDE DEF t, o
      <4> QED BY <2>4, <2>5
    <3>3. (\A i \in 1..(k+1) : s[i] \notin M) <=> \A i \in 1..k : s[i] \notin M
      BY <1>3, <2>8
    <3> HIDE DEF Pick, Out, t, o
    <3> QED BY <2>4, <3>1, <3>2, <3>3
  <2> QED BY <2>7, <2>8
<1>4. P(n)
  <2> HIDE DEF P
  <2> SUFFICES ASSUME T # {} PROVE FALSE
    BY <1>1
  <2>1. PICK k \in T : \A j \in T : k <= j
    <3>1. T \subseteq Nat
      OBVIOUS
    <3> HIDE DEF T
    <3> QED BY <3>1, Least
  <2>2. k \in 0..n /\ ~P(k) /\ k # 0
    BY <1>2
  <2>3. k - 1 \in 0..n /\ (k - 1) + 1 = k /\ (k - 1) + 1 \in 1..n /\ ~(k <= k - 1)
    BY <1>1, <2>2
  <2>4. P(k - 1)
    <3>1. k - 1 \notin T
      <4> HIDE DEF T
      <4> QED BY <2>1, <2>3
    <3> QED BY <2>3, <3>1
  <2>5. P((k - 1) + 1)
    BY <1>3, <2>3, <2>4
  <2> QED BY <2>2, <2>3, <2>5
<1>5. Picked(s, M) = FlattenSeq(Pick(n)) /\ MapPicked(s, M, lines) = FlattenSeq(Out(n))
  BY <1>1, Zenon DEF Picked, MapPicked
<1> HIDE DEF Pick, Out
<1> QED BY <1>1, <1>4, <1>5

----------------------------------------------------------------------------
(* What a sequence of lines does to a packet: nothing, or it ends the       *)
(* traversal at a target of V.                                              *)

Stops(line, p) == line.to \notin {"SET", "LOG"} /\ Matches(line, p)
Silent(L, p) == \A i \in DOMAIN L : ~Stops(L[i], p)
Says(L, p, V) ==
  \E i \in DOMAIN L : L[i].to \in V /\ Stops(L[i], p) /\ \A j \in 1..(i-1) : ~Stops(L[j], p)

Through == {"ACCEPT", "RETURN"}
Dropped == {"DROP"}

LEMMA SilentConcat ==
  ASSUME NEW S, NEW A \in Seq(S), NEW B \in Seq(S), NEW p, Silent(A, p), Silent(B, p)
  PROVE  Silent(A \o B, p)
<1> SUFFICES ASSUME NEW i \in DOMAIN (A \o B), Stops((A \o B)[i], p) PROVE FALSE
  BY DEF Silent
<1>1. i \in 1..(Len(A) + Len(B))
  OBVIOUS
<1>2. (A \o B)[i] = IF i <= Len(A) THEN A[i] ELSE B[i - Len(A)]
  BY <1>1
<1>3. CASE i <= Len(A)
  BY <1>1, <1>2, <1>3 DEF Silent
<1>4. CASE i > Len(A)
  BY <1>1, <1>2, <1>4 DEF Silent
<1> QED BY <1>1, <1>3, <1>4

LEMMA SaysFirst ==
  ASSUME NEW S, NEW A \in Seq(S), NEW B \in Seq(S), NEW p, NEW V, Says(A, p, V)
  PROVE  Says(A \o B, p, V)
<1>1. PICK i \in 1..Len(A) : A[i].to \in V /\ Stops(A[i], p) /\ \A j \in 1..(i-1) : ~Stops(A[j], p)
  BY DEF Says
<1>2. i \in DOMAIN (A \o B) /\ \A j \in 1..i : (A \o B)[j] = A[j]
  OBVIOUS
<1>3. i \in 1..i /\ \A j \in 1..(i-1) : j \in 1..i
  OBVIOUS
<1> QED BY <1>1, <1>2, <1>3 DEF Says

LEMMA SaysSecond ==
  ASSUME NEW S, NEW A \in Seq(S), NEW B \in Seq(S), NEW p, NEW V, Silent(A, p), Says(B, p, V)
  PROVE  Says(A \o B, p, V)
<1>1. PICK k \in 1..Len(B) : B[k].to \in V /\ Stops(B[k], p) /\ \A j \in 1..(k-1) : ~Stops(B[j], p)
  BY DEF Says
<1> DEFINE i == Len(A) + k
<1>2. i \in DOMAIN (A \o B) /\ (A \o B)[i] = B[k]
  OBVIOUS
<1>3. ASSUME NEW j \in 1..(i-1) PROVE ~Stops((A \o B)[j], p)
  <2>1. CASE j <= Len(A)
    BY <2>1 DEF Silent
  <2>2. CASE j > Len(A)
    <3>1. (A \o B)[j] = B[j - Len(A)] /\ j - Len(A) \in 1..(k-1)
      BY <2>2
    <3> QED BY <3>1, <1>1
  <2> QED BY <2>1, <2>2
<1> QED BY <1>1, <1>2, <1>3 DEF Says

LEMMA SilentFlatten ==
  ASSUME NEW S, NEW s \in Seq(Seq(S)), NEW p, \A i \in DOMAIN s : Silent(s[i], p)
  PROVE  Silent(FlattenSeq(s), p)
<1>1. CASE s = <<>>
  <2>1. FlattenSeq(s) = <<>>
    BY <1>1, FlattenEmpty, Zenon
  <2>2. Silent(<<>>, p)
    BY DEF Silent
  <2> QED BY <2>1, <2>2, Zenon
<1>2. CASE s # <<>>
  <2> DEFINE n == Len(s)
  <2>1. n \in Nat \ {0} /\ s \in [1..n -> Seq(S)]
    <3>1. Len(s) \in Nat /\ s \in [1..Len(s) -> Seq(S)]
      OBVIOUS
    <3> QED BY <1>2, <3>1
  <2> HIDE DEF n
  <2>2. PICK f : Partial(f, s, n, S)
    BY <2>1, Flatten
  <2> DEFINE T == {i \in 1..n : ~Silent(f[i], p)}
  <2>3. T = {}
    <3> SUFFICES ASSUME T # {} PROVE FALSE
      OBVIOUS
    <3>1. PICK i \in T : \A j \in T : i <= j
      <4>1. T \subseteq Nat
        OBVIOUS
      <4> HIDE DEF T
      <4> QED BY <4>1, Least
    <3>2. i \in 1..n /\ i # 1 /\ Silent(s[i], p)
      BY <2>1, <2>2 DEF Partial
    <3>3. i - 1 \in 1..n /\ i - 1 \notin T
      <4>1. i - 1 \in 1..n /\ ~(i <= i - 1)
        BY <2>1, <3>2
      <4> HIDE DEF T
      <4> QED BY <3>1, <4>1
    <3>4. f[i-1] \in Seq(S) /\ s[i] \in Seq(S) /\ f[i] = f[i-1] \o s[i]
      <4>1. i \in 2..n
        BY <3>2
      <4> QED BY <2>1, <2>2, <3>2, <3>3, <4>1 DEF Partial
    <3>5. Silent(f[i-1], p)
      BY <3>3
    <3>6. Silent(f[i-1] \o s[i], p)
      BY <3>2, <3>4, <3>5, SilentConcat
    <3> QED BY <3>4, <3>6
  <2>4. Silent(f[n], p)
    BY <2>1, <2>3
  <2> QED BY <2>2, <2>4 DEF Partial
<1> QED BY <1>1, <1>2

LEMMA SaysFlatten ==
  ASSUME NEW S, NEW s \in Seq(Seq(S)), NEW p, NEW V, NEW k \in DOMAIN s,
         \A j \in 1..(k-1) : Silent(s[j], p), Says(s[k], p, V)
  PROVE  Says(FlattenSeq(s), p, V)
<1> DEFINE n == Len(s)
<1>1. n \in Nat \ {0} /\ s \in [1..n -> Seq(S)] /\ k \in 1..n
  <2>1. Len(s) \in Nat /\ s \in [1..Len(s) -> Seq(S)] /\ DOMAIN s = 1..Len(s)
    OBVIOUS
  <2> QED BY <2>1
<1> HIDE DEF n
<1>2. PICK f : Partial(f, s, n, S)
  BY <1>1, Flatten
<1>3. \A i \in 2..n : f[i-1] \in Seq(S) /\ s[i] \in Seq(S) /\ f[i] = f[i-1] \o s[i]
  <2> TAKE i \in 2..n
  <2>1. i \in 1..n /\ i - 1 \in 1..n
    BY <1>1
  <2>2. f \in [1..n -> Seq(S)]
    BY <1>2 DEF Partial
  <2> QED BY <1>1, <1>2, <2>1, <2>2 DEF Partial
<1> DEFINE T == {i \in 1..n : (i < k /\ ~Silent(f[i], p)) \/ (i >= k /\ ~Says(f[i], p, V))}
<1>4. T = {}
  <2> SUFFICES ASSUME T # {} PROVE FALSE
    OBVIOUS
  <2>1. PICK i \in T : \A j \in T : i <= j
    <3>1. T \subseteq Nat
      OBVIOUS
    <3> HIDE DEF T
    <3> QED BY <3>1, Least
  <2>2. i \in 1..n
    OBVIOUS
  <2>3. CASE i = 1
    <3>1. f[1] = s[1]
      BY <1>2 DEF Partial
    <3>2. CASE k = 1
      BY <2>3, <3>1, <3>2
    <3>3. CASE k # 1
      BY <1>1, <2>3, <3>1, <3>3
    <3> QED BY <3>2, <3>3
  <2>4. CASE i # 1
    <3>1. i \in 2..n /\ i - 1 \in 1..n /\ i - 1 \notin T
      <4>1. i \in 2..n /\ i - 1 \in 1..n /\ ~(i <= i - 1)
        BY <1>1, <2>2, <2>4
      <4> HIDE DEF T
      <4> QED BY <2>1, <4>1
    <3>2. CASE i < k
      <4>1. Silent(f[i-1], p) /\ Silent(s[i], p)
        BY <1>1, <3>1, <3>2
      <4>2. Silent(f[i-1] \o s[i], p)
        BY <1>3, <3>1, <4>1, SilentConcat
      <4>3. f[i] = f[i-1] \o s[i]
        BY <1>3, <3>1
      <4>4. Silent(f[i], p)
        BY <4>2, <4>3, Zenon
      <4> QED BY <1>1, <2>2, <3>2, <4>4
    <3>3. CASE i = k
      <4>1. Silent(f[i-1], p) /\ Says(s[i], p, V)
        BY <1>1, <3>1, <3>3
      <4>2. Says(f[i-1] \o s[i], p, V)
        BY <1>3, <3>1, <4>1, SaysSecond
      <4>3. f[i] = f[i-1] \o s[i]
        BY <1>3, <3>1
      <4>4. Says(f[i], p, V)
        BY <4>2, <4>3, Zenon
      <4> QED BY <1>1, <2>2, <3>3, <4>4
    <3>4. CASE i > k
      <4>1. Says(f[i-1], p, V)
        BY <1>1, <3>1, <3>4
      <4>2. Says(f[i-1] \o s[i], p, V)
        BY <1>3, <3>1, <4>1, SaysFirst
      <4>3. f[i] = f[i-1] \o s[i]
        BY <1>3, <3>1
      <4>4. Says(f[i], p, V)
        BY <4>2, <4>3, Zenon
      <4> QED BY <1>1, <2>2, <3>4, <4>4
    <3> QED BY <1>1, <2>2, <3>2, <3>3, <3>4
  <2> QED BY <2>3, <2>4
<1>5. Says(f[n], p, V)
  <2>1. n \in 1..n /\ n \notin T /\ ~(n < k)
    <3> HIDE DEF T
    <3> QED BY <1>1, <1>4
  <2>2. n = k \/ n > k
    BY <1>1, <2>1
  <2> QED BY <2>1, <2>2
<1> QED BY <1>2, <1>5 DEF Partial

\* When every part is silent or says V, and one speaks, the whole says V.
LEMMA SaysEach ==
  ASSUME NEW S, NEW s \in Seq(Seq(S)), NEW p, NEW V,
         \A i \in DOMAIN s : Silent(s[i], p) \/ Says(s[i], p, V),
         \E i \in DOMAIN s : Says(s[i], p, V)
  PROVE  Says(FlattenSeq(s), p, V)
<1> DEFINE T == {i \in DOMAIN s : Says(s[i], p, V)}
<1>1. T \subseteq Nat /\ T # {}
  OBVIOUS
<1>2. PICK k \in T : \A j \in T : k <= j
  <2> HIDE DEF T
  <2> QED BY <1>1, Least
<1>3. k \in 1..Len(s) /\ Says(s[k], p, V)
  OBVIOUS
<1>4. ASSUME NEW j \in 1..(k-1) PROVE Silent(s[j], p)
  <2>1. j \in DOMAIN s /\ j < k
    BY <1>3
  <2>2. j \notin T
    <3> HIDE DEF T
    <3> QED BY <1>2, <2>1, <1>1, <1>3
  <2> QED BY <2>1, <2>2
<1> QED BY <1>3, <1>4, SaysFlatten

\* The verdict that Passes computes is what the lines say.
LEMMA PassesSays ==
  ASSUME NEW L, NEW n \in Nat, DOMAIN L = 1..n, NEW p, NEW V, Says(L, p, V)
  PROVE  /\ V = Through => Passes(L, p) = TRUE
         /\ V = Dropped => Passes(L, p) = FALSE
<1> DEFINE First(i) == Stops(L[i], p) /\ \A j \in 1..(i-1) : ~Stops(L[j], p)
           m == CHOOSE i \in DOMAIN L : First(i)
<1>1. PICK i \in 1..n : L[i].to \in V /\ First(i)
  BY DEF Says
<1>2. m \in 1..n /\ First(m)
  <2> HIDE DEF First
  <2> QED BY <1>1
<1>3. m = i
  <2>1. ~(m < i) /\ ~(i < m)
    BY <1>1, <1>2
  <2> QED BY <1>1, <1>2, <2>1
<1>4. Passes(L, p) = (L[m].to # "DROP")
  BY DEF Passes, Stops
<1> HIDE DEF m
<1> QED BY <1>1, <1>3, <1>4 DEF Through, Dropped

----------------------------------------------------------------------------
(* Ranked puts the elements of a finite set in order.                      *)

\* The elements of S before x in the order R, which is a set of pairs.
Below(x, S, R) == {y \in S : <<y, x>> \in R}

\* What Ranked does, CHOOSE: f[k] has k - 1 elements below it, if any has.
Ranks(f, S, R) ==
  /\ f = [k \in 1..Cardinality(S) |-> f[k]]
  /\ \A k \in 1..Cardinality(S) :
        (\E x \in S : Cardinality(Below(x, S, R)) = k - 1) =>
           (f[k] \in S /\ Cardinality(Below(f[k], S, R)) = k - 1)

\* The pairs are a strict total order on S.
Orders(R, S) ==
  /\ \A x \in S : <<x, x>> \notin R
  /\ \A x, y, z \in S : (<<x, y>> \in R /\ <<y, z>> \in R) => <<x, z>> \in R
  /\ \A x, y \in S : x # y => (<<x, y>> \in R \/ <<y, x>> \in R)

\* f lists the elements of S, each once, in the order R.
Lists(f, S, R) ==
  /\ f \in [1..Cardinality(S) -> S]
  /\ \A x \in S : \E k \in 1..Cardinality(S) : f[k] = x
  /\ \A k, l \in 1..Cardinality(S) : k < l => <<f[k], f[l]>> \in R

\* In a strict total order the numbers of smaller elements are 0, 1, 2, ...
LEMMA RankedLists ==
  ASSUME NEW S, IsFiniteSet(S), NEW R, Orders(R, S), NEW f, Ranks(f, S, R)
  PROVE  Cardinality(S) \in Nat /\ Lists(f, S, R)
<1> DEFINE n == Cardinality(S)
           below(x) == Below(x, S, R)
           rank == [x \in S |-> Cardinality(below(x)) + 1]
<1>1. n \in Nat
  BY FS_CardinalityType
<1>2. ASSUME NEW x \in S PROVE IsFiniteSet(below(x)) /\ Cardinality(below(x)) \in 0..(n-1)
  <2>1. below(x) \in SUBSET S /\ x \notin below(x)
    BY DEF Orders, Below
  <2> HIDE DEF below
  <2>2. IsFiniteSet(below(x)) /\ Cardinality(below(x)) <= n /\ Cardinality(below(x)) # n
    BY <2>1, FS_Subset
  <2>3. Cardinality(below(x)) \in Nat
    BY <2>2, FS_CardinalityType
  <2> QED BY <1>1, <2>2, <2>3
<1>3. ASSUME NEW x \in S, NEW y \in S, <<x, y>> \in R PROVE rank[x] < rank[y]
  <2>1. below(x) \in SUBSET below(y) /\ x \in below(y) /\ x \notin below(x)
    BY <1>3 DEF Orders, Below
  <2> HIDE DEF below
  <2>2. Cardinality(below(x)) <= Cardinality(below(y)) /\ Cardinality(below(x)) # Cardinality(below(y))
    BY <1>2, <2>1, FS_Subset
  <2> QED BY <1>2, <2>2
<1>4. rank \in [S -> 1..n]
  <2> HIDE DEF below, n
  <2> QED BY <1>1, <1>2
<1> HIDE DEF rank
<1>5. \A x, y \in S : rank[x] = rank[y] => x = y
  <2> SUFFICES ASSUME NEW x \in S, NEW y \in S, x # y PROVE rank[x] # rank[y]
    OBVIOUS
  <2>1. <<x, y>> \in R \/ <<y, x>> \in R
    BY DEF Orders
  <2>2. rank[x] \in Nat /\ rank[y] \in Nat
    BY <1>1, <1>4
  <2> QED BY <1>3, <2>1, <2>2
<1>6. \A k \in 1..n : \E x \in S : rank[x] = k
  <2>1. rank \in Injection(S, 1..n)
    BY <1>4, <1>5 DEF Injection, IsInjective
  <2>2. IsFiniteSet(1..n) /\ Cardinality(1..n) = n
    BY <1>1, FS_Interval
  <2>3. rank \in Surjection(S, 1..n)
    <3> HIDE DEF n
    <3>1. Cardinality(S) = Cardinality(1..n)
      BY <2>2 DEF n
    <3> QED BY <2>1, <2>2, <3>1, FS_Injection
  <2> QED BY <2>3 DEF Surjection
<1>7. ASSUME NEW k \in 1..n PROVE f[k] \in S /\ rank[f[k]] = k
  <2>1. PICK x \in S : rank[x] = k
    BY <1>6
  <2>2. \A y \in S : rank[y] = k <=> Cardinality(below(y)) = k - 1
    <3> TAKE y \in S
    <3>1. Cardinality(below(y)) \in 0..(n-1) /\ rank[y] = Cardinality(below(y)) + 1
      BY <1>2 DEF rank
    <3> HIDE DEF below
    <3> QED BY <1>1, <3>1
  <2>3. f[k] \in S /\ Cardinality(below(f[k])) = k - 1
    BY <2>1, <2>2 DEF Ranks
  <2> HIDE DEF below
  <2> QED BY <2>2, <2>3
<1>8. f \in [1..n -> S]
  <2>1. f = [k \in 1..n |-> f[k]]
    BY DEF Ranks
  <2>2. [k \in 1..n |-> f[k]] \in [1..n -> S]
    BY <1>7
  <2> QED BY <2>1, <2>2, Zenon
<1>9. ASSUME NEW x \in S PROVE \E k \in 1..n : f[k] = x
  <2>1. rank[x] \in 1..n
    BY <1>4
  <2>2. f[rank[x]] \in S /\ rank[f[rank[x]]] = rank[x]
    BY <1>7, <2>1
  <2>3. f[rank[x]] = x
    BY <1>5, <2>2
  <2> QED BY <2>1, <2>3
<1>10. ASSUME NEW k \in 1..n, NEW l \in 1..n, k < l PROVE <<f[k], f[l]>> \in R
  <2>1. f[k] \in S /\ f[l] \in S /\ rank[f[k]] = k /\ rank[f[l]] = l
    BY <1>7
  <2>2. f[k] # f[l]
    BY <2>1, <1>1, <1>10
  <2>3. ~ (<<f[l], f[k]>> \in R)
    <3> SUFFICES ASSUME <<f[l], f[k]>> \in R PROVE FALSE
      OBVIOUS
    <3>1. rank[f[l]] < rank[f[k]]
      BY <1>3, <2>1
    <3> QED BY <3>1, <2>1, <1>1, <1>10
  <2> QED BY <2>1, <2>2, <2>3 DEF Orders
<1>11. Lists(f, S, R)
  BY <1>8, <1>9, <1>10 DEF Lists
<1> QED BY <1>1, <1>11

----------------------------------------------------------------------------
(* Lines and clauses of a chain whose addresses are those of F.             *)

Values ==
  {"ESTABLISHED", "INVALID", "NEW", "tcp", "udp", "both", "icmp", "ipv6-icmp"}
  \cup Bridges \cup Tunnels \cup Int \cup (Weekdays \X Int)
Clauses(F) ==
  ({"src", "dst"} \X SUBSET F)
  \cup ({"ct", "iface", "proto", "dport", "orig", "at", "hits"} \X SUBSET Values)
Lines(F) ==
  [m : SUBSET Clauses(F), to : {"ACCEPT", "RETURN", "DROP", "SET", "LOG"},
   n : 0..MaxMultiport, key : Nat]
Arguments(F) == [m : SUBSET Clauses(F), n : 0..MaxMultiport]

In(m, p) == \A clause \in m : p[clause[1]] \in clause[2]

LEMMA InFacts ==
  /\ \A p : In({}, p)
  /\ \A p, a, b : In(a \cup b, p) <=> (In(a, p) /\ In(b, p))
  /\ \A p, f, v : In(Is(f, v), p) <=> p[f] \in v
BY DEF In, Is

LEMMA IsType ==
  ASSUME NEW F
  PROVE  /\ \A f \in {"ct", "iface", "proto", "dport", "orig", "at", "hits"} :
              \A v \in SUBSET Values : Is(f, v) \in SUBSET Clauses(F)
         /\ \A f \in {"src", "dst"} : \A v \in SUBSET F : Is(f, v) \in SUBSET Clauses(F)
         /\ Anything \in SUBSET Clauses(F)
         /\ \A a, b \in SUBSET Clauses(F) : a \cup b \in SUBSET Clauses(F)
BY DEF Is, Clauses, Anything

LEMMA StopsIn ==
  ASSUME NEW line, NEW p
  PROVE  Stops(line, p) <=> (line.to \notin {"SET", "LOG"} /\ In(line.m, p))
BY DEF Stops, Matches, In

\* L is silent about p, or says V when b holds.
Decides(L, p, b, V) == (b => Says(L, p, V)) /\ (~b => Silent(L, p))

\* Parts that never contradict each other: the whole speaks when one does.
LEMMA DecidesEach ==
  ASSUME NEW S, NEW n \in Nat, NEW s \in [1..n -> Seq(S)], NEW p, NEW V, NEW B,
         \A i \in 1..n : Decides(s[i], p, i \in B, V)
  PROVE  FlattenSeq(s) \in Seq(S) /\ Decides(FlattenSeq(s), p, \E i \in 1..n : i \in B, V)
<1>1. s \in Seq(Seq(S)) /\ DOMAIN s = 1..n
  OBVIOUS
<1>2. FlattenSeq(s) \in Seq(S)
  BY <1>1, FlattenType
<1>3. CASE \E i \in 1..n : i \in B
  <2>1. Says(FlattenSeq(s), p, V)
    BY <1>1, <1>3, SaysEach DEF Decides
  <2> QED BY <1>2, <1>3, <2>1 DEF Decides
<1>4. CASE ~ \E i \in 1..n : i \in B
  <2>1. Silent(FlattenSeq(s), p)
    BY <1>1, <1>4, SilentFlatten DEF Decides
  <2> QED BY <1>2, <1>4, <2>1 DEF Decides
<1> QED BY <1>3, <1>4

\* One line.
LEMMA SingleLine ==
  ASSUME NEW line, NEW p, NEW V
  PROVE  /\ (line.to \in {"SET", "LOG"} \/ ~In(line.m, p)) => Silent(<<line>>, p)
         /\ (line.to \notin {"SET", "LOG"} /\ line.to \in V /\ In(line.m, p)) => Says(<<line>>, p, V)
<1> DEFINE L == <<line>>
<1>1. DOMAIN L = {1} /\ L[1] = line /\ 1..(1-1) = {}
  OBVIOUS
<1> HIDE DEF L
<1>2. /\ (line.to \in {"SET", "LOG"} \/ ~In(line.m, p)) => Silent(L, p)
      /\ (line.to \notin {"SET", "LOG"} /\ line.to \in V /\ In(line.m, p)) => Says(L, p, V)
  BY <1>1, StopsIn DEF Silent, Says
<1> QED BY <1>2 DEF L

----------------------------------------------------------------------------
(* The lines of one rule.                                                   *)

\* Rules of a valid rule set, their ports possibly those of a container.
GoodRules ==
  {r \in RuleRecords :
     /\ r.action \in {"allow", "deny"} /\ ValidSource(r.source)
     /\ r.ports.type \in {"all", "list", "range"}
     /\ r.protocol \in {"tcp", "udp", "both"} /\ r.zone \in {"auto", "host", "docker"}
     /\ \A i \in DOMAIN r.schedule : r.schedule[i].days \subseteq Weekdays}

\* A packet's hits are counted up to MaxHits; "both" is no protocol.
Plausible(p) == p.hits \in 0..MaxHits /\ p.proto # "both"

RuleSays(r, p) == IF ByRule(r, p) THEN Through ELSE Dropped

LEMMA WrapEmitFollows ==
  ASSUME NEW F, NEW match \in SUBSET Clauses(F), NEW n \in 0..MaxMultiport, NEW r \in GoodRules,
         NEW p, Plausible(p), NEW allow \in Through
  PROVE  /\ WrapEmit(match, n, r, Target(r, allow)) \in Seq(Lines(F))
         /\ Decides(WrapEmit(match, n, r, Target(r, allow)), p, In(match, p), RuleSays(r, p))
<1> DEFINE line(m, to) == [m |-> m, to |-> to, n |-> n, key |-> r.id]
           limit == r.rateLimit
           over == match \cup Is("hits", limit[1].conn..MaxHits)
           target == Target(r, allow)
           A == IF limit = <<>> THEN <<>> ELSE <<line(match, "SET"), line(over, "DROP")>>
           B == IF r.log THEN <<line(match, "LOG")>> ELSE <<>>
           C == <<line(match, target)>>
           W == WrapEmit(match, n, r, target)
<1>1. W = A \o B \o C
  BY DEF WrapEmit
<1>2. /\ r.id \in Nat /\ target \in {"ACCEPT", "RETURN", "DROP"}
      /\ r.action = "allow" => target \in Through
      /\ r.action # "allow" => target \in Dropped
      /\ r.action \in {"allow", "deny"}
  BY DEF GoodRules, RuleRecords, Target, Through, Dropped
<1>3. limit = <<>> \/ (DOMAIN limit = {1} /\ limit[1].conn \in Int /\ limit # <<>>)
  <2>1. limit \in Seq(RateLimits) /\ Len(limit) <= 1
    BY DEF GoodRules, RuleRecords, AtMostOne
  <2>2. CASE Len(limit) = 0
    BY <2>1, <2>2
  <2>3. CASE Len(limit) = 1
    <3>1. DOMAIN limit = {1} /\ limit[1] \in RateLimits
      BY <2>1, <2>3
    <3>2. limit # <<>>
      BY <2>3
    <3> QED BY <3>1, <3>2 DEF RateLimits
  <2>4. Len(limit) = 0 \/ Len(limit) = 1
    <3>1. Len(limit) \in Nat /\ Len(limit) <= 1
      BY <2>1
    <3>2. \A k \in Nat : k <= 1 => (k = 0 \/ k = 1)
      OBVIOUS
    <3> QED BY <3>1, <3>2, Zenon
  <2> QED BY <2>2, <2>3, <2>4
<1>4. limit # <<>> => over \in SUBSET Clauses(F)
  <2> SUFFICES ASSUME limit # <<>> PROVE over \in SUBSET Clauses(F)
    OBVIOUS
  <2>1. limit[1].conn..MaxHits \in SUBSET Values
    BY <1>3, CompilerAssumption DEF CompilerAssumption, Values
  <2>2. Is("hits", limit[1].conn..MaxHits) \in SUBSET Clauses(F)
    BY <2>1, IsType
  <2> QED BY <2>2
<1> HIDE DEF limit, over, target
<1>5. /\ \A to \in {"SET", "LOG", "ACCEPT", "RETURN", "DROP"} : line(match, to) \in Lines(F)
      /\ limit # <<>> => line(over, "DROP") \in Lines(F)
  BY <1>2, <1>4 DEF Lines
<1>6. A \in Seq(Lines(F)) /\ B \in Seq(Lines(F)) /\ C \in Seq(Lines(F)) /\ A \o B \in Seq(Lines(F))
  <2>1. line(match, "SET") \in Lines(F) /\ line(match, "LOG") \in Lines(F) /\ line(match, target) \in Lines(F)
    BY <1>2, <1>5
  <2>2. A \in Seq(Lines(F))
    <3> HIDE DEF line
    <3> QED BY <1>5, <2>1
  <2>3. B \in Seq(Lines(F)) /\ C \in Seq(Lines(F))
    <3> HIDE DEF line
    <3> QED BY <2>1
  <2> HIDE DEF A, B, C
  <2> QED BY <2>2, <2>3
<1>7. W \in Seq(Lines(F))
  <2> HIDE DEF A, B, C, W
  <2> QED BY <1>1, <1>6
<1>8. Silent(B, p)
  <2>1. Silent(<<line(match, "LOG")>>, p)
    <3>1. line(match, "LOG").to = "LOG"
      OBVIOUS
    <3> HIDE DEF line
    <3> QED BY <3>1, SingleLine
  <2>2. Silent(<<>>, p)
    BY DEF Silent
  <2> HIDE DEF line
  <2> QED BY <2>1, <2>2
<1>9. /\ ~In(match, p) => Silent(C, p)
      /\ In(match, p) => (r.action = "allow" => Says(C, p, Through))
      /\ In(match, p) => (r.action # "allow" => Says(C, p, Dropped))
  <2>1. line(match, target).to = target /\ line(match, target).m = match
    OBVIOUS
  <2>2. target \notin {"SET", "LOG"}
    BY <1>2
  <2> HIDE DEF line
  <2> QED BY <1>2, <2>1, <2>2, SingleLine
<1>10. /\ (limit = <<>> \/ ~In(match, p)) => Silent(A, p)
       /\ (limit # <<>> /\ In(match, p)) =>
             IF p.hits < limit[1].conn THEN Silent(A, p) ELSE Says(A, p, Dropped)
  <2>1. CASE limit = <<>>
    BY <2>1 DEF Silent
  <2>2. CASE limit # <<>>
    <3> DEFINE x == line(match, "SET")
               y == line(over, "DROP")
               L == <<x, y>>
    <3>1. L = A
      BY <2>2
    <3>2. DOMAIN L = {1, 2} /\ L[1] = x /\ L[2] = y /\ 1..(2-1) = {1}
      OBVIOUS
    <3>3. x.to = "SET" /\ y.to = "DROP" /\ y.m = over
      OBVIOUS
    <3> HIDE DEF A, line, x, y, L
    <3>4. In(over, p) <=> (In(match, p) /\ p["hits"] \in limit[1].conn..MaxHits)
      BY InFacts, Zenon DEF over
    <3>5. p["hits"] \in limit[1].conn..MaxHits <=> ~(p.hits < limit[1].conn)
      BY <1>3, <2>2, CompilerAssumption DEF CompilerAssumption, Plausible
    <3>6. ~Stops(x, p) /\ (Stops(y, p) <=> In(over, p))
      BY <3>3, StopsIn
    <3>7. ~In(over, p) => Silent(L, p)
      BY <3>2, <3>6 DEF Silent
    <3>8. In(over, p) => Says(L, p, Dropped)
      BY <3>2, <3>3, <3>6 DEF Says, Dropped
    <3> QED BY <2>2, <3>1, <3>4, <3>5, <3>7, <3>8
  <2> QED BY <2>1, <2>2
<1>11. ByRule(r, p) <=> (r.action = "allow" /\ (limit = <<>> \/ p.hits < limit[1].conn))
  <2>1. CASE limit = <<>>
    <3>1. DOMAIN r.rateLimit = {}
      BY <2>1 DEF limit
    <3> QED BY <2>1, <3>1 DEF ByRule
  <2>2. CASE limit # <<>>
    BY <1>3, <2>2 DEF ByRule, limit
  <2> QED BY <2>1, <2>2
<1> HIDE DEF A, B, C, W
<1>12. CASE ~In(match, p)
  <2>1. Silent(A \o B, p)
    BY <1>6, <1>8, <1>10, <1>12, SilentConcat
  <2>2. Silent(A \o B \o C, p)
    BY <1>6, <1>9, <1>12, <2>1, SilentConcat
  <2> QED BY <1>1, <1>7, <1>12, <2>2 DEF Decides, W, target
<1>13. CASE In(match, p) /\ (limit = <<>> \/ p.hits < limit[1].conn)
  <2>1. Silent(A \o B, p)
    <3>1. Silent(A, p)
      BY <1>10, <1>13
    <3> QED BY <1>6, <1>8, <3>1, SilentConcat
  <2>2. Says(C, p, RuleSays(r, p))
    BY <1>9, <1>11, <1>13 DEF RuleSays
  <2>3. Says(A \o B \o C, p, RuleSays(r, p))
    BY <1>6, <2>1, <2>2, SaysSecond
  <2> QED BY <1>1, <1>7, <1>13, <2>3 DEF Decides, W, target
<1>14. CASE In(match, p) /\ ~(limit = <<>> \/ p.hits < limit[1].conn)
  <2>1. Says(A, p, RuleSays(r, p))
    BY <1>10, <1>11, <1>14 DEF RuleSays
  <2>2. Says(A \o B, p, RuleSays(r, p))
    BY <1>6, <2>1, SaysFirst
  <2>3. Says(A \o B \o C, p, RuleSays(r, p))
    BY <1>6, <2>2, SaysFirst
  <2> QED BY <1>1, <1>7, <1>14, <2>3 DEF Decides, W, target
<1> QED BY <1>12, <1>13, <1>14

\* A line for each port argument.
LEMMA ArgLinesFollow ==
  ASSUME NEW F, NEW match \in SUBSET Clauses(F), NEW args \in Seq(Arguments(F)), NEW r \in GoodRules,
         NEW p, Plausible(p), NEW allow \in Through
  PROVE  LET L == FlattenSeq([i \in DOMAIN args |->
                       WrapEmit(match \cup args[i].m, args[i].n, r, Target(r, allow))])
         IN  /\ L \in Seq(Lines(F))
             /\ Decides(L, p, In(match, p) /\ \E i \in DOMAIN args : In(args[i].m, p), RuleSays(r, p))
<1> DEFINE n == Len(args)
           target == Target(r, allow)
           V == RuleSays(r, p)
           B == {i \in 1..n : In(match \cup args[i].m, p)}
           s == [i \in 1..n |-> WrapEmit(match \cup args[i].m, args[i].n, r, target)]
<1>1. n \in Nat /\ DOMAIN args = 1..n /\ \A i \in 1..n : args[i] \in Arguments(F)
  OBVIOUS
<1>2. ASSUME NEW i \in 1..n
      PROVE  s[i] \in Seq(Lines(F)) /\ Decides(s[i], p, i \in B, V)
  <2>1. args[i].m \in SUBSET Clauses(F) /\ args[i].n \in 0..MaxMultiport
    BY <1>1 DEF Arguments
  <2>2. match \cup args[i].m \in SUBSET Clauses(F)
    BY <2>1
  <2>3. /\ s[i] \in Seq(Lines(F))
        /\ Decides(s[i], p, In(match \cup args[i].m, p), V)
    BY <2>1, <2>2, WrapEmitFollows
  <2>4. i \in B <=> In(match \cup args[i].m, p)
    OBVIOUS
  <2> HIDE DEF s, B, V
  <2> QED BY <2>3, <2>4 DEF Decides
<1>3. s \in [1..n -> Seq(Lines(F))]
  <2>1. \A i \in 1..n : s[i] \in Seq(Lines(F))
    BY <1>2
  <2> DEFINE e(i) == WrapEmit(match \cup args[i].m, args[i].n, r, target)
  <2>2. s = [i \in 1..n |-> e(i)]
    OBVIOUS
  <2> HIDE DEF s, e
  <2> QED BY <2>1, <2>2
<1>4. FlattenSeq(s) \in Seq(Lines(F)) /\ Decides(FlattenSeq(s), p, \E i \in 1..n : i \in B, V)
  <2> HIDE DEF s, B, V, n
  <2> QED BY <1>1, <1>2, <1>3, DecidesEach
<1>5. (\E i \in 1..n : i \in B) <=> (In(match, p) /\ \E i \in DOMAIN args : In(args[i].m, p))
  BY <1>1, InFacts
<1>6. s = [i \in DOMAIN args |-> WrapEmit(match \cup args[i].m, args[i].n, r, target)]
  BY <1>1
<1> HIDE DEF s, B, V, n
<1>7. Decides(FlattenSeq(s), p, In(match, p) /\ \E i \in DOMAIN args : In(args[i].m, p), V)
  BY <1>4, <1>5 DEF Decides
<1> QED BY <1>4, <1>6, <1>7 DEF V

\* The protocols a rule is about.
ProtoFits(r, ports, p) ==
  p.proto = r.protocol \/ (r.protocol = "both" /\ (p.proto \in {"tcp", "udp"} \/ ports.type = "all"))

LEMMA PortLinesFollow ==
  ASSUME NEW F, NEW base \in SUBSET Clauses(F), NEW args \in Seq(Arguments(F)), NEW r \in GoodRules,
         NEW ports, NEW p, Plausible(p), NEW allow \in Through
  PROVE  LET L == PortLines(r, base, ports, args, Target(r, allow))
         IN  /\ L \in Seq(Lines(F))
             /\ Decides(L, p, /\ In(base, p) /\ ProtoFits(r, ports, p)
                              /\ ports.type = "all" \/ \E i \in DOMAIN args : In(args[i].m, p),
                        RuleSays(r, p))
<1> DEFINE target == Target(r, allow)
           L == PortLines(r, base, ports, args, target)
           V == RuleSays(r, p)
           Arg == \E i \in DOMAIN args : In(args[i].m, p)
           with(protocol) == base \cup Is("proto", {protocol})
           each(protocol) == FlattenSeq([i \in DOMAIN args |->
                                WrapEmit(with(protocol) \cup args[i].m, args[i].n, r, target)])
           P == Protocols(r.protocol)
<1>1. r.protocol \in {"tcp", "udp", "both"} /\ p.proto # "both"
  BY DEF GoodRules, Plausible
<1>2. ASSUME NEW protocol \in {"tcp", "udp", "both"}
      PROVE  /\ with(protocol) \in SUBSET Clauses(F)
             /\ In(with(protocol), p) <=> (In(base, p) /\ p.proto = protocol)
  <2>1. {protocol} \in SUBSET Values
    BY DEF Values
  <2>2. Is("proto", {protocol}) \in SUBSET Clauses(F)
    BY <2>1, IsType
  <2>3. In(Is("proto", {protocol}), p) <=> p.proto = protocol
    BY InFacts
  <2> QED BY <2>2, <2>3, InFacts
<1>3. ASSUME NEW protocol \in {"tcp", "udp", "both"}
      PROVE  /\ each(protocol) \in Seq(Lines(F))
             /\ Decides(each(protocol), p, In(base, p) /\ p.proto = protocol /\ Arg, V)
  <2>1. /\ each(protocol) \in Seq(Lines(F))
        /\ Decides(each(protocol), p, In(with(protocol), p) /\ Arg, V)
    <3> DEFINE w == with(protocol)
    <3>1. w \in SUBSET Clauses(F)
      BY <1>2
    <3> HIDE DEF w
    <3>2. LET K == FlattenSeq([i \in DOMAIN args |->
                       WrapEmit(w \cup args[i].m, args[i].n, r, Target(r, allow))])
          IN  /\ K \in Seq(Lines(F))
              /\ Decides(K, p, In(w, p) /\ \E i \in DOMAIN args : In(args[i].m, p), RuleSays(r, p))
      BY <3>1, ArgLinesFollow
    <3> QED BY <3>2 DEF w
  <2> HIDE DEF with, each, V, Arg
  <2> QED BY <1>2, <2>1 DEF Decides
<1>4. CASE ports.type # "all"
  <2> DEFINE n == Len(P)
             s == [j \in 1..n |-> each(P[j])]
             B == {j \in 1..n : In(base, p) /\ p.proto = P[j] /\ Arg}
  <2>1. n \in Nat /\ DOMAIN P = 1..n /\ \A j \in 1..n : P[j] \in {"tcp", "udp", "both"}
    <3>1. CASE r.protocol = "both"
      <4>1. P = <<"tcp", "udp">>
        BY <3>1 DEF Protocols
      <4> QED BY <4>1
    <3>2. CASE r.protocol # "both"
      <4>1. P = <<r.protocol>>
        BY <3>2 DEF Protocols
      <4>2. Len(P) = 1 /\ DOMAIN P = 1..1 /\ P[1] = r.protocol
        <5> HIDE DEF P
        <5> QED BY <4>1
      <4> QED BY <1>1, <4>2
    <3> QED BY <3>1, <3>2
  <2>2. (\E j \in 1..n : p.proto = P[j]) <=> ProtoFits(r, ports, p)
    BY <1>1, <1>4 DEF Protocols, ProtoFits
  <2>3. L = FlattenSeq([j \in DOMAIN P |-> each(P[j])])
    <3> DEFINE one == FlattenSeq([j \in DOMAIN P |-> each(P[j])])
               two == WrapEmit(base, 0, r, target)
               three == WrapEmit(with(r.protocol), 0, r, target)
    <3>1. L = CASE ports.type # "all" -> one
                [] ports.type = "all" /\ r.protocol = "both" -> two
                [] OTHER -> three
      BY DEF PortLines, Each
    <3> HIDE DEF one, two, three, L
    <3>2. L = one
      BY <1>4, <3>1
    <3> QED BY <3>2 DEF one
  <2> HIDE DEF P, n, each, Arg, V, L
  <2>4. s \in [1..n -> Seq(Lines(F))] /\ \A j \in 1..n : Decides(s[j], p, j \in B, V)
    <3>1. \A j \in 1..n : s[j] = each(P[j]) /\ each(P[j]) \in Seq(Lines(F))
      BY <1>3, <2>1
    <3>2. \A j \in 1..n : Decides(each(P[j]), p, j \in B, V)
      BY <1>3, <2>1 DEF Decides
    <3> QED BY <3>1, <3>2
  <2>5. FlattenSeq(s) \in Seq(Lines(F)) /\ Decides(FlattenSeq(s), p, \E j \in 1..n : j \in B, V)
    <3> HIDE DEF s, B
    <3> QED BY <2>1, <2>4, DecidesEach
  <2>6. (\E j \in 1..n : j \in B) <=> (In(base, p) /\ ProtoFits(r, ports, p) /\ Arg)
    BY <2>2
  <2>7. L = FlattenSeq(s)
    BY <2>1, <2>3, Zenon
  <2> HIDE DEF s, B
  <2>8. L \in Seq(Lines(F)) /\ Decides(L, p, In(base, p) /\ ProtoFits(r, ports, p) /\ Arg, V)
    BY <2>5, <2>6, <2>7 DEF Decides
  <2>9. Decides(L, p, /\ In(base, p) /\ ProtoFits(r, ports, p)
                      /\ ports.type = "all" \/ Arg, V)
    BY <1>4, <2>8 DEF Decides
  <2> QED BY <2>8, <2>9 DEF L, V, Arg
<1>5. CASE ports.type = "all" /\ r.protocol = "both"
  <2>1. L = WrapEmit(base, 0, r, target)
    BY <1>5 DEF PortLines
  <2>2. 0 \in 0..MaxMultiport
    BY CompilerAssumption DEF CompilerAssumption
  <2>3. /\ WrapEmit(base, 0, r, target) \in Seq(Lines(F))
        /\ Decides(WrapEmit(base, 0, r, target), p, In(base, p), V)
    BY <2>2, WrapEmitFollows
  <2>4. ProtoFits(r, ports, p)
    BY <1>5 DEF ProtoFits
  <2> HIDE DEF L, V, Arg, target
  <2>5. L \in Seq(Lines(F)) /\ Decides(L, p, /\ In(base, p) /\ ProtoFits(r, ports, p)
                                             /\ ports.type = "all" \/ Arg, V)
    BY <1>5, <2>1, <2>3, <2>4 DEF Decides
  <2> QED BY <2>5 DEF L, V, Arg, target
<1>6. CASE ports.type = "all" /\ r.protocol # "both"
  <2>1. L = WrapEmit(with(r.protocol), 0, r, target)
    BY <1>6 DEF PortLines
  <2>2. 0 \in 0..MaxMultiport /\ with(r.protocol) \in SUBSET Clauses(F)
    <3>1. 0 \in 0..MaxMultiport
      BY CompilerAssumption DEF CompilerAssumption
    <3> HIDE DEF with
    <3> QED BY <1>1, <1>2, <3>1
  <2>3. In(with(r.protocol), p) <=> (In(base, p) /\ p.proto = r.protocol)
    BY <1>1, <1>2
  <2> HIDE DEF with
  <2>4. /\ WrapEmit(with(r.protocol), 0, r, target) \in Seq(Lines(F))
        /\ Decides(WrapEmit(with(r.protocol), 0, r, target), p, In(with(r.protocol), p), V)
    BY <2>2, WrapEmitFollows
  <2>5. ProtoFits(r, ports, p) <=> p.proto = r.protocol
    BY <1>6 DEF ProtoFits
  <2> HIDE DEF L, V, Arg, target
  <2>6. L \in Seq(Lines(F)) /\ Decides(L, p, /\ In(base, p) /\ ProtoFits(r, ports, p)
                                             /\ ports.type = "all" \/ Arg, V)
    BY <1>6, <2>1, <2>3, <2>4, <2>5 DEF Decides
  <2> QED BY <2>6 DEF L, V, Arg, target
<1> QED BY <1>4, <1>5, <1>6

\* Every position lies in one of the chunks, and no chunk is too long.
LEMMA ChunkOf ==
  ASSUME NEW M \in Nat \ {0}, NEW n \in Nat, NEW i \in 1..n
  PROVE  \E c \in 1..((n + M - 1) \div M) : (c - 1) * M + 1 <= i /\ i <= c * M
<1> DEFINE q == (n + M - 1) \div M
           T == {c \in Nat : i <= c * M}
<1>1. q \in Nat /\ n <= q * M
  <2>1. n + M - 1 \in Nat
    OBVIOUS
  <2> DEFINE a == n + M - 1
  <2>2. \A x \in Nat : x \div M \in Nat /\ x < (x \div M) * M + M
    OBVIOUS
  <2>3. q \in Nat /\ a < q * M + M
    BY <2>1, <2>2
  <2> DEFINE z == q * M
  <2>4. z \in Nat /\ a < z + M
    BY <2>3
  <2>5. n <= z
    <3> HIDE DEF z
    <3> QED BY <2>4
  <2> QED BY <2>3, <2>5
<1> HIDE DEF q
<1>2. q \in T
  <2>1. q * M \in Nat
    BY <1>1
  <2> QED BY <1>1, <2>1
<1>3. PICK c \in T : \A d \in T : c <= d
  <2>1. T \subseteq Nat
    OBVIOUS
  <2> HIDE DEF T
  <2> QED BY <1>2, <2>1, Least
<1>4. c \in Nat /\ i <= c * M /\ c <= q
  BY <1>2, <1>3
<1>5. c # 0
  BY <1>4
<1>6. (c - 1) * M < i
  <2>1. c - 1 \in Nat /\ ~(c <= c - 1)
    BY <1>4, <1>5
  <2>2. c - 1 \notin T
    <3> HIDE DEF T
    <3> QED BY <1>3, <2>1
  <2>3. (c - 1) * M \in Nat
    BY <2>1
  <2> QED BY <2>1, <2>2, <2>3
<1>7. (c - 1) * M + 1 <= i
  <2> DEFINE w == (c - 1) * M
  <2>1. w \in Nat /\ w < i
    BY <1>4, <1>5, <1>6
  <2> HIDE DEF w
  <2>2. w + 1 <= i
    BY <2>1
  <2> QED BY <2>2 DEF w
<1>8. c \in 1..q
  BY <1>1, <1>4, <1>5
<1> QED BY <1>4, <1>7, <1>8 DEF q

LEMMA MultiportCovers ==
  ASSUME NEW list \in Seq(Int)
  PROVE  /\ DOMAIN Multiport(list) = 1..Len(Multiport(list)) /\ Len(Multiport(list)) \in Nat
         /\ \A c \in DOMAIN Multiport(list) :
               /\ Multiport(list)[c] \in Seq(Int)
               /\ Len(Multiport(list)[c]) \in 0..MaxMultiport
         /\ \A x : x \in ToSet(list) <=>
               \E c \in DOMAIN Multiport(list) : x \in ToSet(Multiport(list)[c])
<1> DEFINE M == MaxMultiport
           n == Len(list)
           q == (n + M - 1) \div M
           end(c) == IF c * M < n THEN c * M ELSE n
           chunk(c) == SubSeq(list, (c - 1) * M + 1, end(c))
           f == [c \in 1..q |-> chunk(c)]
<1>1. M \in Nat \ {0} /\ n \in Nat
  BY CompilerAssumption DEF CompilerAssumption
<1>2. q \in Nat
  <2>1. n + M - 1 \in Nat
    BY <1>1
  <2>2. \A x \in Nat : x \div M \in Nat
    BY <1>1
  <2> QED BY <2>1, <2>2
<1>3. Multiport(list) = f
  BY DEF Multiport
<1> HIDE DEF q, M
<1>4. ASSUME NEW c \in 1..q
      PROVE  /\ chunk(c) \in Seq(Int) /\ Len(chunk(c)) \in 0..M
             /\ \A i \in 1..Len(chunk(c)) : chunk(c)[i] = list[(c-1)*M + i] /\ (c-1)*M + i \in 1..n
             /\ \A i \in 1..n : ((c - 1) * M + 1 <= i /\ i <= c * M) =>
                   i - (c-1)*M \in 1..Len(chunk(c)) /\ chunk(c)[i - (c-1)*M] = list[i]
  <2> DEFINE w == (c - 1) * M
  <2>1. w \in Nat /\ c * M = w + M
    BY <1>1, <1>2
  <2> DEFINE e == IF w + M < n THEN w + M ELSE n
             K == SubSeq(list, w + 1, e)
  <2>2. chunk(c) = K
    BY <2>1, Zenon
  <2> HIDE DEF w
  <2>3. w + 1 \in Int /\ e \in Int /\ e <= n /\ e <= w + M /\ \A i \in (w+1)..e : list[i] \in Int
    BY <1>1, <2>1
  <2>4. /\ K \in Seq(Int)
        /\ Len(K) = IF w + 1 <= e THEN e - (w + 1) + 1 ELSE 0
        /\ \A i \in 1 .. e - (w + 1) + 1 : K[i] = list[(w + 1) + i - 1]
    <3> HIDE DEF e
    <3> QED BY <2>3, SubSeqProperties
  <2> HIDE DEF K
  <2>5. Len(K) \in 0..M
    BY <1>1, <2>1, <2>4
  <2>6. \A i \in 1..Len(K) : K[i] = list[w + i] /\ w + i \in 1..n
    <3> TAKE i \in 1..Len(K)
    <3>1. w + 1 <= e /\ i \in 1 .. e - (w + 1) + 1
      <4> HIDE DEF e
      <4> QED BY <2>3, <2>4, <2>1
    <3>2. (w + 1) + i - 1 = w + i
      BY <2>1, <3>1
    <3> QED BY <1>1, <2>1, <2>3, <2>4, <3>1, <3>2
  <2>7. \A i \in 1..n : (w + 1 <= i /\ i <= w + M) => i - w \in 1..Len(K) /\ K[i - w] = list[i]
    <3> SUFFICES ASSUME NEW i \in 1..n, w + 1 <= i, i <= w + M
                 PROVE  i - w \in 1..Len(K) /\ K[i - w] = list[i]
      OBVIOUS
    <3>1. i <= e /\ w + 1 <= e
      BY <1>1, <2>1
    <3>2. i - w \in 1 .. e - (w + 1) + 1 /\ (w + 1) + (i - w) - 1 = i
      <4> HIDE DEF e
      <4> QED BY <1>1, <2>1, <2>3, <3>1
    <3>3. K[i - w] = list[i]
      <4> HIDE DEF e
      <4>1. K[i - w] = list[(w + 1) + (i - w) - 1]
        BY <2>4, <3>2
      <4> QED BY <3>2, <4>1
    <3>4. Len(K) = e - (w + 1) + 1
      <4> HIDE DEF e
      <4> QED BY <2>4, <3>1
    <3> QED BY <3>2, <3>3, <3>4
  <2> HIDE DEF chunk, e
  <2> QED BY <2>1, <2>2, <2>4, <2>5, <2>6, <2>7 DEF w
<1> HIDE DEF chunk
<1>5. Len(f) = q /\ DOMAIN f = 1..q /\ \A c \in 1..q : f[c] = chunk(c)
  BY <1>2
<1> HIDE DEF f
<1>6. ASSUME NEW x, x \in ToSet(list) PROVE \E c \in DOMAIN f : x \in ToSet(f[c])
  <2>1. PICK i \in 1..n : x = list[i]
    BY <1>6 DEF ToSet
  <2>2. PICK c \in 1..q : (c - 1) * M + 1 <= i /\ i <= c * M
    BY <1>1, ChunkOf DEF q
  <2> DEFINE j == i - (c-1)*M
  <2>3. j \in 1..Len(chunk(c)) /\ chunk(c)[j] = list[i]
    BY <1>4, <2>2
  <2> HIDE DEF j
  <2>4. DOMAIN chunk(c) = 1..Len(chunk(c))
    BY <1>4
  <2>5. x \in ToSet(chunk(c))
    BY <2>1, <2>3, <2>4 DEF ToSet
  <2> QED BY <1>5, <2>5
<1>7. ASSUME NEW x, NEW c \in DOMAIN f, x \in ToSet(f[c]) PROVE x \in ToSet(list)
  <2>1. c \in 1..q /\ f[c] = chunk(c) /\ DOMAIN chunk(c) = 1..Len(chunk(c))
    BY <1>4, <1>5
  <2>2. PICK i \in 1..Len(chunk(c)) : x = chunk(c)[i]
    BY <1>7, <2>1 DEF ToSet
  <2> DEFINE j == (c-1)*M + i
  <2>3. j \in 1..n /\ x = list[j]
    BY <1>4, <2>1, <2>2
  <2> HIDE DEF j
  <2>4. DOMAIN list = 1..n
    OBVIOUS
  <2> QED BY <2>3, <2>4 DEF ToSet
<1>8. \A c \in DOMAIN f : f[c] \in Seq(Int) /\ Len(f[c]) \in 0..MaxMultiport
  BY <1>4, <1>5 DEF M
<1> QED BY <1>2, <1>3, <1>5, <1>6, <1>7, <1>8

----------------------------------------------------------------------------
(* Ports, sources and schedules: the clauses match what they stand for.     *)

LEMMA ConcatElements ==
  ASSUME NEW S, NEW A \in Seq(S), NEW B \in Seq(S), NEW x
  PROVE  x \in ToSet(A \o B) <=> (x \in ToSet(A) \/ x \in ToSet(B))
<1>1. /\ DOMAIN A = 1..Len(A) /\ DOMAIN B = 1..Len(B) /\ Len(A) \in Nat /\ Len(B) \in Nat
      /\ DOMAIN (A \o B) = 1..(Len(A) + Len(B))
      /\ \A i \in 1..Len(A) : (A \o B)[i] = A[i] /\ i \in 1..(Len(A) + Len(B))
      /\ \A i \in 1..Len(B) : (A \o B)[Len(A) + i] = B[i] /\ Len(A) + i \in 1..(Len(A) + Len(B))
  OBVIOUS
<1>2. ASSUME NEW i \in 1..(Len(A) + Len(B)), x = (A \o B)[i] PROVE x \in ToSet(A) \/ x \in ToSet(B)
  <2>1. CASE i <= Len(A)
    <3>1. i \in 1..Len(A)
      BY <1>1, <2>1
    <3> QED BY <1>1, <1>2, <3>1 DEF ToSet
  <2>2. CASE i > Len(A)
    <3> DEFINE j == i - Len(A)
    <3>1. j \in 1..Len(B) /\ i = Len(A) + j
      BY <1>1, <2>2
    <3> HIDE DEF j
    <3>2. x = B[j]
      BY <1>1, <1>2, <3>1
    <3> QED BY <1>1, <3>1, <3>2 DEF ToSet
  <2> QED BY <1>1, <2>1, <2>2
<1>3. ASSUME x \in ToSet(A) PROVE x \in ToSet(A \o B)
  <2>1. PICK i \in 1..Len(A) : x = A[i]
    BY <1>1, <1>3 DEF ToSet
  <2> QED BY <1>1, <2>1 DEF ToSet
<1>4. ASSUME x \in ToSet(B) PROVE x \in ToSet(A \o B)
  <2>1. PICK i \in 1..Len(B) : x = B[i]
    BY <1>1, <1>4 DEF ToSet
  <2> DEFINE j == Len(A) + i
  <2>2. x = (A \o B)[j] /\ j \in 1..(Len(A) + Len(B))
    BY <1>1, <2>1
  <2> HIDE DEF j
  <2> QED BY <1>1, <2>2 DEF ToSet
<1>5. ASSUME x \in ToSet(A \o B) PROVE x \in ToSet(A) \/ x \in ToSet(B)
  BY <1>1, <1>2, <1>5 DEF ToSet
<1> QED BY <1>3, <1>4, <1>5

LEMMA FlattenElements ==
  ASSUME NEW S, NEW n \in Nat, NEW s \in [1..n -> Seq(S)], NEW x
  PROVE  x \in ToSet(FlattenSeq(s)) <=> \E i \in 1..n : x \in ToSet(s[i])
<1>1. CASE n = 0
  <2>1. s = <<>>
    BY <1>1
  <2>2. FlattenSeq(s) = <<>>
    BY <2>1, FlattenEmpty, Zenon
  <2>3. x \notin ToSet(<<>>)
    BY DEF ToSet
  <2>4. x \notin ToSet(FlattenSeq(s))
    BY <2>2, <2>3, Zenon
  <2> QED BY <1>1, <2>4
<1>2. CASE n # 0
  <2>1. n \in Nat \ {0}
    BY <1>2
  <2>2. PICK f : Partial(f, s, n, S)
    BY <2>1, Flatten
  <2> DEFINE Sofar(k) == \E i \in 1..k : x \in ToSet(s[i])
             T == {k \in 1..n : ~(x \in ToSet(f[k]) <=> Sofar(k))}
  <2>3. T = {}
    <3> SUFFICES ASSUME T # {} PROVE FALSE
      OBVIOUS
    <3>1. PICK k \in T : \A j \in T : k <= j
      <4>1. T \subseteq Nat
        OBVIOUS
      <4> HIDE DEF T
      <4> QED BY <4>1, Least
    <3>2. k \in 1..n /\ ~(x \in ToSet(f[k]) <=> Sofar(k))
      <4> HIDE DEF Sofar
      <4> QED OBVIOUS
    <3>3. k # 1
      <4> SUFFICES ASSUME k = 1 PROVE FALSE
        OBVIOUS
      <4>1. f[k] = s[1]
        BY <2>2 DEF Partial
      <4> QED BY <3>2, <4>1
    <3>4. k - 1 \in 1..n /\ k \in 2..n /\ ~(k <= k - 1)
      BY <3>2, <3>3
    <3>5. x \in ToSet(f[k-1]) <=> Sofar(k-1)
      <4>1. k - 1 \notin T
        <5> HIDE DEF T
        <5> QED BY <3>1, <3>4
      <4> HIDE DEF Sofar
      <4> QED BY <3>4, <4>1
    <3>6. f[k-1] \in Seq(S) /\ s[k] \in Seq(S) /\ f[k] = f[k-1] \o s[k]
      BY <2>2, <3>2, <3>4 DEF Partial
    <3>7. x \in ToSet(f[k-1] \o s[k]) <=> (x \in ToSet(f[k-1]) \/ x \in ToSet(s[k]))
      BY <3>6, ConcatElements
    <3>8. Sofar(k) <=> (Sofar(k-1) \/ x \in ToSet(s[k]))
      BY <3>2, <3>4
    <3> HIDE DEF Sofar, T
    <3> QED BY <3>2, <3>5, <3>6, <3>7, <3>8
  <2>4. x \in ToSet(f[n]) <=> Sofar(n)
    <3>1. n \notin T /\ n \in 1..n
      <4>1. n \in 1..n
        BY <2>1
      <4> HIDE DEF T
      <4> QED BY <2>3, <4>1
    <3> HIDE DEF Sofar
    <3> QED BY <3>1
  <2> QED BY <2>2, <2>4 DEF Partial
<1> QED BY <1>1, <1>2

\* Only keeps the elements that pass the test.
LEMMA PickedElements ==
  ASSUME NEW S, NEW s \in Seq(S), NEW M
  PROVE  /\ Picked(s, M) \in Seq(S)
         /\ \A x : x \in ToSet(Picked(s, M)) <=> (x \in ToSet(s) /\ x \in M)
<1> DEFINE n == Len(s)
           t == [i \in 1..n |-> IF s[i] \in M THEN <<s[i]>> ELSE <<>>]
<1>1. n \in Nat /\ DOMAIN s = 1..n /\ \A i \in 1..n : s[i] \in S
  OBVIOUS
<1> HIDE DEF n
<1>2. t \in [1..n -> Seq(S)]
  BY <1>1
<1>3. Picked(s, M) = FlattenSeq(t)
  BY <1>1, Zenon DEF Picked
<1>4. t \in Seq(Seq(S))
  BY <1>1, <1>2
<1>5. ASSUME NEW i \in 1..n, NEW x PROVE x \in ToSet(t[i]) <=> (s[i] \in M /\ x = s[i])
  <2>1. CASE s[i] \in M
    <3>1. t[i] = <<s[i]>>
      BY <2>1
    <3> HIDE DEF t
    <3>2. ToSet(<<s[i]>>) = {s[i]}
      BY DEF ToSet
    <3> QED BY <2>1, <3>1, <3>2
  <2>2. CASE s[i] \notin M
    <3>1. t[i] = <<>>
      BY <2>2
    <3> HIDE DEF t
    <3> QED BY <2>2, <3>1 DEF ToSet
  <2> QED BY <2>1, <2>2
<1> HIDE DEF t
<1>6. ASSUME NEW x PROVE x \in ToSet(FlattenSeq(t)) <=> (x \in ToSet(s) /\ x \in M)
  <2>1. x \in ToSet(FlattenSeq(t)) <=> \E i \in 1..n : x \in ToSet(t[i])
    BY <1>1, <1>2, FlattenElements
  <2> QED BY <1>1, <1>5, <2>1 DEF ToSet
<1>7. FlattenSeq(t) \in Seq(S)
  BY <1>4, FlattenType
<1> QED BY <1>3, <1>6, <1>7


LEMMA PortArgsFollow ==
  ASSUME NEW F, NEW ports \in PortChoices, NEW p
  PROVE  /\ PortArgs(ports) \in Seq(Arguments(F))
         /\ ports.type \in {"list", "range"} =>
               ((\E i \in DOMAIN PortArgs(ports) : In(PortArgs(ports)[i].m, p))
                   <=> HasPort(ports, p.dport))
<1>1. ports.from \in Int /\ ports.to \in Int /\ ports.list \in Seq(Int)
  BY DEF PortChoices
<1>2. CASE ports.type = "range"
  <2> DEFINE clause == Is("dport", ports.from..ports.to)
             a == [m |-> clause, n |-> 1]
  <2>1. PortArgs(ports) = <<a>>
    BY <1>2 DEF PortArgs
  <2>2. clause \in SUBSET Clauses(F)
    <3>1. ports.from..ports.to \in SUBSET Values
      BY <1>1 DEF Values
    <3> QED BY <3>1, IsType
  <2>3. In(clause, p) <=> p.dport \in ports.from..ports.to
    BY InFacts
  <2>4. HasPort(ports, p.dport) <=> p.dport \in ports.from..ports.to
    BY <1>2 DEF HasPort
  <2> HIDE DEF clause
  <2>5. a \in Arguments(F) /\ a.m = clause
    <3>1. 1 \in 0..MaxMultiport
      BY CompilerAssumption DEF CompilerAssumption
    <3> QED BY <2>2, <3>1 DEF Arguments
  <2> HIDE DEF a
  <2>6. <<a>> \in Seq(Arguments(F)) /\ DOMAIN <<a>> = {1} /\ <<a>>[1] = a
    BY <2>5
  <2> QED BY <2>1, <2>3, <2>4, <2>5, <2>6
<1>3. CASE ports.type # "range"
  <2> DEFINE chunks == Multiport(ports.list)
             q == Len(chunks)
             arg(i) == [m |-> Is("dport", ToSet(chunks[i])), n |-> Len(chunks[i])]
             f == [i \in 1..q |-> arg(i)]
  <2>1. /\ DOMAIN chunks = 1..q /\ q \in Nat
        /\ \A c \in 1..q : chunks[c] \in Seq(Int) /\ Len(chunks[c]) \in 0..MaxMultiport
        /\ \A x : x \in ToSet(ports.list) <=> \E c \in 1..q : x \in ToSet(chunks[c])
    BY <1>1, MultiportCovers
  <2>2. PortArgs(ports) = f
    BY <1>3, <2>1 DEF PortArgs
  <2> HIDE DEF chunks, q
  <2>3. ASSUME NEW i \in 1..q
        PROVE  arg(i) \in Arguments(F) /\ (In(arg(i).m, p) <=> p.dport \in ToSet(chunks[i]))
    <3>1. ToSet(chunks[i]) \in SUBSET Values
      <4>1. \A j \in DOMAIN chunks[i] : chunks[i][j] \in Int
        BY <2>1
      <4> QED BY <4>1 DEF ToSet, Values
    <3>2. Is("dport", ToSet(chunks[i])) \in SUBSET Clauses(F)
      BY <3>1, IsType
    <3>3. In(Is("dport", ToSet(chunks[i])), p) <=> p.dport \in ToSet(chunks[i])
      BY InFacts
    <3> QED BY <2>1, <3>2, <3>3 DEF Arguments
  <2> HIDE DEF arg
  <2>4. f \in Seq(Arguments(F)) /\ DOMAIN f = 1..q /\ \A i \in 1..q : f[i] = arg(i)
    BY <2>1, <2>3
  <2> HIDE DEF f
  <2>5. (\E i \in DOMAIN f : In(f[i].m, p)) <=> p.dport \in ToSet(ports.list)
    BY <2>1, <2>3, <2>4
  <2>6. ports.type = "list" => (HasPort(ports, p.dport) <=> p.dport \in ToSet(ports.list))
    BY DEF HasPort
  <2> QED BY <1>3, <2>2, <2>4, <2>5, <2>6
<1> QED BY <1>2, <1>3

LEMMA OrigPortArgsFollow ==
  ASSUME NEW F, NEW ports \in PortChoices, NEW p
  PROVE  /\ OrigPortArgs(ports) \in Seq(Arguments(F))
         /\ ports.type \in {"list", "range"} =>
               ((\E i \in DOMAIN OrigPortArgs(ports) : In(OrigPortArgs(ports)[i].m, p))
                   <=> HasPort(ports, p.orig))
<1>1. ports.from \in Int /\ ports.to \in Int /\ ports.list \in Seq(Int)
  BY DEF PortChoices
<1>0. 1 \in 0..MaxMultiport
  BY CompilerAssumption DEF CompilerAssumption
<1>2. CASE ports.type = "range"
  <2> DEFINE clause == Is("orig", ports.from..ports.to)
             a == [m |-> clause, n |-> 1]
  <2>1. OrigPortArgs(ports) = <<a>>
    BY <1>2 DEF OrigPortArgs
  <2>2. clause \in SUBSET Clauses(F)
    <3>1. ports.from..ports.to \in SUBSET Values
      BY <1>1 DEF Values
    <3> QED BY <3>1, IsType
  <2>3. In(clause, p) <=> p.orig \in ports.from..ports.to
    BY InFacts
  <2>4. HasPort(ports, p.orig) <=> p.orig \in ports.from..ports.to
    BY <1>2 DEF HasPort
  <2> HIDE DEF clause
  <2>5. a \in Arguments(F) /\ a.m = clause
    BY <1>0, <2>2 DEF Arguments
  <2> HIDE DEF a
  <2>6. <<a>> \in Seq(Arguments(F)) /\ DOMAIN <<a>> = {1} /\ <<a>>[1] = a
    BY <2>5
  <2> QED BY <2>1, <2>3, <2>4, <2>5, <2>6
<1>3. CASE ports.type # "range"
  <2> DEFINE q == Len(ports.list)
             arg(i) == [m |-> Is("orig", {ports.list[i]}), n |-> 1]
             f == [i \in 1..q |-> arg(i)]
  <2>1. DOMAIN ports.list = 1..q /\ q \in Nat /\ \A i \in 1..q : ports.list[i] \in Int
    BY <1>1
  <2>2. OrigPortArgs(ports) = f
    BY <1>3, <2>1 DEF OrigPortArgs
  <2> HIDE DEF q
  <2>3. ASSUME NEW i \in 1..q
        PROVE  arg(i) \in Arguments(F) /\ (In(arg(i).m, p) <=> p.orig = ports.list[i])
    <3>1. {ports.list[i]} \in SUBSET Values
      BY <2>1 DEF Values
    <3>2. Is("orig", {ports.list[i]}) \in SUBSET Clauses(F)
      BY <3>1, IsType
    <3>3. In(Is("orig", {ports.list[i]}), p) <=> p.orig = ports.list[i]
      BY InFacts
    <3> QED BY <1>0, <3>2, <3>3 DEF Arguments
  <2> HIDE DEF arg
  <2>4. f \in Seq(Arguments(F)) /\ DOMAIN f = 1..q /\ \A i \in 1..q : f[i] = arg(i)
    BY <2>1, <2>3
  <2> HIDE DEF f
  <2>5. (\E i \in DOMAIN f : In(f[i].m, p)) <=> p.orig \in ToSet(ports.list)
    BY <2>1, <2>3, <2>4 DEF ToSet
  <2>6. ports.type = "list" => (HasPort(ports, p.orig) <=> p.orig \in ToSet(ports.list))
    BY DEF HasPort
  <2> QED BY <1>3, <2>2, <2>4, <2>5, <2>6
<1> QED BY <1>2, <1>3

LEMMA ScheduleFollows ==
  ASSUME NEW F, NEW r \in GoodRules, NEW p
  PROVE  /\ ScheduleArg(r) \in SUBSET Clauses(F)
         /\ In(ScheduleArg(r), p) <=> \A i \in DOMAIN r.schedule : p.at \in ActiveAt(r.schedule[i])
<1> DEFINE s == r.schedule
<1>1. s \in Seq(Schedules) /\ Len(s) <= 1 /\ \A i \in DOMAIN s : s[i].days \subseteq Weekdays
  BY DEF GoodRules, RuleRecords, AtMostOne
<1>2. s = <<>> \/ (DOMAIN s = {1} /\ s[1] \in Schedules /\ s # <<>>)
  <2>1. Len(s) \in Nat /\ Len(s) <= 1
    BY <1>1
  <2>2. \A k \in Nat : k <= 1 => (k = 0 \/ k = 1)
    OBVIOUS
  <2>3. Len(s) = 0 \/ Len(s) = 1
    BY <2>1, <2>2, Zenon
  <2> HIDE DEF s
  <2> QED BY <1>1, <2>3
<1> HIDE DEF s
<1>3. CASE s = <<>>
  <2>1. ScheduleArg(r) = {}
    BY <1>3 DEF ScheduleArg, s, Anything
  <2>2. DOMAIN s = {}
    BY <1>3
  <2>3. In({}, p)
    BY InFacts
  <2> QED BY <2>1, <2>2, <2>3 DEF s
<1>4. CASE s # <<>>
  <2> DEFINE A == ActiveAt(s[1])
  <2>1. ScheduleArg(r) = Is("at", A)
    BY <1>4 DEF ScheduleArg, s
  <2>2. A \in SUBSET Values
    <3>1. s[1].days \subseteq Weekdays /\ LastMinute \in Nat
      BY <1>1, <1>2, <1>4, RulesAssumption DEF RulesAssumption
    <3>2. A \subseteq (Weekdays \X (0..LastMinute))
      BY <3>1 DEF ActiveAt
    <3>3. 0..LastMinute \subseteq Int
      OBVIOUS
    <3> HIDE DEF A
    <3> QED BY <3>2, <3>3 DEF Values
  <2> HIDE DEF A
  <2>3. Is("at", A) \in SUBSET Clauses(F)
    BY <2>2, IsType
  <2>4. In(Is("at", A), p) <=> p.at \in A
    BY InFacts
  <2> QED BY <1>2, <1>4, <2>1, <2>3, <2>4 DEF A, s
<1> QED BY <1>3, <1>4

LEMMA SourceArgsFollow ==
  ASSUME NEW F, NEW source \in Sources, ValidSource(source), NEW p,
         source.type = "country" => \A cc \in DOMAIN GeoNet : GeoNet[cc] \subseteq F,
         source.type \in {"ip", "range"} => source.addrs \subseteq F,
         NEW field \in {"src", "dst"}
  PROVE  /\ SourceArgs(source, field) \in Seq(SUBSET Clauses(F))
         /\ (\E i \in DOMAIN SourceArgs(source, field) : In(SourceArgs(source, field)[i], p))
               <=> FromPeer(source, p[field])
<1> DEFINE L == SourceArgs(source, field)
<1>1. source.type \in {"any", "country", "ip", "range"}
  BY DEF ValidSource
<1>2. CASE source.type = "any"
  <2>1. L = <<Anything>>
    BY <1>2 DEF SourceArgs
  <2>2. Anything \in SUBSET Clauses(F) /\ In(Anything, p)
    BY IsType, InFacts DEF Anything
  <2>3. FromPeer(source, p[field])
    BY <1>2 DEF FromPeer
  <2>4. <<Anything>> \in Seq(SUBSET Clauses(F)) /\ DOMAIN <<Anything>> = {1} /\ <<Anything>>[1] = Anything
    BY <2>2
  <2> QED BY <2>1, <2>2, <2>3, <2>4
<1>3. CASE source.type = "country"
  <2> DEFINE c == source.codes
             q == Len(c)
             net(i) == Is(field, GeoNet[c[i]])
             f == [i \in 1..q |-> net(i)]
  <2>1. DOMAIN c = 1..q /\ q \in Nat /\ \A i \in 1..q : c[i] \in DOMAIN GeoNet
    <3>1. c \in Seq(DOMAIN GeoNet)
      BY DEF Sources
    <3> HIDE DEF c
    <3> QED BY <3>1
  <2>2. L = f
    BY <1>3, <2>1 DEF SourceArgs
  <2> HIDE DEF c, q
  <2>3. ASSUME NEW i \in 1..q
        PROVE  net(i) \in SUBSET Clauses(F) /\ (In(net(i), p) <=> p[field] \in GeoNet[c[i]])
    <3>1. GeoNet[c[i]] \in SUBSET F
      BY <1>3, <2>1
    <3>2. Is(field, GeoNet[c[i]]) \in SUBSET Clauses(F)
      BY <3>1, IsType
    <3>3. In(Is(field, GeoNet[c[i]]), p) <=> p[field] \in GeoNet[c[i]]
      BY InFacts
    <3> QED BY <3>2, <3>3
  <2> HIDE DEF net
  <2>4. f \in Seq(SUBSET Clauses(F)) /\ DOMAIN f = 1..q /\ \A i \in 1..q : f[i] = net(i)
    BY <2>1, <2>3
  <2> HIDE DEF f, L
  <2>5. (\E i \in DOMAIN f : In(f[i], p)) <=> \E i \in 1..q : p[field] \in GeoNet[c[i]]
    BY <2>3, <2>4
  <2>6. FromPeer(source, p[field]) <=> \E i \in 1..q : p[field] \in GeoNet[c[i]]
    BY <1>3, <2>1 DEF FromPeer, c
  <2> QED BY <2>2, <2>4, <2>5, <2>6 DEF L
<1>4. CASE source.type \in {"ip", "range"}
  <2> DEFINE a == Is(field, source.addrs)
  <2>1. L = <<a>>
    BY <1>4 DEF SourceArgs
  <2>2. a \in SUBSET Clauses(F)
    BY <1>4, IsType
  <2>3. In(a, p) <=> p[field] \in source.addrs
    BY InFacts
  <2>4. FromPeer(source, p[field]) <=> p[field] \in source.addrs
    BY <1>4 DEF FromPeer
  <2> HIDE DEF a
  <2>5. <<a>> \in Seq(SUBSET Clauses(F)) /\ DOMAIN <<a>> = {1} /\ <<a>>[1] = a
    BY <2>2
  <2> QED BY <2>1, <2>3, <2>4, <2>5
<1> QED BY <1>1, <1>2, <1>3, <1>4

\* An IPv6 source says nothing of IPv4 addresses, and the other way round.
LEMMA Families ==
  ASSUME NEW source \in Sources, ValidSource(source)
  PROVE  /\ ~IsIPv6Source(source) =>
               /\ source.type = "country" => \A cc \in DOMAIN GeoNet : GeoNet[cc] \subseteq V4
               /\ source.type \in {"ip", "range"} => source.addrs \subseteq V4
         /\ IsIPv6Source(source) =>
               /\ source.type \in {"ip", "range"} /\ source.addrs \subseteq V6
               /\ \A a \in V4 : ~FromPeer(source, a)
         /\ (source.type # "any" /\ ~IsIPv6Source(source)) => \A a \in V6 : ~FromPeer(source, a)
<1>1. /\ source.addrs \subseteq V4 \/ source.addrs \subseteq V6
      /\ source.codes \in Seq(DOMAIN GeoNet)
  <2>1. source.addrs \in AddressSets /\ source.codes \in Seq(DOMAIN GeoNet)
    BY DEF Sources
  <2>2. \A A \in AddressSets : A \subseteq V4 \/ A \subseteq V6
    BY DEF AddressSets
  <2> QED BY <2>1, <2>2
<1>2. /\ V4 \cap V6 = {}
      /\ \A cc \in DOMAIN GeoNet : GeoNet[cc] \subseteq V4
  BY RulesAssumption, CompilerAssumption DEF RulesAssumption, CompilerAssumption
<1>3. source.type \in {"any", "country", "ip", "range"}
  BY DEF ValidSource
<1>4. \A i \in DOMAIN source.codes : source.codes[i] \in DOMAIN GeoNet
  BY <1>1
<1>5. ~IsIPv6Source(source) =>
         /\ source.type = "country" => \A cc \in DOMAIN GeoNet : GeoNet[cc] \subseteq V4
         /\ source.type \in {"ip", "range"} => source.addrs \subseteq V4
  BY <1>1, <1>2 DEF IsIPv6Source
<1>6. IsIPv6Source(source) =>
         /\ source.type \in {"ip", "range"} /\ source.addrs \subseteq V6
         /\ \A a \in V4 : ~FromPeer(source, a)
  BY <1>1, <1>2 DEF IsIPv6Source, FromPeer
<1>7. (source.type # "any" /\ ~IsIPv6Source(source)) => \A a \in V6 : ~FromPeer(source, a)
  <2> SUFFICES ASSUME source.type # "any", ~IsIPv6Source(source), NEW a \in V6, FromPeer(source, a)
               PROVE  FALSE
    OBVIOUS
  <2>1. CASE source.type = "country"
    <3>1. PICK i \in DOMAIN source.codes : a \in GeoNet[source.codes[i]]
      BY <2>1 DEF FromPeer
    <3> QED BY <1>2, <1>4, <3>1
  <2>2. CASE source.type \in {"ip", "range"}
    <3>1. a \in source.addrs
      BY <2>2 DEF FromPeer
    <3> QED BY <1>2, <1>5, <2>2, <3>1
  <2> QED BY <1>3, <2>1, <2>2
<1> QED BY <1>5, <1>6, <1>7

LEMMA Source6ArgsFollow ==
  ASSUME NEW source \in Sources, ValidSource(source), NEW p, NEW field \in {"src", "dst"}
  PROVE  /\ Source6Args(source, field) \in Seq(SUBSET Clauses(V6))
         /\ p[field] \in V6 =>
               ((\E i \in DOMAIN Source6Args(source, field) : In(Source6Args(source, field)[i], p))
                   <=> FromPeer(source, p[field]))
<1>1. CASE source.type = "any" \/ IsIPv6Source(source)
  <2>1. Source6Args(source, field) = SourceArgs(source, field)
    BY <1>1 DEF Source6Args
  <2>2. /\ source.type # "country"
        /\ source.type \in {"ip", "range"} => source.addrs \subseteq V6
    BY <1>1, Families
  <2>3. /\ SourceArgs(source, field) \in Seq(SUBSET Clauses(V6))
        /\ (\E i \in DOMAIN SourceArgs(source, field) : In(SourceArgs(source, field)[i], p))
              <=> FromPeer(source, p[field])
    BY <2>2, SourceArgsFollow
  <2> QED BY <2>1, <2>3
<1>2. CASE ~(source.type = "any" \/ IsIPv6Source(source))
  <2>1. Source6Args(source, field) = <<>>
    BY <1>2 DEF Source6Args
  <2>2. <<>> \in Seq(SUBSET Clauses(V6)) /\ DOMAIN <<>> = {}
    OBVIOUS
  <2>3. p[field] \in V6 => ~FromPeer(source, p[field])
    BY <1>2, Families
  <2> QED BY <2>1, <2>2, <2>3
<1> QED BY <1>1, <1>2

Active(r, p) == \A i \in DOMAIN r.schedule : p.at \in ActiveAt(r.schedule[i])

\* The lines of a rule for each of its sources.
LEMMA SourceLinesFollow ==
  ASSUME NEW F, NEW sources \in Seq(SUBSET Clauses(F)), NEW args \in Seq(Arguments(F)),
         NEW r \in GoodRules, NEW ports, NEW p, Plausible(p), NEW allow \in Through
  PROVE  LET L == FlattenSeq([i \in DOMAIN sources |->
                     PortLines(r, sources[i] \cup ScheduleArg(r), ports, args, Target(r, allow))])
         IN  /\ L \in Seq(Lines(F))
             /\ Decides(L, p, /\ \E i \in DOMAIN sources : In(sources[i], p)
                              /\ Active(r, p) /\ ProtoFits(r, ports, p)
                              /\ ports.type = "all" \/ \E i \in DOMAIN args : In(args[i].m, p),
                        RuleSays(r, p))
<1> DEFINE n == Len(sources)
           V == RuleSays(r, p)
           Arg == ports.type = "all" \/ \E i \in DOMAIN args : In(args[i].m, p)
           base(i) == sources[i] \cup ScheduleArg(r)
           one(i) == PortLines(r, base(i), ports, args, Target(r, allow))
           s == [i \in 1..n |-> one(i)]
           B == {i \in 1..n : In(base(i), p) /\ ProtoFits(r, ports, p) /\ Arg}
<1>1. n \in Nat /\ DOMAIN sources = 1..n /\ \A i \in 1..n : sources[i] \in SUBSET Clauses(F)
  OBVIOUS
<1> HIDE DEF n
<1>2. ASSUME NEW i \in 1..n
      PROVE  one(i) \in Seq(Lines(F)) /\ Decides(one(i), p, i \in B, V)
  <2> DEFINE w == base(i)
  <2>1. w \in SUBSET Clauses(F)
    BY <1>1, ScheduleFollows
  <2>2. i \in B <=> (In(w, p) /\ ProtoFits(r, ports, p) /\ Arg)
    OBVIOUS
  <2>3. one(i) = PortLines(r, w, ports, args, Target(r, allow))
    OBVIOUS
  <2> HIDE DEF w, B, one
  <2>4. LET L == PortLines(r, w, ports, args, Target(r, allow))
        IN  /\ L \in Seq(Lines(F))
            /\ Decides(L, p, /\ In(w, p) /\ ProtoFits(r, ports, p)
                             /\ ports.type = "all" \/ \E j \in DOMAIN args : In(args[j].m, p),
                       RuleSays(r, p))
    BY <2>1, PortLinesFollow
  <2> QED BY <2>2, <2>3, <2>4 DEF Decides
<1>3. (\E i \in 1..n : i \in B) <=>
         ((\E i \in DOMAIN sources : In(sources[i], p)) /\ Active(r, p) /\ ProtoFits(r, ports, p) /\ Arg)
  <2>1. \A i \in 1..n : In(base(i), p) <=> (In(sources[i], p) /\ Active(r, p))
    BY InFacts, ScheduleFollows DEF Active
  <2> HIDE DEF base, Arg
  <2> QED BY <1>1, <2>1
<1>4. FlattenSeq([i \in DOMAIN sources |->
          PortLines(r, sources[i] \cup ScheduleArg(r), ports, args, Target(r, allow))]) = FlattenSeq(s)
  BY <1>1
<1> HIDE DEF one, B, V
<1>5. s \in [1..n -> Seq(Lines(F))] /\ \A i \in 1..n : Decides(s[i], p, i \in B, V)
  BY <1>2
<1> HIDE DEF s
<1>6. FlattenSeq(s) \in Seq(Lines(F)) /\ Decides(FlattenSeq(s), p, \E i \in 1..n : i \in B, V)
  BY <1>1, <1>5, DecidesEach
<1>7. Decides(FlattenSeq(s), p, /\ \E i \in DOMAIN sources : In(sources[i], p)
                                /\ Active(r, p) /\ ProtoFits(r, ports, p)
                                /\ ports.type = "all" \/ \E i \in DOMAIN args : In(args[i].m, p), V)
  BY <1>3, <1>6 DEF Decides
<1> QED BY <1>4, <1>6, <1>7 DEF V

----------------------------------------------------------------------------
(* The lines of one rule in each chain, against Covers.                     *)

\* The part of a rule's ports that is the zone's.
LEMMA PortsForZoneFollows ==
  ASSUME NEW r \in GoodRules, NEW dp, NEW zone \in {"host", "docker"}
  PROVE  /\ PortsForZone(r, dp, zone) \in PortChoices
         /\ \A n : HasPort(PortsForZone(r, dp, zone), n) <=>
               /\ HasPort(r.ports, n)
               /\ \/ r.zone = zone
                  \/ r.zone = "auto" /\ ((r.ports.type = "list" /\ n \in dp) <=> (zone = "docker"))
         /\ PortsForZone(r, dp, zone) # NoPorts =>
               /\ PortsForZone(r, dp, zone).type \in {"all", "list", "range"}
               /\ PortsForZone(r, dp, zone).type = r.ports.type
<1> DEFINE P == PortsForZone(r, dp, zone)
<1>1. /\ r.ports \in PortChoices /\ r.ports.list \in Seq(Int)
      /\ r.ports.type \in {"all", "list", "range"} /\ r.zone \in {"auto", "host", "docker"}
  BY DEF GoodRules, RuleRecords, PortChoices
<1>2. \A list \in Seq(Int) : /\ PortList(list) \in PortChoices /\ PortList(list).type = "list"
                             /\ PortList(list).list = list
  <2> TAKE list \in Seq(Int)
  <2>1. PortList(list) \in [type : {"list"}, list : {list}, from : {0}, to : {0}]
    BY DEF PortList, AllPorts
  <2>2. "list" \in Words
    BY DEF Words
  <2> QED BY <2>1, <2>2 DEF PortChoices
<1>3. NoPorts \in PortChoices /\ \A n : ~HasPort(NoPorts, n)
  <2>1. <<>> \in Seq(Int) /\ DOMAIN <<>> = {}
    OBVIOUS
  <2>2. NoPorts \in PortChoices /\ NoPorts.type = "list" /\ NoPorts.list = <<>>
    BY <1>2, <2>1 DEF NoPorts
  <2> QED BY <2>1, <2>2 DEF HasPort, ToSet
<1>4. CASE r.zone = "auto" /\ r.ports.type = "list"
  <2> DEFINE M == {x \in Int : (x \in dp) <=> (zone = "docker")}
             K == Picked(r.ports.list, M)
  <2>1. P = PortList(K)
    <3> DEFINE L == [i \in DOMAIN r.ports.list |->
                       IF (r.ports.list[i] \in dp) <=> (zone = "docker") THEN <<r.ports.list[i]>> ELSE <<>>]
    <3>1. P = PortList(FlattenSeq(L))
      BY <1>4 DEF PortsForZone, Only, Each
    <3>2. L = [i \in DOMAIN r.ports.list |->
                  IF r.ports.list[i] \in M THEN <<r.ports.list[i]>> ELSE <<>>]
      <4>1. \A i \in DOMAIN r.ports.list : r.ports.list[i] \in Int
        BY <1>1
      <4> QED BY <4>1
    <3> HIDE DEF L
    <3> QED BY <3>1, <3>2, Zenon DEF Picked
  <2>2. K \in Seq(Int) /\ \A x : x \in ToSet(K) <=> (x \in ToSet(r.ports.list) /\ x \in M)
    <3> HIDE DEF M
    <3> QED BY <1>1, PickedElements
  <2> HIDE DEF K
  <2>3. P \in PortChoices /\ P.type = "list" /\ P.list = K
    BY <1>2, <2>1, <2>2
  <2>4. \A n : n \in ToSet(r.ports.list) => n \in Int
    BY <1>1 DEF ToSet
  <2> HIDE DEF P
  <2>5. ASSUME NEW n
        PROVE  HasPort(P, n) <=> (HasPort(r.ports, n) /\ ((n \in dp) <=> (zone = "docker")))
    <3>1. HasPort(P, n) <=> n \in ToSet(K)
      BY <2>3 DEF HasPort
    <3>2. HasPort(r.ports, n) <=> n \in ToSet(r.ports.list)
      BY <1>4 DEF HasPort
    <3> QED BY <2>2, <2>4, <3>1, <3>2
  <2> QED BY <1>4, <2>3, <2>5 DEF P
<1>5. CASE r.zone = "auto" /\ r.ports.type # "list" /\ zone = "host"
  <2>1. P = r.ports
    <3>1. r.zone # zone
      BY <1>5
    <3> QED BY <1>5, <3>1 DEF PortsForZone
  <2> QED BY <1>1, <1>5, <2>1
<1>6. CASE r.zone = "auto" /\ r.ports.type # "list" /\ zone # "host"
  <2>1. P = NoPorts
    <3>1. r.zone # zone
      BY <1>6
    <3> QED BY <1>6, <3>1 DEF PortsForZone
  <2> QED BY <1>3, <1>6, <2>1
<1>7. CASE r.zone = zone
  <2>1. P = r.ports
    BY <1>7 DEF PortsForZone
  <2> QED BY <1>1, <1>7, <2>1
<1>8. CASE r.zone # "auto" /\ r.zone # zone
  <2>1. P = NoPorts
    BY <1>8 DEF PortsForZone
  <2> QED BY <1>3, <1>8, <2>1
<1> QED BY <1>4, <1>5, <1>6, <1>7, <1>8

\* An inbound chain: the lines of a rule, given what its sources and port
\* arguments match.
LEMMA InboundLinesFollow ==
  ASSUME NEW F, NEW r \in GoodRules, NEW zone \in {"host", "docker"}, NEW dp,
         NEW sources \in Seq(SUBSET Clauses(F)), NEW args \in Seq(Arguments(F)),
         NEW p, Plausible(p), NEW allow \in Through, NEW n,
         PortsForZone(r, dp, zone).type \in {"list", "range"} =>
            ((\E i \in DOMAIN args : In(args[i].m, p)) <=> HasPort(PortsForZone(r, dp, zone), n))
  PROVE  LET L == InboundLines(r, PortsForZone(r, dp, zone), sources, args, allow)
         IN  /\ L \in Seq(Lines(F))
             /\ Decides(L, p, /\ ~IsOutbound(r)
                              /\ \E i \in DOMAIN sources : In(sources[i], p)
                              /\ Active(r, p) /\ ProtoFits(r, r.ports, p)
                              /\ HasPort(PortsForZone(r, dp, zone), n),
                        RuleSays(r, p))
<1> DEFINE P == PortsForZone(r, dp, zone)
           L == InboundLines(r, P, sources, args, allow)
           D == FlattenSeq([i \in DOMAIN sources |->
                     PortLines(r, sources[i] \cup ScheduleArg(r), P, args, Target(r, allow))])
<1>1. CASE IsOutbound(r) \/ P = NoPorts
  <2>1. L = <<>>
    BY <1>1 DEF InboundLines
  <2>2. Silent(<<>>, p) /\ <<>> \in Seq(Lines(F))
    BY DEF Silent
  <2>3. P = NoPorts => ~HasPort(P, n)
    <3>1. ~HasPort(NoPorts, n)
      <4>1. NoPorts.type = "list" /\ NoPorts.list = <<>> /\ DOMAIN <<>> = {}
        BY DEF NoPorts, PortList, AllPorts
      <4> QED BY <4>1 DEF HasPort, ToSet
    <3> HIDE DEF P
    <3> QED BY <3>1
  <2> HIDE DEF P, L
  <2>4. L \in Seq(Lines(F)) /\ Silent(L, p) /\ ~(~IsOutbound(r) /\ HasPort(P, n))
    BY <1>1, <2>1, <2>2, <2>3
  <2> QED BY <2>4 DEF Decides, L, P
<1>2. CASE ~(IsOutbound(r) \/ P = NoPorts)
  <2>1. L = D
    BY <1>2 DEF InboundLines, Each
  <2>2. P.type \in {"all", "list", "range"} /\ P.type = r.ports.type
    BY <1>2, PortsForZoneFollows
  <2>3. ProtoFits(r, P, p) <=> ProtoFits(r, r.ports, p)
    BY <2>2 DEF ProtoFits
  <2>4. HasPort(P, n) <=> (P.type = "all" \/ \E i \in DOMAIN args : In(args[i].m, p))
    <3>1. P.type = "all" => HasPort(P, n)
      BY DEF HasPort
    <3> QED BY <2>2, <3>1
  <2>5. /\ D \in Seq(Lines(F))
        /\ Decides(D, p, /\ \E i \in DOMAIN sources : In(sources[i], p)
                         /\ Active(r, p) /\ ProtoFits(r, P, p)
                         /\ P.type = "all" \/ \E i \in DOMAIN args : In(args[i].m, p),
                   RuleSays(r, p))
    <3> HIDE DEF P
    <3>1. LET E == FlattenSeq([i \in DOMAIN sources |->
                     PortLines(r, sources[i] \cup ScheduleArg(r), P, args, Target(r, allow))])
          IN  /\ E \in Seq(Lines(F))
              /\ Decides(E, p, /\ \E i \in DOMAIN sources : In(sources[i], p)
                               /\ Active(r, p) /\ ProtoFits(r, P, p)
                               /\ P.type = "all" \/ \E i \in DOMAIN args : In(args[i].m, p),
                         RuleSays(r, p))
      BY SourceLinesFollow
    <3> QED BY <3>1
  <2> HIDE DEF L, D, P
  <2>6. L \in Seq(Lines(F)) /\ Decides(L, p, /\ ~IsOutbound(r)
                              /\ \E i \in DOMAIN sources : In(sources[i], p)
                              /\ Active(r, p) /\ ProtoFits(r, r.ports, p)
                              /\ HasPort(P, n),
                        RuleSays(r, p))
    BY <1>2, <2>1, <2>3, <2>4, <2>5 DEF Decides
  <2> QED BY <2>6 DEF L, P
<1> QED BY <1>1, <1>2

OurPorts == DockerPorts(containers)

LEMMA CoversInbound ==
  ASSUME NEW r \in GoodRules, NEW c \in Inbound, NEW p
  PROVE  Covers(r, c, p) <=>
           /\ r.enabled /\ ~IsOutbound(r) /\ FromPeer(r.source, p.src)
           /\ Active(r, p) /\ ProtoFits(r, r.ports, p)
           /\ HasPort(PortsForZone(r, OurPorts, ZoneOf(c)), PortOf(c, p))
<1>1. ZoneOf(c) \in {"host", "docker"} /\ PeerOf(c, p) = p.src
  BY DEF ZoneOf, PeerOf
<1>2. HasPort(PortsForZone(r, OurPorts, ZoneOf(c)), PortOf(c, p)) <=>
         /\ HasPort(r.ports, PortOf(c, p))
         /\ \/ r.zone = ZoneOf(c)
            \/ /\ r.zone = "auto"
               /\ (r.ports.type = "list" /\ PortOf(c, p) \in OurPorts) <=> (ZoneOf(c) = "docker")
  BY <1>1, PortsForZoneFollows
<1>3. InZone(r, c, PortOf(c, p)) <=>
         \/ r.zone = ZoneOf(c)
         \/ /\ r.zone = "auto"
            /\ (r.ports.type = "list" /\ PortOf(c, p) \in OurPorts) <=> (ZoneOf(c) = "docker")
  BY DEF InZone, OurPorts
<1> QED BY <1>1, <1>2, <1>3 DEF Covers, Active, ProtoFits

LEMMA CoversOutbound ==
  ASSUME NEW r \in GoodRules, NEW c \in {"ZFW-OUT", "ZFW-OUT6", "ZFW-FWD-OUT"}, NEW p
  PROVE  Covers(r, c, p) <=>
           /\ r.enabled /\ IsOutbound(r) /\ r.zone \in {ZoneOf(c), "auto"}
           /\ FromPeer(r.source, p.dst) /\ Active(r, p) /\ ProtoFits(r, r.ports, p)
           /\ HasPort(r.ports, p.dport)
<1>1. c \notin Inbound /\ PeerOf(c, p) = p.dst /\ PortOf(c, p) = p.dport
  BY DEF Inbound, PeerOf, PortOf
<1>2. InZone(r, c, PortOf(c, p)) <=> r.zone \in {ZoneOf(c), "auto"}
  BY <1>1 DEF InZone
<1> QED BY <1>1, <1>2 DEF Covers, Active, ProtoFits

LEMMA RuleParts ==
  ASSUME NEW r \in GoodRules
  PROVE  /\ r.source \in Sources /\ ValidSource(r.source) /\ r.ports \in PortChoices
         /\ r.ports.type \in {"all", "list", "range"}
BY DEF GoodRules, RuleRecords

LEMMA HostLinesFollow ==
  ASSUME NEW r \in GoodRules, NEW p, Plausible(p)
  PROVE  /\ HostLines(r, OurPorts) \in Seq(Lines(V4))
         /\ (r.enabled /\ p.src \in V4) =>
               Decides(HostLines(r, OurPorts), p, Covers(r, "ZFW-IN", p), RuleSays(r, p))
<1> DEFINE P == PortsForZone(r, OurPorts, "host")
           L == HostLines(r, OurPorts)
           S == SourceArgs(r.source, "src")
           A == PortArgs(P)
<1>1. Covers(r, "ZFW-IN", p) <=>
         /\ r.enabled /\ ~IsOutbound(r) /\ FromPeer(r.source, p.src)
         /\ Active(r, p) /\ ProtoFits(r, r.ports, p) /\ HasPort(P, p.dport)
  BY CoversInbound DEF Inbound, ZoneOf, PortOf
<1>2. CASE IsIPv6Source(r.source)
  <2>1. L = <<>> /\ Silent(<<>>, p) /\ <<>> \in Seq(Lines(V4))
    BY <1>2 DEF HostLines, Silent
  <2>2. p.src \in V4 => ~FromPeer(r.source, p.src)
    BY <1>2, RuleParts, Families
  <2> HIDE DEF L, P
  <2>3. L \in Seq(Lines(V4)) /\ Silent(L, p)
    BY <2>1
  <2> QED BY <1>1, <2>2, <2>3 DEF Decides, L
<1>3. CASE ~IsIPv6Source(r.source)
  <2>1. L = InboundLines(r, P, S, A, "ACCEPT")
    BY <1>3 DEF HostLines
  <2>2. /\ S \in Seq(SUBSET Clauses(V4))
        /\ (\E i \in DOMAIN S : In(S[i], p)) <=> FromPeer(r.source, p.src)
    BY <1>3, RuleParts, Families, SourceArgsFollow
  <2>3. P \in PortChoices
    BY PortsForZoneFollows
  <2> HIDE DEF P, S
  <2>4. /\ A \in Seq(Arguments(V4))
        /\ P.type \in {"list", "range"} => ((\E i \in DOMAIN A : In(A[i].m, p)) <=> HasPort(P, p.dport))
    BY <2>3, PortArgsFollow
  <2> HIDE DEF A, L
  <2>5. "ACCEPT" \in Through
    BY DEF Through
  <2>6. LET K == InboundLines(r, PortsForZone(r, OurPorts, "host"), S, A, "ACCEPT")
        IN  /\ K \in Seq(Lines(V4))
            /\ Decides(K, p, /\ ~IsOutbound(r)
                             /\ \E i \in DOMAIN S : In(S[i], p)
                             /\ Active(r, p) /\ ProtoFits(r, r.ports, p)
                             /\ HasPort(PortsForZone(r, OurPorts, "host"), p.dport),
                       RuleSays(r, p))
    BY <2>2, <2>4, <2>5, InboundLinesFollow DEF P
  <2>7. L \in Seq(Lines(V4)) /\ Decides(L, p, /\ ~IsOutbound(r) /\ FromPeer(r.source, p.src)
                             /\ Active(r, p) /\ ProtoFits(r, r.ports, p) /\ HasPort(P, p.dport),
                       RuleSays(r, p))
    BY <2>1, <2>2, <2>6 DEF Decides, P
  <2> QED BY <1>1, <2>7 DEF Decides, L
<1> QED BY <1>2, <1>3

LEMMA DockerLinesFollow ==
  ASSUME NEW r \in GoodRules, NEW p, Plausible(p)
  PROVE  /\ DockerLines(r, OurPorts) \in Seq(Lines(V4))
         /\ (r.enabled /\ p.src \in V4) =>
               Decides(DockerLines(r, OurPorts), p, Covers(r, "DOCKER-USER", p), RuleSays(r, p))
<1> DEFINE P == PortsForZone(r, OurPorts, "docker")
           L == DockerLines(r, OurPorts)
           S == SourceArgs(r.source, "src")
           A == OrigPortArgs(P)
<1>1. Covers(r, "DOCKER-USER", p) <=>
         /\ r.enabled /\ ~IsOutbound(r) /\ FromPeer(r.source, p.src)
         /\ Active(r, p) /\ ProtoFits(r, r.ports, p) /\ HasPort(P, p.orig)
  BY CoversInbound DEF Inbound, ZoneOf, PortOf
<1>2. CASE IsIPv6Source(r.source)
  <2>1. L = <<>> /\ Silent(<<>>, p) /\ <<>> \in Seq(Lines(V4))
    BY <1>2 DEF DockerLines, Silent
  <2>2. p.src \in V4 => ~FromPeer(r.source, p.src)
    BY <1>2, RuleParts, Families
  <2> HIDE DEF L, P
  <2>3. L \in Seq(Lines(V4)) /\ Silent(L, p)
    BY <2>1
  <2> QED BY <1>1, <2>2, <2>3 DEF Decides, L
<1>3. CASE ~IsIPv6Source(r.source)
  <2>1. L = InboundLines(r, P, S, A, "RETURN")
    BY <1>3 DEF DockerLines
  <2>2. /\ S \in Seq(SUBSET Clauses(V4))
        /\ (\E i \in DOMAIN S : In(S[i], p)) <=> FromPeer(r.source, p.src)
    BY <1>3, RuleParts, Families, SourceArgsFollow
  <2>3. P \in PortChoices
    BY PortsForZoneFollows
  <2> HIDE DEF P, S
  <2>4. /\ A \in Seq(Arguments(V4))
        /\ P.type \in {"list", "range"} => ((\E i \in DOMAIN A : In(A[i].m, p)) <=> HasPort(P, p.orig))
    BY <2>3, OrigPortArgsFollow
  <2> HIDE DEF A, L
  <2>5. "RETURN" \in Through
    BY DEF Through
  <2>6. LET K == InboundLines(r, PortsForZone(r, OurPorts, "docker"), S, A, "RETURN")
        IN  /\ K \in Seq(Lines(V4))
            /\ Decides(K, p, /\ ~IsOutbound(r)
                             /\ \E i \in DOMAIN S : In(S[i], p)
                             /\ Active(r, p) /\ ProtoFits(r, r.ports, p)
                             /\ HasPort(PortsForZone(r, OurPorts, "docker"), p.orig),
                       RuleSays(r, p))
    BY <2>2, <2>4, <2>5, InboundLinesFollow DEF P
  <2>7. L \in Seq(Lines(V4)) /\ Decides(L, p, /\ ~IsOutbound(r) /\ FromPeer(r.source, p.src)
                             /\ Active(r, p) /\ ProtoFits(r, r.ports, p) /\ HasPort(P, p.orig),
                       RuleSays(r, p))
    BY <2>1, <2>2, <2>6 DEF Decides, P
  <2> QED BY <1>1, <2>7 DEF Decides, L
<1> QED BY <1>2, <1>3

LEMMA HostLines6Follow ==
  ASSUME NEW r \in GoodRules, NEW p, Plausible(p)
  PROVE  /\ HostLines6(r, OurPorts) \in Seq(Lines(V6))
         /\ (r.enabled /\ p.src \in V6) =>
               Decides(HostLines6(r, OurPorts), p, Covers(r, "ZFW-IN6", p), RuleSays(r, p))
<1> DEFINE P == PortsForZone(r, OurPorts, "host")
           L == HostLines6(r, OurPorts)
           S == Source6Args(r.source, "src")
           A == PortArgs(P)
<1>1. Covers(r, "ZFW-IN6", p) <=>
         /\ r.enabled /\ ~IsOutbound(r) /\ FromPeer(r.source, p.src)
         /\ Active(r, p) /\ ProtoFits(r, r.ports, p) /\ HasPort(P, p.dport)
  BY CoversInbound DEF Inbound, ZoneOf, PortOf
<1>2. L = InboundLines(r, P, S, A, "RETURN")
  BY DEF HostLines6
<1>3. /\ S \in Seq(SUBSET Clauses(V6))
      /\ p.src \in V6 => ((\E i \in DOMAIN S : In(S[i], p)) <=> FromPeer(r.source, p.src))
  BY RuleParts, Source6ArgsFollow
<1>4. P \in PortChoices
  BY PortsForZoneFollows
<1> HIDE DEF P, S
<1>5. /\ A \in Seq(Arguments(V6))
      /\ P.type \in {"list", "range"} => ((\E i \in DOMAIN A : In(A[i].m, p)) <=> HasPort(P, p.dport))
  BY <1>4, PortArgsFollow
<1> HIDE DEF A, L
<1>6. "RETURN" \in Through
  BY DEF Through
<1>7. LET K == InboundLines(r, PortsForZone(r, OurPorts, "host"), S, A, "RETURN")
      IN  /\ K \in Seq(Lines(V6))
          /\ Decides(K, p, /\ ~IsOutbound(r)
                           /\ \E i \in DOMAIN S : In(S[i], p)
                           /\ Active(r, p) /\ ProtoFits(r, r.ports, p)
                           /\ HasPort(PortsForZone(r, OurPorts, "host"), p.dport),
                     RuleSays(r, p))
  BY <1>3, <1>5, <1>6, InboundLinesFollow DEF P
<1>8. /\ L \in Seq(Lines(V6))
      /\ (r.enabled /\ p.src \in V6) => Decides(L, p, Covers(r, "ZFW-IN6", p), RuleSays(r, p))
  BY <1>1, <1>2, <1>3, <1>7 DEF Decides, P
<1> QED BY <1>8 DEF L

\* A rule that is outbound, in one of the chains of its zone.
LEMMA OutLinesFollow ==
  ASSUME NEW F, NEW r \in GoodRules, NEW peers \in Seq(SUBSET Clauses(F)), NEW p, Plausible(p)
  PROVE  /\ OutLines(r, peers) \in Seq(Lines(F))
         /\ Decides(OutLines(r, peers), p,
                    /\ \E i \in DOMAIN peers : In(peers[i], p)
                    /\ Active(r, p) /\ ProtoFits(r, r.ports, p) /\ HasPort(r.ports, p.dport),
                    RuleSays(r, p))
<1> DEFINE A == PortArgs(r.ports)
           L == OutLines(r, peers)
<1>1. /\ A \in Seq(Arguments(F))
      /\ r.ports.type \in {"list", "range"} =>
            ((\E i \in DOMAIN A : In(A[i].m, p)) <=> HasPort(r.ports, p.dport))
  BY RuleParts, PortArgsFollow
<1>2. L = FlattenSeq([i \in DOMAIN peers |->
             PortLines(r, peers[i] \cup ScheduleArg(r), r.ports, A, Target(r, "ACCEPT"))])
  BY DEF OutLines, Each
<1> HIDE DEF A, L
<1>3. "ACCEPT" \in Through
  BY DEF Through
<1>4. LET K == FlattenSeq([i \in DOMAIN peers |->
                  PortLines(r, peers[i] \cup ScheduleArg(r), r.ports, A, Target(r, "ACCEPT"))])
      IN  /\ K \in Seq(Lines(F))
          /\ Decides(K, p, /\ \E i \in DOMAIN peers : In(peers[i], p)
                           /\ Active(r, p) /\ ProtoFits(r, r.ports, p)
                           /\ r.ports.type = "all" \/ \E i \in DOMAIN A : In(A[i].m, p),
                     RuleSays(r, p))
  BY <1>1, <1>3, SourceLinesFollow
<1>5. HasPort(r.ports, p.dport) <=> (r.ports.type = "all" \/ \E i \in DOMAIN A : In(A[i].m, p))
  <2>1. r.ports.type = "all" => HasPort(r.ports, p.dport)
    BY DEF HasPort
  <2> QED BY <1>1, <2>1, RuleParts
<1>6. /\ L \in Seq(Lines(F))
      /\ Decides(L, p, /\ \E i \in DOMAIN peers : In(peers[i], p)
                       /\ Active(r, p) /\ ProtoFits(r, r.ports, p) /\ HasPort(r.ports, p.dport),
                    RuleSays(r, p))
  BY <1>2, <1>4, <1>5 DEF Decides
<1> QED BY <1>6 DEF L

Lines4(r) == IF IsIPv6Source(r.source) THEN <<>> ELSE OutboundLines(r)
Mine(r, zone) == IsOutbound(r) /\ r.zone \in {zone, "auto"}

LEMMA OutboundLinesFollow ==
  ASSUME NEW r \in GoodRules, NEW p, Plausible(p)
  PROVE  /\ Lines4(r) \in Seq(Lines(V4)) /\ OutboundLines6(r) \in Seq(Lines(V6))
         /\ \A c \in {"ZFW-OUT", "ZFW-FWD-OUT"} :
               (r.enabled /\ Mine(r, ZoneOf(c)) /\ p.dst \in V4) =>
                  Decides(Lines4(r), p, Covers(r, c, p), RuleSays(r, p))
         /\ (r.enabled /\ Mine(r, "host") /\ p.dst \in V6) =>
               Decides(OutboundLines6(r), p, Covers(r, "ZFW-OUT6", p), RuleSays(r, p))
<1> DEFINE S == SourceArgs(r.source, "dst")
           S6 == Source6Args(r.source, "dst")
           Rest == Active(r, p) /\ ProtoFits(r, r.ports, p) /\ HasPort(r.ports, p.dport)
<1>1. ASSUME NEW c \in {"ZFW-OUT", "ZFW-FWD-OUT", "ZFW-OUT6"}, r.enabled, Mine(r, ZoneOf(c))
      PROVE  Covers(r, c, p) <=> (FromPeer(r.source, p.dst) /\ Rest)
  BY <1>1, CoversOutbound DEF Mine
<1>2. /\ Lines4(r) \in Seq(Lines(V4))
      /\ p.dst \in V4 => Decides(Lines4(r), p, FromPeer(r.source, p.dst) /\ Rest, RuleSays(r, p))
  <2>1. CASE IsIPv6Source(r.source)
    <3>1. Lines4(r) = <<>> /\ Silent(<<>>, p) /\ <<>> \in Seq(Lines(V4))
      BY <2>1 DEF Lines4, Silent
    <3>2. p.dst \in V4 => ~FromPeer(r.source, p.dst)
      BY <2>1, RuleParts, Families
    <3>3. Silent(Lines4(r), p) /\ Lines4(r) \in Seq(Lines(V4))
      BY <3>1, Zenon
    <3> QED BY <3>2, <3>3 DEF Decides
  <2>2. CASE ~IsIPv6Source(r.source)
    <3>1. Lines4(r) = OutLines(r, S)
      BY <2>2 DEF Lines4, OutboundLines
    <3>2. /\ S \in Seq(SUBSET Clauses(V4))
          /\ (\E i \in DOMAIN S : In(S[i], p)) <=> FromPeer(r.source, p.dst)
      BY <2>2, RuleParts, Families, SourceArgsFollow
    <3> HIDE DEF S
    <3>3. /\ OutLines(r, S) \in Seq(Lines(V4))
          /\ Decides(OutLines(r, S), p, (\E i \in DOMAIN S : In(S[i], p)) /\ Rest, RuleSays(r, p))
      BY <3>2, OutLinesFollow
    <3> HIDE DEF Rest
    <3> QED BY <3>1, <3>2, <3>3 DEF Decides
  <2> QED BY <2>1, <2>2
<1>3. /\ OutboundLines6(r) \in Seq(Lines(V6))
      /\ p.dst \in V6 => Decides(OutboundLines6(r), p, FromPeer(r.source, p.dst) /\ Rest, RuleSays(r, p))
  <2>1. OutboundLines6(r) = OutLines(r, S6)
    BY DEF OutboundLines6
  <2>2. /\ S6 \in Seq(SUBSET Clauses(V6))
        /\ p.dst \in V6 => ((\E i \in DOMAIN S6 : In(S6[i], p)) <=> FromPeer(r.source, p.dst))
    BY RuleParts, Source6ArgsFollow
  <2> HIDE DEF S6
  <2>3. /\ OutLines(r, S6) \in Seq(Lines(V6))
        /\ Decides(OutLines(r, S6), p, (\E i \in DOMAIN S6 : In(S6[i], p)) /\ Rest, RuleSays(r, p))
    BY <2>2, OutLinesFollow
  <2> HIDE DEF Rest
  <2> QED BY <2>1, <2>2, <2>3 DEF Decides
<1> HIDE DEF Rest
<1>4. ZoneOf("ZFW-OUT6") = "host"
  BY DEF ZoneOf
<1> QED BY <1>1, <1>2, <1>3, <1>4 DEF Decides

----------------------------------------------------------------------------
(* The rules of a chain: the first one by order that covers a packet.       *)

Before(rules) ==
  {ij \in (DOMAIN rules) \X (DOMAIN rules) :
     \/ rules[ij[1]].order < rules[ij[2]].order
     \/ rules[ij[1]].order = rules[ij[2]].order /\ ij[1] < ij[2]}
SwitchedOn == {r \in GoodRules : r.enabled}

LEMMA BeforeOrders ==
  ASSUME NEW rules \in Seq(GoodRules)
  PROVE  Orders(Before(rules), DOMAIN rules)
<1> DEFINE D == DOMAIN rules
           o(i) == rules[i].order
           R == Before(rules)
<1>1. D = 1..Len(rules) /\ Len(rules) \in Nat /\ \A i \in D : i \in Nat /\ o(i) \in Int
  <2>1. D = 1..Len(rules) /\ Len(rules) \in Nat /\ \A i \in D : rules[i] \in GoodRules
    OBVIOUS
  <2>2. \A r \in GoodRules : r.order \in Int
    BY DEF GoodRules, RuleRecords
  <2> QED BY <2>1, <2>2
<1>2. \A i, j : <<i, j>> \in R <=> (i \in D /\ j \in D /\ (o(i) < o(j) \/ (o(i) = o(j) /\ i < j)))
  BY DEF Before
<1> HIDE DEF R, o, D
<1>3. \A i \in D : <<i, i>> \notin R
  BY <1>1, <1>2
<1>4. \A i, j \in D : i # j => (<<i, j>> \in R \/ <<j, i>> \in R)
  BY <1>1, <1>2
<1>5. \A i, j, k \in D : (<<i, j>> \in R /\ <<j, k>> \in R) => <<i, k>> \in R
  <2> SUFFICES ASSUME NEW i \in D, NEW j \in D, NEW k \in D, <<i, j>> \in R, <<j, k>> \in R
               PROVE  <<i, k>> \in R
    OBVIOUS
  <2>1. /\ i \in Nat /\ j \in Nat /\ k \in Nat /\ o(i) \in Int /\ o(j) \in Int /\ o(k) \in Int
        /\ o(i) < o(j) \/ (o(i) = o(j) /\ i < j)
        /\ o(j) < o(k) \/ (o(j) = o(k) /\ j < k)
    BY <1>1, <1>2
  <2>2. o(i) < o(k) \/ (o(i) = o(k) /\ i < k)
    BY <2>1
  <2> QED BY <1>2, <2>2
<1> QED BY <1>3, <1>4, <1>5 DEF Orders, R, D

\* Sorted(rules) picks the enabled rules from a list of all of them by order.
LEMMA SortedFacts ==
  ASSUME NEW rules \in Seq(GoodRules)
  PROVE  \E place : /\ Lists(place, DOMAIN rules, Before(rules))
                    /\ Cardinality(DOMAIN rules) = Len(rules) /\ Len(rules) \in Nat
                    /\ Sorted(rules) = Picked([k \in DOMAIN rules |-> rules[place[k]]], SwitchedOn)
<1> DEFINE D == DOMAIN rules
           n == Len(rules)
           R == Before(rules)
           before(i, j) == \/ rules[i].order < rules[j].order
                           \/ rules[i].order = rules[j].order /\ i < j
           place == Ranked(D, before)
           ordered == [k \in D |-> rules[place[k]]]
<1>1. D = 1..n /\ n \in Nat /\ \A i \in D : rules[i] \in GoodRules
  OBVIOUS
<1>2. IsFiniteSet(D) /\ Cardinality(D) = n
  <2>1. IsFiniteSet(1..n) /\ Cardinality(1..n) = n
    <3> HIDE DEF n
    <3> QED BY <1>1, FS_Interval
  <2> QED BY <1>1, <2>1
<1>3. Ranks(place, D, R)
  <2> DEFINE Good(k, x) == Cardinality({y \in D : before(y, x)}) = k - 1
  <2>1. place = [k \in 1..Cardinality(D) |-> CHOOSE x \in D : Good(k, x)]
    BY DEF Ranked
  <2>2. ASSUME NEW k, NEW x \in D PROVE Good(k, x) <=> Cardinality(Below(x, D, R)) = k - 1
    <3>1. \A y \in D : before(y, x) <=> <<y, x>> \in R
      BY DEF Before
    <3>2. {y \in D : before(y, x)} = Below(x, D, R)
      <4> HIDE DEF before, R
      <4> QED BY <3>1 DEF Below
    <3> HIDE DEF before, R
    <3> QED BY <3>2
  <2> HIDE DEF Good, place, R, D
  <2>3. place = [k \in 1..Cardinality(D) |-> place[k]]
    <3> DEFINE e(k) == CHOOSE x \in D : Good(k, x)
    <3>1. place = [k \in 1..Cardinality(D) |-> e(k)]
      BY <2>1
    <3> HIDE DEF e
    <3> QED BY <3>1
  <2>4. ASSUME NEW k \in 1..Cardinality(D), NEW x \in D, Cardinality(Below(x, D, R)) = k - 1
        PROVE  place[k] \in D /\ Cardinality(Below(place[k], D, R)) = k - 1
    <3>1. place[k] = CHOOSE z \in D : Good(k, z)
      <4> DEFINE e(l) == CHOOSE z \in D : Good(l, z)
      <4>1. place = [l \in 1..Cardinality(D) |-> e(l)]
        BY <2>1
      <4>2. place[k] = e(k)
        <5> HIDE DEF e
        <5> QED BY <4>1
      <4> QED BY <4>2
    <3>2. Good(k, x)
      BY <2>2, <2>4
    <3>3. place[k] \in D /\ Good(k, place[k])
      BY <3>1, <3>2, Zenon
    <3> QED BY <2>2, <3>3
  <2> QED BY <2>3, <2>4 DEF Ranks
<1>4. Sorted(rules) = FlattenSeq([k \in DOMAIN ordered |->
                                    IF ordered[k].enabled THEN <<ordered[k]>> ELSE <<>>])
  BY DEF Sorted, Only, Each
<1> HIDE DEF place
<1>5. Lists(place, D, R)
  <2> HIDE DEF D, R
  <2> QED BY <1>2, <1>3, RankedLists, BeforeOrders DEF D, R
<1>6. \A k \in D : place[k] \in D
  <2> HIDE DEF D, R
  <2> QED BY <1>1, <1>2, <1>5 DEF Lists
<1>7. \A k \in DOMAIN ordered : ordered[k] \in GoodRules
  BY <1>1, <1>6
<1> HIDE DEF ordered
<1>8. \A k \in DOMAIN ordered : ordered[k].enabled <=> ordered[k] \in SwitchedOn
  BY <1>7 DEF SwitchedOn
<1>9. [k \in DOMAIN ordered |-> IF ordered[k].enabled THEN <<ordered[k]>> ELSE <<>>]
        = [k \in DOMAIN ordered |-> IF ordered[k] \in SwitchedOn THEN <<ordered[k]>> ELSE <<>>]
  BY <1>8
<1>10. Sorted(rules) = Picked(ordered, SwitchedOn)
  BY <1>4, <1>9, Zenon DEF Picked
<1> HIDE DEF R
<1> QED BY <1>1, <1>2, <1>5, <1>10 DEF ordered, R

Comes(rules, i, j) ==
  rules[i].order < rules[j].order \/ (rules[i].order = rules[j].order /\ i <= j)

\* The lines of all rules say what the first rule that covers p says.
LEMMA RulesDecide ==
  ASSUME NEW rules \in Seq(GoodRules), NEW S, NEW lines \in [GoodRules -> Seq(S)], NEW p,
         NEW Cov \in SUBSET SwitchedOn,
         \A r \in SwitchedOn : Decides(lines[r], p, r \in Cov, RuleSays(r, p))
  PROVE  LET covering == {i \in DOMAIN rules : rules[i] \in Cov}
             first == CHOOSE i \in covering : \A j \in covering : Comes(rules, i, j)
         IN  /\ Map(Sorted(rules), lines) \in Seq(S)
             /\ covering = {} => Silent(Map(Sorted(rules), lines), p)
             /\ covering # {} => /\ first \in covering
                                 /\ Says(Map(Sorted(rules), lines), p, RuleSays(rules[first], p))
<1> DEFINE D == DOMAIN rules
           n == Len(rules)
           covering == {i \in D : rules[i] \in Cov}
           first == CHOOSE i \in covering : \A j \in covering : Comes(rules, i, j)
           M == Map(Sorted(rules), lines)
<1>1. D = 1..n /\ n \in Nat /\ \A i \in D : rules[i] \in GoodRules
  OBVIOUS
<1>2. PICK place : /\ Lists(place, D, Before(rules)) /\ Cardinality(D) = n
                   /\ Sorted(rules) = Picked([k \in D |-> rules[place[k]]], SwitchedOn)
  BY SortedFacts
<1> DEFINE ordered == [k \in D |-> rules[place[k]]]
           s == [k \in 1..n |-> IF ordered[k] \in SwitchedOn THEN lines[ordered[k]] ELSE <<>>]
<1>3. /\ \A k \in D : place[k] \in D
      /\ \A i \in D : \E k \in D : place[k] = i
      /\ \A k, l \in D : k < l => <<place[k], place[l]>> \in Before(rules)
  BY <1>1, <1>2 DEF Lists
<1>4. DOMAIN ordered = 1..n /\ ordered \in Seq(GoodRules) /\ \A k \in 1..n : ordered[k] = rules[place[k]]
  BY <1>1, <1>3
<1>5. M = FlattenSeq(s)
  <2>1. Map(Picked(ordered, SwitchedOn), lines) = MapPicked(ordered, SwitchedOn, lines)
    <3> HIDE DEF ordered
    <3> QED BY <1>4, PickedFacts
  <2>2. MapPicked(ordered, SwitchedOn, lines) = FlattenSeq(s)
    <3> HIDE DEF ordered
    <3> QED BY <1>4, Zenon DEF MapPicked
  <2>3. M = Map(Picked(ordered, SwitchedOn), lines)
    BY <1>2, Zenon
  <2> HIDE DEF M, s, ordered
  <2> QED BY <2>1, <2>2, <2>3
<1> HIDE DEF M
<1>6. s \in [1..n -> Seq(S)]
  <2>1. \A k \in 1..n : s[k] \in Seq(S)
    <3> HIDE DEF ordered
    <3>1. \A k \in 1..n : ordered[k] \in GoodRules
      BY <1>4
    <3>2. <<>> \in Seq(S)
      OBVIOUS
    <3> QED BY <3>1, <3>2
  <2> DEFINE e(k) == IF ordered[k] \in SwitchedOn THEN lines[ordered[k]] ELSE <<>>
  <2>2. s = [k \in 1..n |-> e(k)]
    OBVIOUS
  <2> HIDE DEF s, e
  <2> QED BY <2>1, <2>2
<1>7. s \in Seq(Seq(S)) /\ DOMAIN s = 1..n
  <2>1. n \in Nat
    BY <1>1
  <2> HIDE DEF s, n
  <2> QED BY <1>6, <2>1
<1>8. FlattenSeq(s) \in Seq(S)
  BY <1>7, FlattenType
<1>9. ASSUME NEW k \in 1..n
      PROVE  /\ place[k] \notin covering => Silent(s[k], p)
             /\ place[k] \in covering => Says(s[k], p, RuleSays(rules[place[k]], p))
  <2>1. place[k] \in covering <=> ordered[k] \in Cov
    <3> HIDE DEF ordered
    <3> QED BY <1>1, <1>3, <1>4
  <2>2. s[k] = IF ordered[k] \in SwitchedOn THEN lines[ordered[k]] ELSE <<>>
    OBVIOUS
  <2> HIDE DEF s, ordered, covering
  <2>3. CASE ordered[k] \in SwitchedOn
    BY <1>4, <2>1, <2>2, <2>3 DEF Decides
  <2>4. CASE ordered[k] \notin SwitchedOn
    <3>1. s[k] = <<>> /\ Silent(<<>>, p)
      BY <2>2, <2>4 DEF Silent
    <3>2. Silent(s[k], p)
      BY <3>1, Zenon
    <3> QED BY <2>1, <2>4, <3>2
  <2> QED BY <2>3, <2>4
<1>10. CASE covering = {}
  <2>1. Silent(FlattenSeq(s), p)
    <3> HIDE DEF s, covering
    <3> QED BY <1>7, <1>9, <1>10, SilentFlatten
  <2> QED BY <1>5, <1>8, <1>10, <2>1 DEF M
<1>11. CASE covering # {}
  <2> DEFINE K == {k \in 1..n : place[k] \in covering}
  <2>1. K \subseteq Nat /\ K # {}
    <3>1. PICK i \in covering : TRUE
      BY <1>11
    <3>2. PICK k \in D : place[k] = i
      BY <1>3
    <3> QED BY <1>1, <3>2
  <2>2. PICK k \in K : \A j \in K : k <= j
    <3> HIDE DEF K
    <3> QED BY <2>1, Least
  <2>3. k \in 1..n /\ place[k] \in covering
    OBVIOUS
  <2>4. ASSUME NEW j \in covering PROVE Comes(rules, place[k], j)
    <3>1. PICK l \in D : place[l] = j
      BY <1>3
    <3>2. l \in K /\ k <= l /\ l \in 1..n
      BY <1>1, <2>2, <3>1
    <3>3. CASE k = l
      <4>1. j \in D /\ place[k] = j /\ j \in Nat
        BY <1>1, <3>1, <3>3
      <4>2. rules[j].order = rules[j].order /\ j <= j
        BY <4>1
      <4> QED BY <4>1, <4>2 DEF Comes
    <3>4. CASE k # l
      <4>1. k < l
        BY <3>2, <3>4, <2>3
      <4>2. <<place[k], j>> \in Before(rules)
        BY <1>1, <1>3, <2>3, <3>1, <4>1
      <4>3. place[k] \in Nat /\ j \in Nat
        BY <1>1, <2>3
      <4> QED BY <4>2, <4>3 DEF Before, Comes
    <3> QED BY <3>3, <3>4
  <2>5. first \in covering /\ \A j \in covering : Comes(rules, first, j)
    <3> HIDE DEF covering, K
    <3> QED BY <2>3, <2>4
  <2> HIDE DEF first
  <2>6. first = place[k]
    <3> DEFINE b == place[k]
    <3>1. b \in D /\ first \in D /\ Comes(rules, b, first) /\ Comes(rules, first, b)
      BY <2>3, <2>4, <2>5
    <3> HIDE DEF b
    <3>2. \A r \in GoodRules : r.order \in Int
      BY DEF GoodRules, RuleRecords
    <3>3. rules[b].order \in Int /\ rules[first].order \in Int /\ b \in Nat /\ first \in Nat
      BY <1>1, <3>1, <3>2
    <3>4. b = first
      BY <3>1, <3>3 DEF Comes
    <3> QED BY <3>4 DEF b
  <2>7. \A j \in 1..(k-1) : Silent(s[j], p)
    <3> SUFFICES ASSUME NEW j \in 1..(k-1) PROVE Silent(s[j], p)
      OBVIOUS
    <3>1. j \in 1..n /\ ~(k <= j)
      BY <1>1, <2>3
    <3>2. j \notin K
      <4> HIDE DEF K
      <4> QED BY <2>2, <3>1
    <3> HIDE DEF s, covering
    <3> QED BY <1>9, <3>1, <3>2
  <2>8. Says(s[k], p, RuleSays(rules[first], p))
    <3> HIDE DEF s, covering, K
    <3> QED BY <1>9, <2>3, <2>6
  <2>9. Says(FlattenSeq(s), p, RuleSays(rules[first], p))
    <3> HIDE DEF s, covering, K
    <3> QED BY <1>7, <2>3, <2>7, <2>8, SaysFlatten
  <2>10. /\ M \in Seq(S) /\ first \in covering
         /\ Says(M, p, RuleSays(rules[first], p))
    BY <1>5, <1>8, <2>5, <2>9, Zenon
  <2> QED BY <1>11, <2>10 DEF M, first
<1> QED BY <1>10, <1>11

----------------------------------------------------------------------------
(* Whole chains: a bypass, the lines of the rules, and an end.              *)

Covering(rules, c, p) == {i \in DOMAIN rules : Covers(rules[i], c, p)}
First(rules, c, p) ==
  CHOOSE i \in Covering(rules, c, p) : \A j \in Covering(rules, c, p) : Comes(rules, i, j)
Follows(M, rules, c, p) ==
  /\ Covering(rules, c, p) = {} => Silent(M, p)
  /\ Covering(rules, c, p) # {} => Says(M, p, RuleSays(rules[First(rules, c, p)], p))

LEMMA RulesFollow ==
  ASSUME NEW rules \in Seq(GoodRules), NEW c, NEW p, NEW S, NEW lines \in [GoodRules -> Seq(S)],
         \A r \in SwitchedOn : Decides(lines[r], p, Covers(r, c, p), RuleSays(r, p))
  PROVE  /\ Map(Sorted(rules), lines) \in Seq(S)
         /\ Follows(Map(Sorted(rules), lines), rules, c, p)
<1> DEFINE Cov == {r \in SwitchedOn : Covers(r, c, p)}
           covering == {i \in DOMAIN rules : rules[i] \in Cov}
<1>1. covering = Covering(rules, c, p)
  <2>1. ASSUME NEW i \in DOMAIN rules PROVE rules[i] \in Cov <=> Covers(rules[i], c, p)
    <3>1. rules[i] \in GoodRules
      OBVIOUS
    <3>2. Covers(rules[i], c, p) => rules[i].enabled
      BY DEF Covers
    <3> QED BY <3>1, <3>2 DEF SwitchedOn
  <2> HIDE DEF Cov
  <2> QED BY <2>1 DEF Covering
<1>2. Cov \in SUBSET SwitchedOn
  OBVIOUS
<1>3. \A r \in SwitchedOn : Decides(lines[r], p, r \in Cov, RuleSays(r, p))
  <2> SUFFICES ASSUME NEW r \in SwitchedOn PROVE Decides(lines[r], p, r \in Cov, RuleSays(r, p))
    OBVIOUS
  <2>1. Covers(r, c, p) <=> r \in Cov
    OBVIOUS
  <2> HIDE DEF Cov
  <2>2. Decides(lines[r], p, Covers(r, c, p), RuleSays(r, p))
    OBVIOUS
  <2> QED BY <2>1, <2>2 DEF Decides
<1> DEFINE first == CHOOSE i \in covering : \A j \in covering : Comes(rules, i, j)
           M == Map(Sorted(rules), lines)
<1>4. /\ M \in Seq(S)
      /\ covering = {} => Silent(M, p)
      /\ covering # {} => Says(M, p, RuleSays(rules[first], p))
  <2> HIDE DEF Cov
  <2>1. LET cov == {i \in DOMAIN rules : rules[i] \in Cov}
            fst == CHOOSE i \in cov : \A j \in cov : Comes(rules, i, j)
        IN  /\ Map(Sorted(rules), lines) \in Seq(S)
            /\ cov = {} => Silent(Map(Sorted(rules), lines), p)
            /\ cov # {} => /\ fst \in cov
                           /\ Says(Map(Sorted(rules), lines), p, RuleSays(rules[fst], p))
    BY <1>2, <1>3, RulesDecide
  <2> QED BY <2>1, Zenon
<1>5. first = First(rules, c, p)
  <2> HIDE DEF covering
  <2> QED BY <1>1, Zenon DEF First
<1> HIDE DEF covering, first, M
<1> QED BY <1>1, <1>4, <1>5, Zenon DEF Follows, M

LEMMA Associative ==
  ASSUME NEW S, NEW A \in Seq(S), NEW B \in Seq(S), NEW C \in Seq(S)
  PROVE  (A \o B) \o C = A \o (B \o C)
OBVIOUS

\* When all lines that stop a packet have targets of V, that is the verdict.
LEMMA SaysAny ==
  ASSUME NEW S, NEW L \in Seq(S), NEW p, NEW V,
         \A i \in DOMAIN L : Stops(L[i], p) => L[i].to \in V
  PROVE  /\ (\E i \in DOMAIN L : Stops(L[i], p)) => Says(L, p, V)
         /\ (\A i \in DOMAIN L : ~Stops(L[i], p)) => Silent(L, p)
<1>1. (\A i \in DOMAIN L : ~Stops(L[i], p)) => Silent(L, p)
  BY DEF Silent
<1>2. ASSUME NEW k \in DOMAIN L, Stops(L[k], p) PROVE Says(L, p, V)
  <2> DEFINE K == {i \in DOMAIN L : Stops(L[i], p)}
  <2>1. K \subseteq Nat /\ K # {}
    BY <1>2
  <2>2. PICK i \in K : \A j \in K : i <= j
    <3> HIDE DEF K
    <3> QED BY <2>1, Least
  <2>3. ASSUME NEW j \in 1..(i-1) PROVE ~Stops(L[j], p)
    <3>1. j \in DOMAIN L /\ ~(i <= j)
      BY <2>1
    <3> QED BY <2>2, <3>1
  <2> QED BY <2>2, <2>3 DEF Says
<1> QED BY <1>1, <1>2

\* The three parts of a chain together.
Verdict(invalid, essential, byPolicy, rules, c, p) ==
  /\ ~invalid
  /\ \/ essential
     \/ Covering(rules, c, p) = {} /\ byPolicy
     \/ Covering(rules, c, p) # {} /\ ByRule(rules[First(rules, c, p)], p)
Bypasses(A, p, invalid, essential) ==
  /\ invalid => Says(A, p, Dropped)
  /\ (~invalid /\ essential) => Says(A, p, Through)
  /\ (~invalid /\ ~essential) => Silent(A, p)

LEMMA WholeChain ==
  ASSUME NEW S, NEW A \in Seq(S), NEW M \in Seq(S), NEW T \in Seq(S), NEW p, NEW c, NEW rules,
         NEW invalid, NEW essential, NEW byPolicy,
         Bypasses(A, p, invalid, essential), Follows(M, rules, c, p),
         Says(T, p, IF byPolicy THEN Through ELSE Dropped)
  PROVE  /\ A \o M \o T \in Seq(S)
         /\ Passes(A \o M \o T, p) <=> Verdict(invalid, essential, byPolicy, rules, c, p)
<1> DEFINE chain == A \o M \o T
           rule == rules[First(rules, c, p)]
<1>1. chain \in Seq(S) /\ A \o M \in Seq(S) /\ Len(chain) \in Nat /\ DOMAIN chain = 1..Len(chain)
  OBVIOUS
<1>2. \A V : Says(A, p, V) => Says(chain, p, V)
  BY SaysFirst, <1>1
<1>3. \A V : (Silent(A, p) /\ Says(M, p, V)) => Says(chain, p, V)
  BY SaysFirst, SaysSecond, <1>1
<1>4. \A V : (Silent(A, p) /\ Silent(M, p) /\ Says(T, p, V)) => Says(chain, p, V)
  BY SilentConcat, SaysSecond, <1>1
<1>5. (Says(chain, p, Through) => Passes(chain, p) = TRUE)
      /\ (Says(chain, p, Dropped) => Passes(chain, p) = FALSE)
  <2> HIDE DEF chain
  <2> DEFINE n == Len(chain)
  <2>1. n \in Nat /\ DOMAIN chain = 1..n
    BY <1>1
  <2> HIDE DEF n
  <2> QED BY <2>1, PassesSays
<1> SUFFICES Passes(chain, p) <=> Verdict(invalid, essential, byPolicy, rules, c, p)
  BY <1>1, Zenon
<1> HIDE DEF chain
<1>6. CASE invalid
  BY <1>2, <1>5, <1>6, Zenon DEF Bypasses, Verdict
<1>7. CASE ~invalid /\ essential
  BY <1>2, <1>5, <1>7, Zenon DEF Bypasses, Verdict
<1>8. CASE ~invalid /\ ~essential /\ Covering(rules, c, p) = {}
  <2>1. Says(chain, p, IF byPolicy THEN Through ELSE Dropped)
    BY <1>4, <1>8, Zenon DEF Bypasses, Follows
  <2>2. CASE byPolicy
    BY <1>5, <1>8, <2>1, <2>2, Zenon DEF Verdict
  <2>3. CASE ~byPolicy
    BY <1>5, <1>8, <2>1, <2>3, Zenon DEF Verdict
  <2> QED BY <2>2, <2>3, Zenon
<1>9. CASE ~invalid /\ ~essential /\ Covering(rules, c, p) # {}
  <2>1. Says(chain, p, RuleSays(rule, p))
    BY <1>3, <1>9, Zenon DEF Bypasses, Follows
  <2>2. CASE ByRule(rule, p)
    BY <1>5, <1>9, <2>1, <2>2, Zenon DEF Verdict, RuleSays
  <2>3. CASE ~ByRule(rule, p)
    BY <1>5, <1>9, <2>1, <2>3, Zenon DEF Verdict, RuleSays
  <2> QED BY <2>2, <2>3, Zenon
<1> QED BY <1>6, <1>7, <1>8, <1>9, Zenon

----------------------------------------------------------------------------
(* The lines of the chains that are not the rules'.                         *)

LEMMA LineFollows ==
  ASSUME NEW F, NEW m, NEW to
  PROVE  /\ (m \in SUBSET Clauses(F) /\ to \in {"ACCEPT", "RETURN", "DROP", "SET", "LOG"}) =>
               Line(m, to) \in Lines(F)
         /\ Line(m, to).to = to
         /\ \A p : Stops(Line(m, to), p) <=> (to \notin {"SET", "LOG"} /\ In(m, p))
<1>1. MaxMultiport \in Nat \ {0}
  BY CompilerAssumption
<1> QED BY <1>1, StopsIn DEF Line, Lines

\* The values that the chains match beside the rules'.
LEMMA FixedClauses ==
  ASSUME NEW F
  PROVE  /\ \A v \in {"ESTABLISHED", "INVALID", "NEW"} : Is("ct", {v}) \in SUBSET Clauses(F)
         /\ Is("iface", Bridges \cup Tunnels) \in SUBSET Clauses(F)
         /\ Is("iface", Tunnels) \in SUBSET Clauses(F)
         /\ Is("iface", {"lo"}) \in SUBSET Clauses(F)
         /\ \A v \in {"tcp", "udp", "icmp", "ipv6-icmp"} : Is("proto", {v}) \in SUBSET Clauses(F)
         /\ \A v \in SUBSET Int : Is("dport", v) \in SUBSET Clauses(F)
         /\ \A v \in SUBSET F : Is("src", v) \in SUBSET Clauses(F)
         /\ Anything \in SUBSET Clauses(F)
<1>1. /\ \A v \in {"ESTABLISHED", "INVALID", "NEW", "tcp", "udp", "icmp", "ipv6-icmp"} :
            {v} \in SUBSET Values
      /\ Bridges \cup Tunnels \in SUBSET Values /\ Tunnels \in SUBSET Values
      /\ \A v \in SUBSET Int : v \in SUBSET Values
      /\ {"lo"} \in SUBSET Values
  BY DEF Values, Bridges
<1>2. ASSUME NEW v \in SUBSET Values
      PROVE  /\ Is("ct", v) \in SUBSET Clauses(F) /\ Is("iface", v) \in SUBSET Clauses(F)
             /\ Is("proto", v) \in SUBSET Clauses(F) /\ Is("dport", v) \in SUBSET Clauses(F)
  BY IsType
<1>3. Anything \in SUBSET Clauses(F) /\ \A v \in SUBSET F : Is("src", v) \in SUBSET Clauses(F)
  BY IsType
<1>4. /\ \A v \in {"ESTABLISHED", "INVALID", "NEW"} : Is("ct", {v}) \in SUBSET Clauses(F)
      /\ \A v \in {"tcp", "udp", "icmp", "ipv6-icmp"} : Is("proto", {v}) \in SUBSET Clauses(F)
  BY <1>1, <1>2
<1> QED BY <1>1, <1>2, <1>3, <1>4, Zenon

\* A bypass whose second line drops, and whose other lines let through.
LEMMA BypassFollows ==
  ASSUME NEW S, NEW L \in Seq(S), NEW p, 2 \in DOMAIN L, L[2].to = "DROP",
         \A i \in DOMAIN L : i # 2 => L[i].to \in Through,
         Stops(L[2], p) => ~Stops(L[1], p)
  PROVE  /\ Stops(L[2], p) => Says(L, p, Dropped)
         /\ ~Stops(L[2], p) =>
               /\ (\E i \in DOMAIN L : i # 2 /\ Stops(L[i], p)) => Says(L, p, Through)
               /\ ~(\E i \in DOMAIN L : i # 2 /\ Stops(L[i], p)) => Silent(L, p)
<1>1. CASE Stops(L[2], p)
  <2>1. \A j \in 1..(2-1) : ~Stops(L[j], p)
    BY <1>1
  <2>2. Says(L, p, Dropped)
    BY <1>1, <2>1 DEF Says, Dropped
  <2> QED BY <1>1, <2>2
<1>2. CASE ~Stops(L[2], p)
  <2>1. \A i \in DOMAIN L : Stops(L[i], p) => (i # 2 /\ L[i].to \in Through)
    BY <1>2
  <2>2. /\ (\E i \in DOMAIN L : Stops(L[i], p)) => Says(L, p, Through)
        /\ (\A i \in DOMAIN L : ~Stops(L[i], p)) => Silent(L, p)
    BY <2>1, SaysAny
  <2> QED BY <1>2, <2>1, <2>2, Zenon
<1> QED BY <1>1, <1>2

LEMMA HostBypassFollows ==
  ASSUME NEW p
  PROVE  /\ HostBypass \in Seq(Lines(V4))
         /\ Bypasses(HostBypass, p, p.ct = "INVALID", Essential("ZFW-IN", p))
<1> DEFINE m1 == Is("ct", {"ESTABLISHED"})
           m2 == Is("ct", {"INVALID"})
           m3 == Is("iface", Bridges \cup Tunnels)
           m4 == Is("proto", {"icmp"})
           m5 == Is("proto", {"udp"}) \cup Is("dport", {68, 41641, 9993})
           L == HostBypass
<1> SUFFICES /\ L \in Seq(Lines(V4))
             /\ Bypasses(L, p, p.ct = "INVALID", Essential("ZFW-IN", p))
  OBVIOUS
<1>1. {m1, m2, m3, m4, m5} \subseteq SUBSET Clauses(V4)
  <2>1. m1 \in SUBSET Clauses(V4) /\ m2 \in SUBSET Clauses(V4) /\ m3 \in SUBSET Clauses(V4)
        /\ m4 \in SUBSET Clauses(V4)
    BY FixedClauses
  <2>2. m5 \in SUBSET Clauses(V4)
    BY FixedClauses, IsType
  <2> HIDE DEF m1, m2, m3, m4, m5
  <2> QED BY <2>1, <2>2
<1>2. /\ In(m1, p) <=> p.ct = "ESTABLISHED"
      /\ In(m2, p) <=> p.ct = "INVALID"
      /\ In(m3, p) <=> p.iface \in Bridges \cup Tunnels
      /\ In(m4, p) <=> p.proto = "icmp"
      /\ In(m5, p) <=> (p.proto = "udp" /\ p.dport \in {68, 41641, 9993})
  <2>1. In(m1, p) <=> p.ct = "ESTABLISHED"
    BY InFacts DEF In, Is
  <2>2. In(m2, p) <=> p.ct = "INVALID"
    BY InFacts DEF In, Is
  <2>3. In(m3, p) <=> p.iface \in Bridges \cup Tunnels
    BY InFacts DEF In, Is
  <2>4. In(m4, p) <=> p.proto = "icmp"
    BY InFacts DEF In, Is
  <2>5. In(m5, p) <=> (p.proto = "udp" /\ p.dport \in {68, 41641, 9993})
    BY InFacts DEF In, Is
  <2> HIDE DEF m1, m2, m3, m4, m5
  <2> QED BY <2>1, <2>2, <2>3, <2>4, <2>5
<1>3. L = <<Line(m1, "ACCEPT"), Line(m2, "DROP"), Line(m3, "ACCEPT"), Line(m4, "ACCEPT"),
            Line(m5, "ACCEPT")>>
  BY DEF HostBypass
<1> HIDE DEF m1, m2, m3, m4, m5, L
<1>4. L \in Seq(Lines(V4)) /\ DOMAIN L = 1..5
  BY <1>1, <1>3, LineFollows
<1>5. /\ Stops(L[1], p) <=> p.ct = "ESTABLISHED"
      /\ Stops(L[2], p) <=> p.ct = "INVALID"
      /\ Stops(L[3], p) <=> p.iface \in Bridges \cup Tunnels
      /\ Stops(L[4], p) <=> p.proto = "icmp"
      /\ Stops(L[5], p) <=> (p.proto = "udp" /\ p.dport \in {68, 41641, 9993})
  BY <1>2, <1>3, LineFollows
<1>6. \A i \in {1, 3, 4, 5} : L[i].to = "ACCEPT"
  BY <1>3, LineFollows
<1>7. L[2].to = "DROP"
  BY <1>3, LineFollows
<1>8. /\ Stops(L[2], p) => Says(L, p, Dropped)
      /\ ~Stops(L[2], p) =>
            /\ (\E i \in DOMAIN L : i # 2 /\ Stops(L[i], p)) => Says(L, p, Through)
            /\ ~(\E i \in DOMAIN L : i # 2 /\ Stops(L[i], p)) => Silent(L, p)
  <2>1. \A i \in DOMAIN L : i # 2 => L[i].to \in Through
    BY <1>4, <1>6 DEF Through
  <2>2. Stops(L[2], p) => ~Stops(L[1], p)
    BY <1>5
  <2> QED BY <1>4, <1>7, <2>1, <2>2, BypassFollows
<1>9. (\E i \in DOMAIN L : i # 2 /\ Stops(L[i], p)) <=> Essential("ZFW-IN", p)
  <2>1. (\E i \in DOMAIN L : i # 2 /\ Stops(L[i], p))
          <=> (Stops(L[1], p) \/ Stops(L[3], p) \/ Stops(L[4], p) \/ Stops(L[5], p))
    BY <1>4
  <2>2. Essential("ZFW-IN", p) <=> (Stops(L[1], p) \/ Stops(L[3], p) \/ Stops(L[4], p) \/ Stops(L[5], p))
    BY <1>5 DEF Essential, Inbound
  <2> QED BY <2>1, <2>2, Zenon
<1>10. Stops(L[2], p) <=> p.ct = "INVALID"
  BY <1>5
<1> QED BY <1>4, <1>8, <1>9, <1>10, Zenon DEF Bypasses

LEMMA V6BypassFollows ==
  ASSUME NEW p
  PROVE  /\ V6Bypass \in Seq(Lines(V6))
         /\ Bypasses(V6Bypass, p, p.ct = "INVALID", Essential("ZFW-IN6", p))
<1> DEFINE m1 == Is("ct", {"ESTABLISHED"})
           m2 == Is("ct", {"INVALID"})
           m3 == Is("iface", Bridges \cup Tunnels)
           m4 == Is("proto", {"ipv6-icmp"})
           m5 == Is("proto", {"udp"}) \cup Is("dport", {546})
           m6 == Is("src", Unroutable6)
           L == V6Bypass
<1> SUFFICES /\ L \in Seq(Lines(V6))
             /\ Bypasses(L, p, p.ct = "INVALID", Essential("ZFW-IN6", p))
  OBVIOUS
<1>1. {m1, m2, m3, m4, m5, m6} \subseteq SUBSET Clauses(V6)
  <2>1. Unroutable6 \in SUBSET V6
    BY CompilerAssumption
  <2>2. m1 \in SUBSET Clauses(V6) /\ m2 \in SUBSET Clauses(V6) /\ m3 \in SUBSET Clauses(V6)
    BY FixedClauses
  <2>3. m4 \in SUBSET Clauses(V6) /\ m6 \in SUBSET Clauses(V6)
    BY <2>1, FixedClauses
  <2>4. m5 \in SUBSET Clauses(V6)
    BY FixedClauses, IsType
  <2> HIDE DEF m1, m2, m3, m4, m5, m6
  <2> QED BY <2>2, <2>3, <2>4
<1>2. /\ In(m1, p) <=> p.ct = "ESTABLISHED"
      /\ In(m2, p) <=> p.ct = "INVALID"
      /\ In(m3, p) <=> p.iface \in Bridges \cup Tunnels
      /\ In(m4, p) <=> p.proto = "ipv6-icmp"
      /\ In(m5, p) <=> (p.proto = "udp" /\ p.dport = 546)
      /\ In(m6, p) <=> p.src \in Unroutable6
  <2>1. In(m1, p) <=> p.ct = "ESTABLISHED"
    BY InFacts DEF In, Is
  <2>2. In(m2, p) <=> p.ct = "INVALID"
    BY InFacts DEF In, Is
  <2>3. In(m3, p) <=> p.iface \in Bridges \cup Tunnels
    BY InFacts DEF In, Is
  <2>4. In(m4, p) <=> p.proto = "ipv6-icmp"
    BY InFacts DEF In, Is
  <2>5. In(m5, p) <=> (p.proto = "udp" /\ p.dport = 546)
    BY InFacts DEF In, Is
  <2>6. In(m6, p) <=> p.src \in Unroutable6
    BY InFacts DEF In, Is
  <2> HIDE DEF m1, m2, m3, m4, m5, m6
  <2> QED BY <2>1, <2>2, <2>3, <2>4, <2>5, <2>6, Zenon
<1>3. L = <<Line(m1, "RETURN"), Line(m2, "DROP"), Line(m3, "RETURN"), Line(m4, "RETURN"),
            Line(m5, "RETURN"), Line(m6, "RETURN")>>
  BY DEF V6Bypass
<1> HIDE DEF m1, m2, m3, m4, m5, m6, L
<1>4. L \in Seq(Lines(V6)) /\ DOMAIN L = 1..6
  BY <1>1, <1>3, LineFollows
<1>5. /\ Stops(L[1], p) <=> p.ct = "ESTABLISHED"
      /\ Stops(L[2], p) <=> p.ct = "INVALID"
      /\ Stops(L[3], p) <=> p.iface \in Bridges \cup Tunnels
      /\ Stops(L[4], p) <=> p.proto = "ipv6-icmp"
      /\ Stops(L[5], p) <=> (p.proto = "udp" /\ p.dport = 546)
      /\ Stops(L[6], p) <=> p.src \in Unroutable6
  BY <1>2, <1>3, LineFollows
<1>6. \A i \in {1, 3, 4, 5, 6} : L[i].to = "RETURN"
  BY <1>3, LineFollows
<1>7. L[2].to = "DROP"
  BY <1>3, LineFollows
<1>8. /\ Stops(L[2], p) => Says(L, p, Dropped)
      /\ ~Stops(L[2], p) =>
            /\ (\E i \in DOMAIN L : i # 2 /\ Stops(L[i], p)) => Says(L, p, Through)
            /\ ~(\E i \in DOMAIN L : i # 2 /\ Stops(L[i], p)) => Silent(L, p)
  <2>1. \A i \in DOMAIN L : i # 2 => L[i].to \in Through
    BY <1>4, <1>6 DEF Through
  <2>2. Stops(L[2], p) => ~Stops(L[1], p)
    BY <1>5
  <2> QED BY <1>4, <1>7, <2>1, <2>2, BypassFollows
<1>9. (\E i \in DOMAIN L : i # 2 /\ Stops(L[i], p)) <=> Essential("ZFW-IN6", p)
  <2>1. (\E i \in DOMAIN L : i # 2 /\ Stops(L[i], p))
          <=> (Stops(L[1], p) \/ Stops(L[3], p) \/ Stops(L[4], p) \/ Stops(L[5], p) \/ Stops(L[6], p))
    BY <1>4
  <2>2. Essential("ZFW-IN6", p) <=> (Stops(L[1], p) \/ Stops(L[3], p) \/ Stops(L[4], p) \/ Stops(L[5], p) \/ Stops(L[6], p))
    BY <1>5 DEF Essential, Inbound
  <2> QED BY <2>1, <2>2, Zenon
<1>10. Stops(L[2], p) <=> p.ct = "INVALID"
  BY <1>5
<1> QED BY <1>4, <1>8, <1>9, <1>10, Zenon DEF Bypasses

\* A rule set that has been validated and bound to the containers.
GoodRuleSets ==
  [lan : SUBSET V4, hostIP : SUBSET V4, policy : {"deny", "allow"}, v6Drop : Seq(Int),
   rules : Seq(GoodRules)]

\* It says what rulesJSON says beside the rules.
Serves(rs) ==
  /\ rs \in GoodRuleSets
  /\ rs.lan = rulesJSON.lan /\ rs.hostIP = rulesJSON.hostIP
  /\ rs.policy = rulesJSON.policy /\ rs.v6Drop = rulesJSON.v6Drop

LEMMA Tuples ==
  ASSUME NEW S, NEW a \in S, NEW b \in S, NEW c \in S, NEW d \in S
  PROVE  /\ <<a, b>> \o <<>> \o <<d>> = <<a, b, d>>
         /\ <<a, b>> \o <<c>> \o <<d>> = <<a, b, c, d>>
<1>1. <<a, b>> \o <<>> = <<a, b>>
  OBVIOUS
<1>2. ASSUME NEW x \in S PROVE <<a, b>> \o <<x>> = <<a, b, x>>
  <2> DEFINE u == <<a, b>> \o <<x>>
             v == <<a, b, x>>
  <2>1. u \in Seq(S) /\ Len(u) = 3 /\ u[1] = a /\ u[2] = b /\ u[3] = x
    BY ConcatProperties
  <2>2. v \in Seq(S) /\ Len(v) = 3 /\ v[1] = a /\ v[2] = b /\ v[3] = x
    OBVIOUS
  <2> HIDE DEF u, v
  <2>3. \A i \in 1..3 : u[i] = v[i]
    BY <2>1, <2>2
  <2>4. u = v
    BY <2>1, <2>2, <2>3, SeqEqual
  <2> QED BY <2>4 DEF u, v
<1>3. <<a, b, c>> \o <<d>> = <<a, b, c, d>>
  <2> DEFINE u == <<a, b, c>> \o <<d>>
             v == <<a, b, c, d>>
  <2>1. u \in Seq(S) /\ Len(u) = 4 /\ u[1] = a /\ u[2] = b /\ u[3] = c /\ u[4] = d
    BY ConcatProperties
  <2>2. v \in Seq(S) /\ Len(v) = 4 /\ v[1] = a /\ v[2] = b /\ v[3] = c /\ v[4] = d
    OBVIOUS
  <2> HIDE DEF u, v
  <2>3. \A i \in 1..4 : u[i] = v[i]
    BY <2>1, <2>2
  <2>4. u = v
    BY <2>1, <2>2, <2>3, SeqEqual
  <2> QED BY <2>4 DEF u, v
<1>4. <<a, b>> \o <<d>> = <<a, b, d>> /\ <<a, b>> \o <<c>> = <<a, b, c>>
  BY <1>2, Zenon
<1> QED BY <1>1, <1>3, <1>4, Zenon

LEMMA DockerBypassFollows ==
  ASSUME NEW p, NEW rs, Serves(rs)
  PROVE  /\ DockerBypass(rs) \in Seq(Lines(V4))
         /\ Bypasses(DockerBypass(rs), p, FALSE, Essential("DOCKER-USER", p))
<1> DEFINE m1 == Is("ct", {"ESTABLISHED"})
           m2 == Is("src", Loopback4)
           m3 == Is("src", rs.hostIP)
           m4 == Is("iface", Tunnels)
           L == DockerBypass(rs)
<1>1. {m1, m2, m3, m4} \subseteq SUBSET Clauses(V4)
  <2>1. Loopback4 \in SUBSET V4 /\ rs.hostIP \in SUBSET V4
    BY CompilerAssumption DEF Serves, GoodRuleSets
  <2> QED BY <2>1, FixedClauses
<1>2. /\ In(m1, p) <=> p.ct = "ESTABLISHED"
      /\ In(m2, p) <=> p.src \in Loopback4
      /\ In(m3, p) <=> p.src \in rs.hostIP
      /\ In(m4, p) <=> p.iface \in Tunnels
  BY InFacts
<1>3. L = <<Line(m1, "RETURN"), Line(m2, "RETURN")>>
          \o (IF rs.hostIP = {} THEN <<>> ELSE <<Line(m3, "RETURN")>>)
          \o <<Line(m4, "RETURN")>>
  BY DEF DockerBypass
<1> HIDE DEF m1, m2, m3, m4, L
<1>4. \A m \in {m1, m2, m3, m4} :
        Line(m, "RETURN") \in Lines(V4) /\ Line(m, "RETURN").to \in Through
        /\ (Stops(Line(m, "RETURN"), p) <=> In(m, p))
  BY <1>1, LineFollows DEF Through
<1>5. Essential("DOCKER-USER", p) <=>
        (p.ct = "ESTABLISHED" \/ p.src \in Loopback4 \/ p.src \in rs.hostIP \/ p.iface \in Tunnels)
  BY DEF Essential, Inbound, Serves
<1>6. CASE rs.hostIP = {}
  <2>1. L = <<Line(m1, "RETURN"), Line(m2, "RETURN"), Line(m4, "RETURN")>>
    <3>1. (IF rs.hostIP = {} THEN <<>> ELSE <<Line(m3, "RETURN")>>) = <<>>
      BY <1>6
    <3>2. L = <<Line(m1, "RETURN"), Line(m2, "RETURN")>> \o <<>> \o <<Line(m4, "RETURN")>>
      BY <1>3, <3>1, Zenon
    <3>3. /\ Line(m1, "RETURN") \in Lines(V4) /\ Line(m2, "RETURN") \in Lines(V4)
          /\ Line(m3, "RETURN") \in Lines(V4) /\ Line(m4, "RETURN") \in Lines(V4)
      BY <1>4
    <3> DEFINE a == Line(m1, "RETURN")
               b == Line(m2, "RETURN")
               c == Line(m3, "RETURN")
               d == Line(m4, "RETURN")
    <3> HIDE DEF a, b, c, d
    <3>4. /\ <<a, b>> \o <<>> \o <<d>> = <<a, b, d>>
          /\ <<a, b>> \o <<c>> \o <<d>> = <<a, b, c, d>>
      <4>1. a \in Lines(V4) /\ b \in Lines(V4) /\ c \in Lines(V4) /\ d \in Lines(V4)
        BY <3>3 DEF a, b, c, d
      <4> QED BY <4>1, Tuples
    <3> QED BY <3>2, <3>4, Zenon DEF a, b, c, d
  <2>2. L \in Seq(Lines(V4)) /\ DOMAIN L = 1..3
    BY <1>4, <2>1
  <2>3. /\ \A i \in DOMAIN L : L[i].to \in Through
        /\ (\E i \in DOMAIN L : Stops(L[i], p)) <=> (In(m1, p) \/ In(m2, p) \/ In(m4, p))
    BY <1>4, <2>1, <2>2
  <2> QED BY <1>2, <1>5, <1>6, <2>2, <2>3, SaysAny DEF Bypasses, L
<1>7. CASE rs.hostIP # {}
  <2>1. L = <<Line(m1, "RETURN"), Line(m2, "RETURN"), Line(m3, "RETURN"), Line(m4, "RETURN")>>
    <3>1. (IF rs.hostIP = {} THEN <<>> ELSE <<Line(m3, "RETURN")>>) = <<Line(m3, "RETURN")>>
      BY <1>7
    <3>2. L = <<Line(m1, "RETURN"), Line(m2, "RETURN")>> \o <<Line(m3, "RETURN")>> \o <<Line(m4, "RETURN")>>
      BY <1>3, <3>1, Zenon
    <3>3. /\ Line(m1, "RETURN") \in Lines(V4) /\ Line(m2, "RETURN") \in Lines(V4)
          /\ Line(m3, "RETURN") \in Lines(V4) /\ Line(m4, "RETURN") \in Lines(V4)
      BY <1>4
    <3> DEFINE a == Line(m1, "RETURN")
               b == Line(m2, "RETURN")
               c == Line(m3, "RETURN")
               d == Line(m4, "RETURN")
    <3> HIDE DEF a, b, c, d
    <3>4. /\ <<a, b>> \o <<>> \o <<d>> = <<a, b, d>>
          /\ <<a, b>> \o <<c>> \o <<d>> = <<a, b, c, d>>
      <4>1. a \in Lines(V4) /\ b \in Lines(V4) /\ c \in Lines(V4) /\ d \in Lines(V4)
        BY <3>3 DEF a, b, c, d
      <4> QED BY <4>1, Tuples
    <3> QED BY <3>2, <3>4, Zenon DEF a, b, c, d
  <2>2. L \in Seq(Lines(V4)) /\ DOMAIN L = 1..4
    BY <1>4, <2>1
  <2>3. /\ \A i \in DOMAIN L : L[i].to \in Through
        /\ (\E i \in DOMAIN L : Stops(L[i], p))
              <=> (In(m1, p) \/ In(m2, p) \/ In(m3, p) \/ In(m4, p))
    BY <1>4, <2>1, <2>2
  <2> QED BY <1>2, <1>5, <1>7, <2>2, <2>3, SaysAny DEF Bypasses, L
<1> QED BY <1>6, <1>7

\* How the chains end.
LEMMA EndsFollow ==
  ASSUME NEW F, NEW p, NEW source \in SUBSET Clauses(F)
  PROVE  /\ ReturnAll \in Seq(Lines(F)) /\ Says(ReturnAll, p, Through)
         /\ Policy(source) \in Seq(Lines(F))
         /\ In(source, p) => Says(Policy(source), p, Dropped)
         /\ ~In(source, p) => Silent(Policy(source), p)
<1> DEFINE m == source \cup Is("ct", {"NEW"})
<1>1. m \in SUBSET Clauses(F) /\ Anything \in SUBSET Clauses(F)
  BY FixedClauses, IsType
<1>2. In(Anything, p)
  BY DEF In, Anything
<1>3. ReturnAll \in Seq(Lines(F)) /\ Says(ReturnAll, p, Through)
  <2>1. ReturnAll = <<Line(Anything, "RETURN")>>
    BY DEF ReturnAll
  <2>2. Line(Anything, "RETURN") \in Lines(F) /\ Line(Anything, "RETURN").to = "RETURN"
    BY <1>1, LineFollows
  <2>3. In(Line(Anything, "RETURN").m, p)
    BY <1>2 DEF Line
  <2>4. Says(<<Line(Anything, "RETURN")>>, p, Through)
    BY <2>2, <2>3, SingleLine DEF Through
  <2> QED BY <2>1, <2>2, <2>4
<1> HIDE DEF m
<1> DEFINE L == Policy(source)
<1>4. L = <<Line(m, "LOG"), Line(source, "DROP")>>
  BY DEF Policy, m
<1> HIDE DEF L
<1>5. /\ L \in Seq(Lines(F)) /\ DOMAIN L = 1..2
      /\ ~Stops(L[1], p) /\ L[2].to = "DROP" /\ (Stops(L[2], p) <=> In(source, p))
  BY <1>1, <1>4, LineFollows
<1>6. \A i \in DOMAIN L : Stops(L[i], p) => L[i].to \in Dropped
  BY <1>5 DEF Dropped
<1>7. /\ In(source, p) => Says(L, p, Dropped)
      /\ ~In(source, p) => Silent(L, p)
  <2>1. /\ (\E i \in DOMAIN L : Stops(L[i], p)) => Says(L, p, Dropped)
        /\ (\A i \in DOMAIN L : ~Stops(L[i], p)) => Silent(L, p)
    BY <1>5, <1>6, SaysAny
  <2>2. (\E i \in DOMAIN L : Stops(L[i], p)) <=> In(source, p)
    BY <1>5
  <2> QED BY <2>1, <2>2, Zenon
<1> QED BY <1>3, <1>5, <1>7 DEF L

LEMMA DropsFollow ==
  ASSUME NEW p, NEW rs, Serves(rs)
  PROVE  LET D == [i \in DOMAIN rs.v6Drop |->
                     Line(Is("proto", {"tcp"}) \cup Is("dport", {rs.v6Drop[i]}), "DROP")]
         IN  /\ D \in Seq(Lines(V6))
             /\ (p.proto = "tcp" /\ p.dport \in ToSet(rs.v6Drop)) => Says(D, p, Dropped)
             /\ ~(p.proto = "tcp" /\ p.dport \in ToSet(rs.v6Drop)) => Silent(D, p)
<1> DEFINE n == Len(rs.v6Drop)
           m(i) == Is("proto", {"tcp"}) \cup Is("dport", {rs.v6Drop[i]})
           D == [i \in 1..n |-> Line(m(i), "DROP")]
<1>1. n \in Nat /\ DOMAIN rs.v6Drop = 1..n /\ \A i \in 1..n : rs.v6Drop[i] \in Int
  BY DEF Serves, GoodRuleSets
<1>2. ASSUME NEW i \in 1..n
      PROVE  /\ m(i) \in SUBSET Clauses(V6)
             /\ In(m(i), p) <=> (p.proto = "tcp" /\ p.dport = rs.v6Drop[i])
  <2>1. {rs.v6Drop[i]} \in SUBSET Int
    BY <1>1
  <2>2. Is("dport", {rs.v6Drop[i]}) \in SUBSET Clauses(V6)
    BY <2>1, FixedClauses
  <2>3. Is("proto", {"tcp"}) \in SUBSET Clauses(V6)
    BY FixedClauses
  <2>4. In(m(i), p) <=> (In(Is("proto", {"tcp"}), p) /\ In(Is("dport", {rs.v6Drop[i]}), p))
    BY InFacts, Zenon
  <2>5. In(Is("proto", {"tcp"}), p) <=> p.proto = "tcp"
    BY DEF In, Is
  <2>6. In(Is("dport", {rs.v6Drop[i]}), p) <=> p.dport = rs.v6Drop[i]
    BY DEF In, Is
  <2>7. m(i) \in SUBSET Clauses(V6)
    BY <2>2, <2>3, IsType
  <2> QED BY <2>4, <2>5, <2>6, <2>7, Zenon
<1> HIDE DEF m, n
<1>3. ASSUME NEW i \in 1..n
      PROVE  /\ D[i] \in Lines(V6) /\ D[i].to \in Dropped
             /\ Stops(D[i], p) <=> (p.proto = "tcp" /\ p.dport = rs.v6Drop[i])
  <2>1. D[i] = Line(m(i), "DROP")
    OBVIOUS
  <2>2. /\ Line(m(i), "DROP") \in Lines(V6) /\ Line(m(i), "DROP").to = "DROP"
        /\ Stops(Line(m(i), "DROP"), p) <=> In(m(i), p)
    BY <1>2, LineFollows
  <2> HIDE DEF D
  <2>3. D[i] \in Lines(V6) /\ D[i].to = "DROP" /\ (Stops(D[i], p) <=> In(m(i), p))
    BY <2>1, <2>2, Zenon
  <2> QED BY <1>2, <2>3, Zenon DEF Dropped
<1>4. D \in Seq(Lines(V6)) /\ DOMAIN D = 1..n
  <2>1. D = [i \in 1..n |-> D[i]]
    OBVIOUS
  <2>2. DOMAIN D = 1..n
    OBVIOUS
  <2> HIDE DEF D
  <2>3. D \in [1..n -> Lines(V6)]
    BY <1>3, <2>1
  <2> QED BY <1>1, <2>2, <2>3
<1>5. (\E i \in DOMAIN D : Stops(D[i], p)) <=> (p.proto = "tcp" /\ p.dport \in ToSet(rs.v6Drop))
  <2>1. p.dport \in ToSet(rs.v6Drop) <=> \E i \in 1..n : p.dport = rs.v6Drop[i]
    BY <1>1 DEF ToSet
  <2> HIDE DEF D
  <2> QED BY <1>3, <1>4, <2>1, Zenon
<1>6. /\ (p.proto = "tcp" /\ p.dport \in ToSet(rs.v6Drop)) => Says(D, p, Dropped)
      /\ ~(p.proto = "tcp" /\ p.dport \in ToSet(rs.v6Drop)) => Silent(D, p)
  <2> HIDE DEF D
  <2>1. \A i \in DOMAIN D : Stops(D[i], p) => D[i].to \in Dropped
    BY <1>3, <1>4
  <2>2. /\ (\E i \in DOMAIN D : Stops(D[i], p)) => Says(D, p, Dropped)
        /\ (\A i \in DOMAIN D : ~Stops(D[i], p)) => Silent(D, p)
    BY <1>4, <2>1, SaysAny
  <2> QED BY <1>5, <2>2, Zenon
<1>7. D = [i \in DOMAIN rs.v6Drop |->
             Line(Is("proto", {"tcp"}) \cup Is("dport", {rs.v6Drop[i]}), "DROP")]
  BY <1>1, Zenon DEF m
<1> QED BY <1>4, <1>6, <1>7, Zenon

\* The lines of the rules: Each over the sorted rules.
LEMMA EachIsMap ==
  ASSUME NEW t \in Seq(GoodRules), NEW F
  PROVE  /\ Each(t, LAMBDA r : HostLines(r, OurPorts))
              = Map(t, [r \in GoodRules |-> HostLines(r, OurPorts)])
         /\ Each(t, LAMBDA r : HostLines6(r, OurPorts))
              = Map(t, [r \in GoodRules |-> HostLines6(r, OurPorts)])
         /\ Each(t, LAMBDA r : DockerLines(r, OurPorts))
              = Map(t, [r \in GoodRules |-> DockerLines(r, OurPorts)])
         /\ Each(t, LAMBDA r : Lines4(r)) = Map(t, [r \in GoodRules |-> Lines4(r)])
         /\ Each(t, OutboundLines6) = Map(t, [r \in GoodRules |-> OutboundLines6(r)])
<1>1. \A i \in DOMAIN t : t[i] \in GoodRules
  OBVIOUS
<1>2. Each(t, LAMBDA r : HostLines(r, OurPorts))
        = Map(t, [r \in GoodRules |-> HostLines(r, OurPorts)])
  <2>1. [i \in DOMAIN t |-> HostLines(t[i], OurPorts)]
          = [i \in DOMAIN t |-> [r \in GoodRules |-> HostLines(r, OurPorts)][t[i]]]
    BY <1>1
  <2> QED BY <2>1, Zenon DEF Each, Map
<1>3. Each(t, LAMBDA r : HostLines6(r, OurPorts))
        = Map(t, [r \in GoodRules |-> HostLines6(r, OurPorts)])
  <2>1. [i \in DOMAIN t |-> HostLines6(t[i], OurPorts)]
          = [i \in DOMAIN t |-> [r \in GoodRules |-> HostLines6(r, OurPorts)][t[i]]]
    BY <1>1
  <2> QED BY <2>1, Zenon DEF Each, Map
<1>4. Each(t, LAMBDA r : DockerLines(r, OurPorts))
        = Map(t, [r \in GoodRules |-> DockerLines(r, OurPorts)])
  <2>1. [i \in DOMAIN t |-> DockerLines(t[i], OurPorts)]
          = [i \in DOMAIN t |-> [r \in GoodRules |-> DockerLines(r, OurPorts)][t[i]]]
    BY <1>1
  <2> QED BY <2>1, Zenon DEF Each, Map
<1>5. Each(t, LAMBDA r : Lines4(r)) = Map(t, [r \in GoodRules |-> Lines4(r)])
  <2>1. [i \in DOMAIN t |-> Lines4(t[i])]
          = [i \in DOMAIN t |-> [r \in GoodRules |-> Lines4(r)][t[i]]]
    BY <1>1
  <2> QED BY <2>1, Zenon DEF Each, Map
<1>6. Each(t, OutboundLines6) = Map(t, [r \in GoodRules |-> OutboundLines6(r)])
  <2>1. [i \in DOMAIN t |-> OutboundLines6(t[i])]
          = [i \in DOMAIN t |-> [r \in GoodRules |-> OutboundLines6(r)][t[i]]]
    BY <1>1
  <2> QED BY <2>1, Zenon DEF Each, Map
<1> QED BY <1>2, <1>3, <1>4, <1>5, <1>6

LEMMA SortedType ==
  ASSUME NEW rules \in Seq(GoodRules)
  PROVE  Sorted(rules) \in Seq(GoodRules)
<1>1. PICK place : /\ Lists(place, DOMAIN rules, Before(rules))
                   /\ Cardinality(DOMAIN rules) = Len(rules) /\ Len(rules) \in Nat
                   /\ Sorted(rules) = Picked([k \in DOMAIN rules |-> rules[place[k]]], SwitchedOn)
  BY SortedFacts
<1> DEFINE n == Len(rules)
           ordered == [k \in DOMAIN rules |-> rules[place[k]]]
<1>2. n \in Nat /\ DOMAIN rules = 1..n /\ \A i \in 1..n : rules[i] \in GoodRules
  OBVIOUS
<1>3. \A k \in 1..n : place[k] \in 1..n
  BY <1>1, <1>2 DEF Lists
<1>4. ordered \in Seq(GoodRules)
  <2> HIDE DEF n
  <2>1. \A k \in 1..n : rules[place[k]] \in GoodRules
    BY <1>2, <1>3
  <2> QED BY <1>2, <2>1
<1> HIDE DEF ordered
<1>5. Picked(ordered, SwitchedOn) \in Seq(GoodRules)
  BY <1>4, PickedElements
<1> QED BY <1>1, <1>5, Zenon DEF ordered

\* A plausible packet, to instantiate what holds for every packet.
SomePacket == [hits |-> 0, proto |-> "tcp"]

LEMMA SomePacketFits == Plausible(SomePacket)
  BY CompilerAssumption DEF SomePacket, Plausible

LEMMA LinesTypes ==
  /\ [r \in GoodRules |-> HostLines(r, OurPorts)] \in [GoodRules -> Seq(Lines(V4))]
  /\ [r \in GoodRules |-> HostLines6(r, OurPorts)] \in [GoodRules -> Seq(Lines(V6))]
  /\ [r \in GoodRules |-> DockerLines(r, OurPorts)] \in [GoodRules -> Seq(Lines(V4))]
  /\ [r \in GoodRules |-> Lines4(r)] \in [GoodRules -> Seq(Lines(V4))]
  /\ [r \in GoodRules |-> OutboundLines6(r)] \in [GoodRules -> Seq(Lines(V6))]
<1>1. \A r \in GoodRules : HostLines(r, OurPorts) \in Seq(Lines(V4))
  BY SomePacketFits, HostLinesFollow
<1>2. \A r \in GoodRules : HostLines6(r, OurPorts) \in Seq(Lines(V6))
  BY SomePacketFits, HostLines6Follow
<1>3. \A r \in GoodRules : DockerLines(r, OurPorts) \in Seq(Lines(V4))
  BY SomePacketFits, DockerLinesFollow
<1>4. \A r \in GoodRules : Lines4(r) \in Seq(Lines(V4)) /\ OutboundLines6(r) \in Seq(Lines(V6))
  BY SomePacketFits, OutboundLinesFollow
<1> QED BY <1>1, <1>2, <1>3, <1>4

\* The rules in the inbound chains.
LEMMA InboundRulesFollow ==
  ASSUME NEW rs, Serves(rs), NEW p, Plausible(p)
  PROVE  LET rl == Sorted(rs.rules)
             host == Each(rl, LAMBDA r : HostLines(r, OurPorts))
             docker == Each(rl, LAMBDA r : DockerLines(r, OurPorts))
             host6 == Each(rl, LAMBDA r : HostLines6(r, OurPorts))
         IN  /\ host \in Seq(Lines(V4)) /\ docker \in Seq(Lines(V4)) /\ host6 \in Seq(Lines(V6))
             /\ p.src \in V4 => Follows(host, rs.rules, "ZFW-IN", p)
             /\ p.src \in V4 => Follows(docker, rs.rules, "DOCKER-USER", p)
             /\ p.src \in V6 => Follows(host6, rs.rules, "ZFW-IN6", p)
<1> DEFINE rl == Sorted(rs.rules)
           h == [r \in GoodRules |-> HostLines(r, OurPorts)]
           d == [r \in GoodRules |-> DockerLines(r, OurPorts)]
           s == [r \in GoodRules |-> HostLines6(r, OurPorts)]
<1>1. rs.rules \in Seq(GoodRules)
  BY DEF Serves, GoodRuleSets
<1>2. rl \in Seq(GoodRules)
  BY <1>1, SortedType
<1>3. /\ Each(rl, LAMBDA r : HostLines(r, OurPorts)) = Map(rl, h)
      /\ Each(rl, LAMBDA r : DockerLines(r, OurPorts)) = Map(rl, d)
      /\ Each(rl, LAMBDA r : HostLines6(r, OurPorts)) = Map(rl, s)
  BY <1>2, EachIsMap, Zenon
<1>4. h \in [GoodRules -> Seq(Lines(V4))] /\ d \in [GoodRules -> Seq(Lines(V4))]
      /\ s \in [GoodRules -> Seq(Lines(V6))]
  BY LinesTypes, Zenon
<1>5. \A r \in SwitchedOn : r \in GoodRules /\ r.enabled
  BY DEF SwitchedOn
<1>6. ASSUME p.src \in V4
      PROVE  /\ \A r \in SwitchedOn : Decides(h[r], p, Covers(r, "ZFW-IN", p), RuleSays(r, p))
             /\ \A r \in SwitchedOn : Decides(d[r], p, Covers(r, "DOCKER-USER", p), RuleSays(r, p))
  <2> SUFFICES ASSUME NEW r \in SwitchedOn
               PROVE  /\ Decides(h[r], p, Covers(r, "ZFW-IN", p), RuleSays(r, p))
                      /\ Decides(d[r], p, Covers(r, "DOCKER-USER", p), RuleSays(r, p))
    BY Zenon
  <2>1. h[r] = HostLines(r, OurPorts) /\ d[r] = DockerLines(r, OurPorts)
    BY <1>5
  <2>2. Decides(HostLines(r, OurPorts), p, Covers(r, "ZFW-IN", p), RuleSays(r, p))
    BY <1>5, <1>6, HostLinesFollow, Zenon
  <2>3. Decides(DockerLines(r, OurPorts), p, Covers(r, "DOCKER-USER", p), RuleSays(r, p))
    BY <1>5, <1>6, DockerLinesFollow, Zenon
  <2> HIDE DEF h, d
  <2> QED BY <2>1, <2>2, <2>3, Zenon
<1>7. ASSUME p.src \in V6
      PROVE  \A r \in SwitchedOn : Decides(s[r], p, Covers(r, "ZFW-IN6", p), RuleSays(r, p))
  <2> SUFFICES ASSUME NEW r \in SwitchedOn
               PROVE  Decides(s[r], p, Covers(r, "ZFW-IN6", p), RuleSays(r, p))
    BY Zenon
  <2>1. s[r] = HostLines6(r, OurPorts)
    BY <1>5
  <2>2. Decides(HostLines6(r, OurPorts), p, Covers(r, "ZFW-IN6", p), RuleSays(r, p))
    BY <1>5, <1>7, HostLines6Follow, Zenon
  <2> HIDE DEF s
  <2> QED BY <2>1, <2>2, Zenon
<1> HIDE DEF h, d, s
<1>8. Map(rl, h) \in Seq(Lines(V4)) /\ Map(rl, d) \in Seq(Lines(V4)) /\ Map(rl, s) \in Seq(Lines(V6))
  BY <1>2, <1>4, MapType
<1>9. p.src \in V4 => /\ Follows(Map(rl, h), rs.rules, "ZFW-IN", p)
                      /\ Follows(Map(rl, d), rs.rules, "DOCKER-USER", p)
  BY <1>1, <1>4, <1>6, RulesFollow
<1>10. p.src \in V6 => Follows(Map(rl, s), rs.rules, "ZFW-IN6", p)
  BY <1>1, <1>4, <1>7, RulesFollow
<1> QED BY <1>3, <1>8, <1>9, <1>10, Zenon

----------------------------------------------------------------------------
(* The inbound chains.                                                      *)

Says3(chain, c, p, invalid, rs) ==
  Passes(chain, p) <=> Verdict(invalid, Essential(c, p), ByPolicy(c, p), rs.rules, c, p)

LEMMA HostChainFollows ==
  ASSUME NEW rs, Serves(rs), NEW p, Plausible(p)
  PROVE  LET chain == HostChain(rs, Sorted(rs.rules), OurPorts)
         IN  /\ chain \in Seq(Lines(V4))
             /\ p.src \in V4 => Says3(chain, "ZFW-IN", p, p.ct = "INVALID", rs)
<1> DEFINE A == HostBypass
           M == Each(Sorted(rs.rules), LAMBDA r : HostLines(r, OurPorts))
           T == IF rs.policy = "allow" THEN ReturnAll ELSE Policy(Anything)
           byPolicy == ByPolicy("ZFW-IN", p)
<1>1. M \in Seq(Lines(V4)) /\ (p.src \in V4 => Follows(M, rs.rules, "ZFW-IN", p))
  BY InboundRulesFollow, Zenon
<1>2. A \in Seq(Lines(V4)) /\ Bypasses(A, p, p.ct = "INVALID", Essential("ZFW-IN", p))
  BY HostBypassFollows, Zenon
<1>3. byPolicy <=> rs.policy = "allow"
  BY DEF ByPolicy, Serves
<1>4. T \in Seq(Lines(V4)) /\ Says(T, p, IF byPolicy THEN Through ELSE Dropped)
  <2>1. Anything \in SUBSET Clauses(V4) /\ In(Anything, p)
    BY FixedClauses DEF In, Anything
  <2>2. /\ ReturnAll \in Seq(Lines(V4)) /\ Says(ReturnAll, p, Through)
        /\ Policy(Anything) \in Seq(Lines(V4)) /\ Says(Policy(Anything), p, Dropped)
    BY <2>1, EndsFollow
  <2>3. CASE rs.policy = "allow"
    BY <1>3, <2>2, <2>3, Zenon
  <2>4. CASE rs.policy # "allow"
    BY <1>3, <2>2, <2>4, Zenon
  <2> QED BY <2>3, <2>4
<1>5. HostChain(rs, Sorted(rs.rules), OurPorts) = A \o M \o T
  BY Zenon DEF HostChain
<1> HIDE DEF A, M, T, byPolicy
<1>6. A \o M \o T \in Seq(Lines(V4))
  BY <1>1, <1>2, <1>4
<1>7. ASSUME p.src \in V4
      PROVE  Passes(A \o M \o T, p)
               <=> Verdict(p.ct = "INVALID", Essential("ZFW-IN", p), byPolicy, rs.rules, "ZFW-IN", p)
  <2>1. Follows(M, rs.rules, "ZFW-IN", p)
    BY <1>1, <1>7
  <2> QED BY <1>1, <1>2, <1>4, <2>1, WholeChain, Zenon
<1> QED BY <1>5, <1>6, <1>7, Zenon DEF Says3, byPolicy

LEMMA V6ChainFollows ==
  ASSUME NEW rs, Serves(rs), NEW p, Plausible(p)
  PROVE  LET chain == V6Chain(rs, Sorted(rs.rules), OurPorts)
         IN  /\ chain \in Seq(Lines(V6))
             /\ p.src \in V6 => Says3(chain, "ZFW-IN6", p, p.ct = "INVALID", rs)
<1> DEFINE A == V6Bypass
           M == Each(Sorted(rs.rules), LAMBDA r : HostLines6(r, OurPorts))
           D == [i \in DOMAIN rs.v6Drop |->
                   Line(Is("proto", {"tcp"}) \cup Is("dport", {rs.v6Drop[i]}), "DROP")]
           E == IF rs.policy = "allow" THEN ReturnAll ELSE Policy(Anything)
           T == D \o E
           byPolicy == ByPolicy("ZFW-IN6", p)
           dropped == p.proto = "tcp" /\ p.dport \in ToSet(rs.v6Drop)
<1>1. M \in Seq(Lines(V6)) /\ (p.src \in V6 => Follows(M, rs.rules, "ZFW-IN6", p))
  BY InboundRulesFollow, Zenon
<1>2. A \in Seq(Lines(V6)) /\ Bypasses(A, p, p.ct = "INVALID", Essential("ZFW-IN6", p))
  BY V6BypassFollows, Zenon
<1>3. D \in Seq(Lines(V6)) /\ (dropped => Says(D, p, Dropped)) /\ (~dropped => Silent(D, p))
  BY DropsFollow, Zenon
<1>4. byPolicy <=> (rs.policy = "allow" /\ ~dropped)
  BY DEF ByPolicy, Serves
<1>5. E \in Seq(Lines(V6)) /\ Says(E, p, IF rs.policy = "allow" THEN Through ELSE Dropped)
  <2>1. Anything \in SUBSET Clauses(V6) /\ In(Anything, p)
    BY FixedClauses DEF In, Anything
  <2>2. /\ ReturnAll \in Seq(Lines(V6)) /\ Says(ReturnAll, p, Through)
        /\ Policy(Anything) \in Seq(Lines(V6)) /\ Says(Policy(Anything), p, Dropped)
    BY <2>1, EndsFollow
  <2>3. CASE rs.policy = "allow"
    BY <2>2, <2>3, Zenon
  <2>4. CASE rs.policy # "allow"
    BY <2>2, <2>4, Zenon
  <2> QED BY <2>3, <2>4
<1>6. V6Chain(rs, Sorted(rs.rules), OurPorts) = A \o M \o D \o E
  BY Zenon DEF V6Chain
<1> HIDE DEF A, M, D, E, byPolicy, dropped
<1>7. A \o M \o D \o E = A \o M \o T
  <2> DEFINE B == A \o M
  <2>1. B \in Seq(Lines(V6)) /\ D \in Seq(Lines(V6)) /\ E \in Seq(Lines(V6))
    BY <1>1, <1>2, <1>3, <1>5
  <2> HIDE DEF B
  <2>2. (B \o D) \o E = B \o (D \o E)
    BY <2>1, Associative
  <2> QED BY <2>2 DEF B, T
<1>8. T \in Seq(Lines(V6)) /\ Says(T, p, IF byPolicy THEN Through ELSE Dropped)
  <2>1. T \in Seq(Lines(V6))
    BY <1>3, <1>5
  <2>2. CASE dropped
    <3>1. Says(T, p, Dropped)
      BY <1>3, <1>5, <2>2, SaysFirst
    <3> QED BY <1>4, <2>1, <2>2, <3>1, Zenon
  <2>3. CASE ~dropped
    <3>1. Says(T, p, IF rs.policy = "allow" THEN Through ELSE Dropped)
      BY <1>3, <1>5, <2>3, SaysSecond
    <3>2. CASE rs.policy = "allow"
      BY <1>4, <2>1, <2>3, <3>1, <3>2, Zenon
    <3>3. CASE rs.policy # "allow"
      BY <1>4, <2>1, <2>3, <3>1, <3>3, Zenon
    <3> QED BY <3>2, <3>3
  <2> QED BY <2>2, <2>3
<1> HIDE DEF T
<1>9. A \o M \o T \in Seq(Lines(V6))
  BY <1>1, <1>2, <1>8
<1>10. ASSUME p.src \in V6
       PROVE  Passes(A \o M \o T, p)
                <=> Verdict(p.ct = "INVALID", Essential("ZFW-IN6", p), byPolicy, rs.rules, "ZFW-IN6", p)
  <2>1. Follows(M, rs.rules, "ZFW-IN6", p)
    BY <1>1, <1>10
  <2> QED BY <1>1, <1>2, <1>8, <2>1, WholeChain, Zenon
<1>11. V6Chain(rs, Sorted(rs.rules), OurPorts) = A \o M \o T
  BY <1>6, <1>7, Zenon
<1> QED BY <1>9, <1>10, <1>11, Zenon DEF Says3, byPolicy

LEMMA DockerChainFollows ==
  ASSUME NEW rs, Serves(rs), NEW p, Plausible(p)
  PROVE  LET chain == DockerChain(rs, Sorted(rs.rules), OurPorts)
         IN  /\ chain \in Seq(Lines(V4))
             /\ p.src \in V4 => Says3(chain, "DOCKER-USER", p, FALSE, rs)
<1> DEFINE A == DockerBypass(rs)
           M == Each(Sorted(rs.rules), LAMBDA r : DockerLines(r, OurPorts))
           guarded == rs.policy = "deny" /\ rs.lan # {}
           D == IF rs.policy = "deny" /\ rs.lan # {} THEN Policy(Is("src", rs.lan)) ELSE <<>>
           E == ReturnAll
           T == D \o E
           byPolicy == ByPolicy("DOCKER-USER", p)
           dropped == guarded /\ p.src \in rs.lan
<1>1. M \in Seq(Lines(V4)) /\ (p.src \in V4 => Follows(M, rs.rules, "DOCKER-USER", p))
  BY InboundRulesFollow, Zenon
<1>2. A \in Seq(Lines(V4)) /\ Bypasses(A, p, FALSE, Essential("DOCKER-USER", p))
  BY DockerBypassFollows, Zenon
<1>3. D \in Seq(Lines(V4)) /\ (dropped => Says(D, p, Dropped)) /\ (~dropped => Silent(D, p))
  <2>1. rs.lan \in SUBSET V4
    BY DEF Serves, GoodRuleSets
  <2>2. Is("src", rs.lan) \in SUBSET Clauses(V4) /\ (In(Is("src", rs.lan), p) <=> p.src \in rs.lan)
    BY <2>1, FixedClauses DEF In, Is
  <2>3. /\ Policy(Is("src", rs.lan)) \in Seq(Lines(V4))
        /\ p.src \in rs.lan => Says(Policy(Is("src", rs.lan)), p, Dropped)
        /\ p.src \notin rs.lan => Silent(Policy(Is("src", rs.lan)), p)
    BY <2>2, EndsFollow
  <2>4. <<>> \in Seq(Lines(V4)) /\ Silent(<<>>, p)
    BY DEF Silent
  <2>5. CASE guarded
    <3>1. D = Policy(Is("src", rs.lan))
      BY <2>5
    <3> QED BY <2>3, <2>5, <3>1, Zenon
  <2>6. CASE ~guarded
    <3>1. D = <<>>
      BY <2>6
    <3> QED BY <2>4, <2>6, <3>1, Zenon
  <2> QED BY <2>5, <2>6
<1>4. byPolicy <=> ~dropped
  <2>1. rs.policy \in {"deny", "allow"}
    BY DEF Serves, GoodRuleSets
  <2> QED BY <2>1 DEF ByPolicy, Serves
<1>5. E \in Seq(Lines(V4)) /\ Says(E, p, Through)
  <2>1. Anything \in SUBSET Clauses(V4)
    BY FixedClauses
  <2> QED BY <2>1, EndsFollow
<1>6. DockerChain(rs, Sorted(rs.rules), OurPorts) = A \o M \o D \o E
  BY Zenon DEF DockerChain
<1> HIDE DEF A, M, D, E, byPolicy, dropped
<1>7. A \o M \o D \o E = A \o M \o T
  <2>1. A \o M \in Seq(Lines(V4))
    BY <1>1, <1>2
  <2> QED BY <1>3, <1>5, <2>1, Associative
<1>8. T \in Seq(Lines(V4)) /\ Says(T, p, IF byPolicy THEN Through ELSE Dropped)
  <2>1. T \in Seq(Lines(V4))
    BY <1>3, <1>5
  <2>2. CASE dropped
    <3>1. Says(T, p, Dropped)
      BY <1>3, <1>5, <2>2, SaysFirst
    <3> QED BY <1>4, <2>1, <2>2, <3>1, Zenon
  <2>3. CASE ~dropped
    <3>1. Says(T, p, Through)
      BY <1>3, <1>5, <2>3, SaysSecond
    <3> QED BY <1>4, <2>1, <2>3, <3>1, Zenon
  <2> QED BY <2>2, <2>3
<1> HIDE DEF T
<1>9. A \o M \o T \in Seq(Lines(V4))
  BY <1>1, <1>2, <1>8
<1>10. ASSUME p.src \in V4
       PROVE  Passes(A \o M \o T, p)
                <=> Verdict(FALSE, Essential("DOCKER-USER", p), byPolicy, rs.rules, "DOCKER-USER", p)
  <2>1. Follows(M, rs.rules, "DOCKER-USER", p)
    BY <1>1, <1>10
  <2> QED BY <1>1, <1>2, <1>8, <2>1, WholeChain, Zenon
<1>11. DockerChain(rs, Sorted(rs.rules), OurPorts) = A \o M \o T
  BY <1>6, <1>7, Zenon
<1> QED BY <1>9, <1>10, <1>11, Zenon DEF Says3, byPolicy

----------------------------------------------------------------------------
(* The outbound chains: only the rules of their zone.                       *)

OwnRules(zone) == {r \in GoodRules : Mine(r, zone)}

\* The lines of the rules of a zone, and of no other.
Owned(lines, zone) == [r \in GoodRules |-> IF r \in OwnRules(zone) THEN lines[r] ELSE <<>>]

LEMMA OutboundOfFacts ==
  ASSUME NEW rl \in Seq(GoodRules), NEW zone, NEW X, NEW lines \in [GoodRules -> Seq(X)]
  PROVE  /\ OutboundOf(rl, zone) \in Seq(GoodRules)
         /\ OutboundOf(rl, zone) = <<>> <=> \A i \in DOMAIN rl : ~Mine(rl[i], zone)
         /\ Owned(lines, zone) \in [GoodRules -> Seq(X)]
         /\ Map(OutboundOf(rl, zone), lines) = MapPicked(rl, OwnRules(zone), lines)
         /\ Map(OutboundOf(rl, zone), lines) = Map(rl, Owned(lines, zone))
<1> DEFINE M == OwnRules(zone)
           own == [r \in GoodRules |-> IF r \in M THEN lines[r] ELSE <<>>]
<1>0. Owned(lines, zone) = own
  BY Zenon DEF Owned
<1>1. \A i \in DOMAIN rl : rl[i] \in GoodRules /\ (rl[i] \in M <=> Mine(rl[i], zone))
  BY DEF OwnRules
<1>2. OutboundOf(rl, zone) = Picked(rl, M)
  <2>1. [i \in DOMAIN rl |-> IF Mine(rl[i], zone) THEN <<rl[i]>> ELSE <<>>]
          = [i \in DOMAIN rl |-> IF rl[i] \in M THEN <<rl[i]>> ELSE <<>>]
    <3> HIDE DEF M
    <3> QED BY <1>1
  <2> HIDE DEF M
  <2> QED BY <2>1, Zenon DEF OutboundOf, Only, Each, Picked, Mine
<1>3. own \in [GoodRules -> Seq(X)]
  <2>1. <<>> \in Seq(X)
    OBVIOUS
  <2> HIDE DEF M
  <2> QED BY <2>1
<1> HIDE DEF M
<1>4. /\ Picked(rl, M) \in Seq(GoodRules)
      /\ Map(Picked(rl, M), lines) = MapPicked(rl, M, lines)
      /\ Picked(rl, M) = <<>> <=> \A i \in DOMAIN rl : rl[i] \notin M
  BY PickedFacts
<1>5. MapPicked(rl, M, lines) = Map(rl, own)
  <2>1. [i \in DOMAIN rl |-> IF rl[i] \in M THEN lines[rl[i]] ELSE <<>>]
          = [i \in DOMAIN rl |-> own[rl[i]]]
    BY <1>1
  <2> HIDE DEF own
  <2> QED BY <2>1, Zenon DEF MapPicked, Map
<1>6. OutboundOf(rl, zone) = <<>> <=> \A i \in DOMAIN rl : ~Mine(rl[i], zone)
  BY <1>1, <1>2, <1>4, Zenon
<1> HIDE DEF own
<1>7. /\ OutboundOf(rl, zone) \in Seq(GoodRules) /\ own \in [GoodRules -> Seq(X)]
      /\ Map(OutboundOf(rl, zone), lines) = MapPicked(rl, M, lines)
      /\ Map(OutboundOf(rl, zone), lines) = Map(rl, own)
  BY <1>2, <1>3, <1>4, <1>5, Zenon
<1> QED BY <1>0, <1>6, <1>7, Zenon DEF M, own

Replies == Is("ct", {"ESTABLISHED"})
Local == Is("iface", {"lo"})

LEMMA IsSequence ==
  ASSUME NEW S, NEW n \in Nat, NEW f \in [1..n -> S]
  PROVE  f \in Seq(S) /\ Len(f) = n
OBVIOUS

LEMMA OutBypassFollows ==
  ASSUME NEW F, NEW p, NEW pass \in Through
  PROVE  LET A == [i \in DOMAIN <<Replies, Local>> |-> Line(<<Replies, Local>>[i], pass)]
             B == [i \in DOMAIN <<Replies>> |-> Line(<<Replies>>[i], pass)]
         IN  /\ A \in Seq(Lines(F)) /\ B \in Seq(Lines(F))
             /\ Bypasses(A, p, FALSE, p.ct = "ESTABLISHED" \/ p.iface = "lo")
             /\ Bypasses(B, p, FALSE, p.ct = "ESTABLISHED")
<1> DEFINE A == [i \in DOMAIN <<Replies, Local>> |-> Line(<<Replies, Local>>[i], pass)]
           B == [i \in DOMAIN <<Replies>> |-> Line(<<Replies>>[i], pass)]
           a == Line(Replies, pass)
           b == Line(Local, pass)
<1>1. /\ Replies \in SUBSET Clauses(F) /\ Local \in SUBSET Clauses(F)
      /\ In(Replies, p) <=> p.ct = "ESTABLISHED"
      /\ In(Local, p) <=> p.iface = "lo"
  BY FixedClauses DEF In, Is, Replies, Local
<1>2. pass \in {"ACCEPT", "RETURN"}
  BY DEF Through
<1>3. /\ a \in Lines(F) /\ a.to \in Through /\ (Stops(a, p) <=> p.ct = "ESTABLISHED")
      /\ b \in Lines(F) /\ b.to \in Through /\ (Stops(b, p) <=> p.iface = "lo")
  <2>1. /\ a \in Lines(F) /\ a.to = pass /\ (Stops(a, p) <=> In(Replies, p))
        /\ b \in Lines(F) /\ b.to = pass /\ (Stops(b, p) <=> In(Local, p))
    BY <1>1, <1>2, LineFollows
  <2> HIDE DEF a, b
  <2> QED BY <1>1, <2>1
<1>4. DOMAIN A = 1..2 /\ A[1] = a /\ A[2] = b /\ A = [i \in 1..2 |-> A[i]]
  OBVIOUS
<1>5. DOMAIN B = 1..1 /\ B[1] = a /\ B = [i \in 1..1 |-> B[i]]
  OBVIOUS
<1> HIDE DEF A, B, a, b
<1>6. A \in Seq(Lines(F)) /\ B \in Seq(Lines(F))
  <2>1. A \in [1..2 -> Lines(F)] /\ B \in [1..1 -> Lines(F)]
    BY <1>3, <1>4, <1>5
  <2>2. 1 \in Nat /\ 2 \in Nat
    OBVIOUS
  <2> QED BY <2>1, <2>2, IsSequence, Zenon
<1>7. Bypasses(A, p, FALSE, p.ct = "ESTABLISHED" \/ p.iface = "lo")
  <2>1. \A i \in DOMAIN A : Stops(A[i], p) => A[i].to \in Through
    BY <1>3, <1>4
  <2>2. /\ (\E i \in DOMAIN A : Stops(A[i], p)) => Says(A, p, Through)
        /\ (\A i \in DOMAIN A : ~Stops(A[i], p)) => Silent(A, p)
    BY <1>6, <2>1, SaysAny
  <2>3. (\E i \in DOMAIN A : Stops(A[i], p)) <=> (p.ct = "ESTABLISHED" \/ p.iface = "lo")
    BY <1>3, <1>4
  <2> QED BY <2>2, <2>3, Zenon DEF Bypasses
<1>8. Bypasses(B, p, FALSE, p.ct = "ESTABLISHED")
  <2>1. \A i \in DOMAIN B : Stops(B[i], p) => B[i].to \in Through
    BY <1>3, <1>5
  <2>2. /\ (\E i \in DOMAIN B : Stops(B[i], p)) => Says(B, p, Through)
        /\ (\A i \in DOMAIN B : ~Stops(B[i], p)) => Silent(B, p)
    BY <1>6, <2>1, SaysAny
  <2>3. (\E i \in DOMAIN B : Stops(B[i], p)) <=> p.ct = "ESTABLISHED"
    BY <1>3, <1>5
  <2> QED BY <2>2, <2>3, Zenon DEF Bypasses
<1> QED BY <1>6, <1>7, <1>8, Zenon DEF A, B

OutBypass(c) == IF c = "ZFW-FWD-OUT" THEN <<Replies>> ELSE <<Replies, Local>>
Decide(lines, c, p) ==
  \A r \in SwitchedOn :
    Mine(r, ZoneOf(c)) => Decides(lines[r], p, Covers(r, c, p), RuleSays(r, p))

\* A chain of outbound rules whose lines are given, and whose own rules
\* decide as they should.
LEMMA OutChainFollows ==
  ASSUME NEW F, NEW rs, Serves(rs), NEW p, NEW c \in {"ZFW-OUT", "ZFW-OUT6", "ZFW-FWD-OUT"},
         NEW pass \in Through, NEW lines \in [GoodRules -> Seq(Lines(F))]
  PROVE  LET rl == Sorted(rs.rules)
             chain == OutChain(OutBypass(c), Map(OutboundOf(rl, ZoneOf(c)), lines), pass)
         IN  /\ chain \in Seq(Lines(F))
             /\ Decide(lines, c, p) => Says3(chain, c, p, FALSE, rs)
<1> DEFINE rl == Sorted(rs.rules)
           bypass == OutBypass(c)
           own == Owned(lines, ZoneOf(c))
           A == [i \in DOMAIN bypass |-> Line(bypass[i], pass)]
           M == Map(OutboundOf(rl, ZoneOf(c)), lines)
           T == ReturnAll
           right == Decide(lines, c, p)
<1>1. rs.rules \in Seq(GoodRules) /\ rl \in Seq(GoodRules)
  <2>1. rs.rules \in Seq(GoodRules)
    BY DEF Serves, GoodRuleSets
  <2> QED BY <2>1, SortedType
<1>2. own \in [GoodRules -> Seq(Lines(F))] /\ M = Map(rl, own)
  BY <1>1, OutboundOfFacts
<1>3. ASSUME right, NEW r \in SwitchedOn PROVE Decides(own[r], p, Covers(r, c, p), RuleSays(r, p))
  <2>1. r \in GoodRules
    BY DEF SwitchedOn
  <2>2. CASE Mine(r, ZoneOf(c))
    <3>1. own[r] = lines[r]
      BY <2>1, <2>2 DEF OwnRules, Owned
    <3>2. Decides(lines[r], p, Covers(r, c, p), RuleSays(r, p))
      BY <1>3, <2>2 DEF Decide
    <3> HIDE DEF own
    <3> QED BY <3>1, <3>2, Zenon
  <2>3. CASE ~Mine(r, ZoneOf(c))
    <3>1. own[r] = <<>>
      BY <2>1, <2>3 DEF OwnRules, Owned
    <3>2. ~Covers(r, c, p)
      BY <2>1, <2>3, CoversOutbound DEF Mine
    <3>3. Silent(<<>>, p)
      BY DEF Silent
    <3> HIDE DEF own
    <3> QED BY <3>1, <3>2, <3>3, Zenon DEF Decides
  <2> QED BY <2>2, <2>3
<1>4. ReturnAll \in Seq(Lines(F)) /\ Says(ReturnAll, p, Through)
  <2>1. Anything \in SUBSET Clauses(F)
    BY FixedClauses
  <2> QED BY <2>1, EndsFollow
<1>5. A \in Seq(Lines(F)) /\ Bypasses(A, p, FALSE, Essential(c, p))
  <2>1. CASE c = "ZFW-FWD-OUT"
    <3>1. bypass = <<Replies>>
      BY <2>1 DEF OutBypass
    <3>2. Essential(c, p) <=> p.ct = "ESTABLISHED"
      BY <2>1 DEF Essential, Inbound
    <3>3. A = [i \in DOMAIN <<Replies>> |-> Line(<<Replies>>[i], pass)]
      BY <3>1, Zenon
    <3>4. A \in Seq(Lines(F)) /\ Bypasses(A, p, FALSE, p.ct = "ESTABLISHED")
      BY <3>3, OutBypassFollows, Zenon
    <3> HIDE DEF A
    <3> QED BY <3>2, <3>4, Zenon DEF Bypasses
  <2>2. CASE c # "ZFW-FWD-OUT"
    <3>1. bypass = <<Replies, Local>>
      BY <2>2 DEF OutBypass
    <3>2. Essential(c, p) <=> (p.ct = "ESTABLISHED" \/ p.iface = "lo")
      BY <2>2 DEF Essential, Inbound
    <3>3. A = [i \in DOMAIN <<Replies, Local>> |-> Line(<<Replies, Local>>[i], pass)]
      BY <3>1, Zenon
    <3>4. A \in Seq(Lines(F)) /\ Bypasses(A, p, FALSE, p.ct = "ESTABLISHED" \/ p.iface = "lo")
      BY <3>3, OutBypassFollows, Zenon
    <3> HIDE DEF A
    <3> QED BY <3>2, <3>4, Zenon DEF Bypasses
  <2> QED BY <2>1, <2>2
<1>6. OutChain(bypass, M, pass) = A \o M \o T
  BY Zenon DEF OutChain
<1>7. ByPolicy(c, p)
  BY DEF ByPolicy
<1> HIDE DEF own, A, rl, bypass
<1>8. /\ M \in Seq(Lines(F))
      /\ right => Follows(M, rs.rules, c, p)
  <2>1. Map(rl, own) \in Seq(Lines(F))
    BY <1>1, <1>2, MapType
  <2>2. ASSUME right PROVE Follows(Map(rl, own), rs.rules, c, p)
    <3>1. \A r \in SwitchedOn : Decides(own[r], p, Covers(r, c, p), RuleSays(r, p))
      BY <1>3, <2>2, Zenon
    <3> QED BY <1>1, <1>2, <3>1, RulesFollow DEF rl
  <2> HIDE DEF M, right
  <2> QED BY <1>2, <2>1, <2>2, Zenon
<1> HIDE DEF M, T, right
<1>9. T \in Seq(Lines(F)) /\ Says(T, p, IF TRUE THEN Through ELSE Dropped)
  BY <1>4 DEF T
<1>10. A \o M \o T \in Seq(Lines(F))
  BY <1>5, <1>8, <1>9
<1>11. ASSUME right
       PROVE  Passes(A \o M \o T, p) <=> Verdict(FALSE, Essential(c, p), TRUE, rs.rules, c, p)
  <2>1. Follows(M, rs.rules, c, p)
    BY <1>8, <1>11
  <2> QED BY <1>5, <1>8, <1>9, <2>1, WholeChain, Zenon
<1>12. right => (Passes(A \o M \o T, p)
                   <=> Verdict(FALSE, Essential(c, p), ByPolicy(c, p), rs.rules, c, p))
  BY <1>7, <1>11, Zenon DEF Verdict
<1> QED BY <1>6, <1>10, <1>12, Zenon DEF Says3, M, rl, right, bypass

----------------------------------------------------------------------------
(* compiled.sh as a whole.                                                  *)

Of4 == [r \in GoodRules |-> Lines4(r)]
Of6 == [r \in GoodRules |-> OutboundLines6(r)]

LEMMA OutboundChainsAre ==
  ASSUME NEW rl \in Seq(GoodRules)
  PROVE  LET host == OutboundOf(rl, "host")
             docker == OutboundOf(rl, "docker")
         IN  /\ DOMAIN OutboundChains(rl)
                  = (IF host = <<>> THEN {} ELSE {"ZFW-OUT", "ZFW-OUT6"})
                    \cup (IF docker = <<>> THEN {} ELSE {"ZFW-FWD-OUT"})
             /\ "ZFW-OUT" \in DOMAIN OutboundChains(rl) =>
                   OutboundChains(rl)["ZFW-OUT"]
                      = OutChain(<<Replies, Local>>, Map(host, Of4), "ACCEPT")
             /\ "ZFW-OUT6" \in DOMAIN OutboundChains(rl) =>
                   OutboundChains(rl)["ZFW-OUT6"]
                      = OutChain(<<Replies, Local>>, Map(host, Of6), "RETURN")
             /\ "ZFW-FWD-OUT" \in DOMAIN OutboundChains(rl) =>
                   OutboundChains(rl)["ZFW-FWD-OUT"]
                      = OutChain(<<Replies>>, Map(docker, Of4), "RETURN")
<1> DEFINE host == OutboundOf(rl, "host")
           docker == OutboundOf(rl, "docker")
           h4 == Each(host, LAMBDA r : IF IsIPv6Source(r.source) THEN <<>> ELSE OutboundLines(r))
           h6 == Each(host, OutboundLines6)
           d4 == Each(docker, LAMBDA r : IF IsIPv6Source(r.source) THEN <<>> ELSE OutboundLines(r))
           D == (IF host = <<>> THEN {} ELSE {"ZFW-OUT", "ZFW-OUT6"})
                \cup (IF docker = <<>> THEN {} ELSE {"ZFW-FWD-OUT"})
           a == OutChain(<<Replies, Local>>, h4, "ACCEPT")
           b == OutChain(<<Replies, Local>>, h6, "RETURN")
           d == OutChain(<<Replies>>, d4, "RETURN")
<1>1. host \in Seq(GoodRules) /\ docker \in Seq(GoodRules)
  BY OutboundOfFacts, LinesTypes
<1>2. h4 = Map(host, Of4) /\ h6 = Map(host, Of6) /\ d4 = Map(docker, Of4)
  <2> HIDE DEF host, docker
  <2>1. /\ Each(host, LAMBDA r : Lines4(r)) = Map(host, Of4)
        /\ Each(docker, LAMBDA r : Lines4(r)) = Map(docker, Of4)
        /\ h6 = Map(host, Of6)
    BY <1>1, EachIsMap, Zenon DEF Of4, Of6
  <2>2. Each(host, LAMBDA r : Lines4(r)) = h4 /\ Each(docker, LAMBDA r : Lines4(r)) = d4
    BY Zenon DEF Each, Lines4
  <2> QED BY <2>1, <2>2, Zenon
<1>3. OutboundChains(rl) = [c \in D |->
            CASE c = "ZFW-OUT" -> a
              [] c = "ZFW-OUT6" -> b
              [] c = "ZFW-FWD-OUT" -> d]
  BY Zenon DEF OutboundChains, Replies, Local
<1> HIDE DEF host, docker, h4, h6, d4, D, a, b, d
<1>4. /\ DOMAIN OutboundChains(rl) = D
      /\ "ZFW-OUT" \in D => OutboundChains(rl)["ZFW-OUT"] = a
      /\ "ZFW-OUT6" \in D => OutboundChains(rl)["ZFW-OUT6"] = b
      /\ "ZFW-FWD-OUT" \in D => OutboundChains(rl)["ZFW-FWD-OUT"] = d
  BY <1>3
<1> QED BY <1>2, <1>4, Zenon DEF D, a, b, d, host, docker

LEMMA CompileIs ==
  ASSUME NEW rs, NEW dp
  PROVE  LET rl == Sorted(rs.rules)
             chains == Compile(rs, dp)
         IN  /\ DOMAIN chains = {"ZFW-IN", "DOCKER-USER", "ZFW-IN6"} \cup DOMAIN OutboundChains(rl)
             /\ chains["ZFW-IN"] = HostChain(rs, rl, dp)
             /\ chains["DOCKER-USER"] = DockerChain(rs, rl, dp)
             /\ chains["ZFW-IN6"] = V6Chain(rs, rl, dp)
             /\ \A c \in DOMAIN chains \ {"ZFW-IN", "DOCKER-USER", "ZFW-IN6"} :
                   chains[c] = OutboundChains(rl)[c]
BY DEF Compile

\* The verdicts of every chain, and that every line is one of its family.
LEMMA CompileFollows ==
  ASSUME NEW rs, Serves(rs), NEW p, Plausible(p), NEW c \in DOMAIN Compile(rs, OurPorts)
  PROVE  /\ Compile(rs, OurPorts)[c] \in Seq(Lines(Family(c)))
         /\ PeerOf(c, p) \in Family(c) =>
               Says3(Compile(rs, OurPorts)[c], c, p,
                     c \in {"ZFW-IN", "ZFW-IN6"} /\ p.ct = "INVALID", rs)
<1> DEFINE rl == Sorted(rs.rules)
           chains == Compile(rs, OurPorts)
           out == OutboundChains(rl)
<1>1. rl \in Seq(GoodRules)
  <2>1. rs.rules \in Seq(GoodRules)
    BY DEF Serves, GoodRuleSets
  <2> QED BY <2>1, SortedType
<1>2. /\ DOMAIN chains = {"ZFW-IN", "DOCKER-USER", "ZFW-IN6"} \cup DOMAIN out
      /\ chains["ZFW-IN"] = HostChain(rs, rl, OurPorts)
      /\ chains["DOCKER-USER"] = DockerChain(rs, rl, OurPorts)
      /\ chains["ZFW-IN6"] = V6Chain(rs, rl, OurPorts)
      /\ \A q \in DOMAIN chains \ {"ZFW-IN", "DOCKER-USER", "ZFW-IN6"} : chains[q] = out[q]
  BY CompileIs, Zenon
<1>3. /\ DOMAIN out \subseteq {"ZFW-OUT", "ZFW-OUT6", "ZFW-FWD-OUT"}
      /\ "ZFW-OUT" \in DOMAIN out =>
            out["ZFW-OUT"] = OutChain(<<Replies, Local>>, Map(OutboundOf(rl, "host"), Of4), "ACCEPT")
      /\ "ZFW-OUT6" \in DOMAIN out =>
            out["ZFW-OUT6"] = OutChain(<<Replies, Local>>, Map(OutboundOf(rl, "host"), Of6), "RETURN")
      /\ "ZFW-FWD-OUT" \in DOMAIN out =>
            out["ZFW-FWD-OUT"] = OutChain(<<Replies>>, Map(OutboundOf(rl, "docker"), Of4), "RETURN")
  BY <1>1, OutboundChainsAre
<1>4. Of4 \in [GoodRules -> Seq(Lines(V4))] /\ Of6 \in [GoodRules -> Seq(Lines(V6))]
  BY LinesTypes, Zenon DEF Of4, Of6
<1>5. /\ \A r \in SwitchedOn : r \in GoodRules /\ r.enabled
      /\ \A r \in GoodRules : Of4[r] = Lines4(r) /\ Of6[r] = OutboundLines6(r)
  BY DEF SwitchedOn, Of4, Of6
<1> DEFINE invalid == c \in {"ZFW-IN", "ZFW-IN6"} /\ p.ct = "INVALID"
           Goal == /\ chains[c] \in Seq(Lines(Family(c)))
                   /\ PeerOf(c, p) \in Family(c) => Says3(chains[c], c, p, invalid, rs)
<1> SUFFICES Goal
  OBVIOUS
<1>6. CASE c = "ZFW-IN"
  <2>1. Family(c) = V4 /\ PeerOf(c, p) = p.src /\ (invalid <=> p.ct = "INVALID")
    BY <1>6 DEF Family, PeerOf, Inbound
  <2>2. /\ chains[c] \in Seq(Lines(V4))
        /\ p.src \in V4 => Says3(chains[c], c, p, p.ct = "INVALID", rs)
    BY <1>2, <1>6, HostChainFollows, Zenon
  <2> HIDE DEF chains, invalid
  <2> QED BY <2>1, <2>2, Zenon DEF Says3, Verdict, Decide
<1>7. CASE c = "ZFW-IN6"
  <2>1. Family(c) = V6 /\ PeerOf(c, p) = p.src /\ (invalid <=> p.ct = "INVALID")
    BY <1>7 DEF Family, PeerOf, Inbound
  <2>2. /\ chains[c] \in Seq(Lines(V6))
        /\ p.src \in V6 => Says3(chains[c], c, p, p.ct = "INVALID", rs)
    BY <1>2, <1>7, V6ChainFollows, Zenon
  <2> HIDE DEF chains, invalid
  <2> QED BY <2>1, <2>2, Zenon DEF Says3, Verdict
<1>8. CASE c = "DOCKER-USER"
  <2>1. Family(c) = V4 /\ PeerOf(c, p) = p.src /\ (invalid <=> FALSE)
    BY <1>8 DEF Family, PeerOf, Inbound
  <2>2. /\ chains[c] \in Seq(Lines(V4))
        /\ p.src \in V4 => Says3(chains[c], c, p, FALSE, rs)
    BY <1>2, <1>8, DockerChainFollows, Zenon
  <2> HIDE DEF chains, invalid
  <2> QED BY <2>1, <2>2, Zenon DEF Says3, Verdict
<1>9. CASE c = "ZFW-OUT"
  <2>1. Family(c) = V4 /\ PeerOf(c, p) = p.dst /\ (invalid <=> FALSE) /\ ZoneOf(c) = "host"
    BY <1>9 DEF Family, PeerOf, Inbound, ZoneOf
  <2>2. chains[c] = OutChain(<<Replies, Local>>, Map(OutboundOf(rl, ZoneOf(c)), Of4), "ACCEPT")
    BY <1>2, <1>3, <1>9, <2>1
  <2>3. ASSUME p.dst \in V4, NEW r \in SwitchedOn, Mine(r, ZoneOf(c))
        PROVE  Decides(Of4[r], p, Covers(r, c, p), RuleSays(r, p))
    <3>1. Decides(Lines4(r), p, Covers(r, c, p), RuleSays(r, p))
      BY <1>5, <1>9, <2>3, OutboundLinesFollow
    <3> QED BY <1>5, <3>1, Zenon
  <2>4. /\ chains[c] \in Seq(Lines(V4))
        /\ Decide(Of4, c, p) => Says3(chains[c], c, p, FALSE, rs)
    <3>1. "ACCEPT" \in Through /\ c \in {"ZFW-OUT", "ZFW-OUT6", "ZFW-FWD-OUT"}
          /\ <<Replies, Local>> = OutBypass(c)
      BY <1>9 DEF Through, OutBypass
    <3> DEFINE chain == OutChain(OutBypass(c), Map(OutboundOf(rl, ZoneOf(c)), Of4), "ACCEPT")
    <3>2. chain \in Seq(Lines(V4)) /\ (Decide(Of4, c, p) => Says3(chain, c, p, FALSE, rs))
      BY <1>4, <3>1, OutChainFollows
    <3>3. chains[c] = chain
      BY <2>2, <3>1, Zenon
    <3> HIDE DEF chains, chain
    <3> QED BY <3>2, <3>3, Zenon
  <2> HIDE DEF chains, invalid
  <2> QED BY <2>1, <2>3, <2>4, Zenon DEF Says3, Verdict, Decide
<1>10. CASE c = "ZFW-OUT6"
  <2>1. Family(c) = V6 /\ PeerOf(c, p) = p.dst /\ (invalid <=> FALSE) /\ ZoneOf(c) = "host"
    BY <1>10 DEF Family, PeerOf, Inbound, ZoneOf
  <2>2. chains[c] = OutChain(<<Replies, Local>>, Map(OutboundOf(rl, ZoneOf(c)), Of6), "RETURN")
    BY <1>2, <1>3, <1>10, <2>1
  <2>3. ASSUME p.dst \in V6, NEW r \in SwitchedOn, Mine(r, ZoneOf(c))
        PROVE  Decides(Of6[r], p, Covers(r, c, p), RuleSays(r, p))
    <3>1. Decides(OutboundLines6(r), p, Covers(r, c, p), RuleSays(r, p))
      BY <1>5, <1>10, <2>1, <2>3, OutboundLinesFollow
    <3> QED BY <1>5, <3>1, Zenon
  <2>4. /\ chains[c] \in Seq(Lines(V6))
        /\ Decide(Of6, c, p) => Says3(chains[c], c, p, FALSE, rs)
    <3>1. "RETURN" \in Through /\ c \in {"ZFW-OUT", "ZFW-OUT6", "ZFW-FWD-OUT"}
          /\ <<Replies, Local>> = OutBypass(c)
      BY <1>10 DEF Through, OutBypass
    <3> DEFINE chain == OutChain(OutBypass(c), Map(OutboundOf(rl, ZoneOf(c)), Of6), "RETURN")
    <3>2. chain \in Seq(Lines(V6)) /\ (Decide(Of6, c, p) => Says3(chain, c, p, FALSE, rs))
      BY <1>4, <3>1, OutChainFollows
    <3>3. chains[c] = chain
      BY <2>2, <3>1, Zenon
    <3> HIDE DEF chains, chain
    <3> QED BY <3>2, <3>3, Zenon
  <2> HIDE DEF chains, invalid
  <2> QED BY <2>1, <2>3, <2>4, Zenon DEF Says3, Verdict, Decide
<1>11. CASE c = "ZFW-FWD-OUT"
  <2>1. Family(c) = V4 /\ PeerOf(c, p) = p.dst /\ (invalid <=> FALSE) /\ ZoneOf(c) = "docker"
    BY <1>11 DEF Family, PeerOf, Inbound, ZoneOf
  <2>2. chains[c] = OutChain(<<Replies>>, Map(OutboundOf(rl, ZoneOf(c)), Of4), "RETURN")
    BY <1>2, <1>3, <1>11, <2>1
  <2>3. ASSUME p.dst \in V4, NEW r \in SwitchedOn, Mine(r, ZoneOf(c))
        PROVE  Decides(Of4[r], p, Covers(r, c, p), RuleSays(r, p))
    <3>1. Decides(Lines4(r), p, Covers(r, c, p), RuleSays(r, p))
      BY <1>5, <1>11, <2>3, OutboundLinesFollow
    <3> QED BY <1>5, <3>1, Zenon
  <2>4. /\ chains[c] \in Seq(Lines(V4))
        /\ Decide(Of4, c, p) => Says3(chains[c], c, p, FALSE, rs)
    <3>1. "RETURN" \in Through /\ c \in {"ZFW-OUT", "ZFW-OUT6", "ZFW-FWD-OUT"}
          /\ <<Replies>> = OutBypass(c)
      BY <1>11 DEF Through, OutBypass
    <3> DEFINE chain == OutChain(OutBypass(c), Map(OutboundOf(rl, ZoneOf(c)), Of4), "RETURN")
    <3>2. chain \in Seq(Lines(V4)) /\ (Decide(Of4, c, p) => Says3(chain, c, p, FALSE, rs))
      BY <1>4, <3>1, OutChainFollows
    <3>3. chains[c] = chain
      BY <2>2, <3>1, Zenon
    <3> HIDE DEF chains, chain
    <3> QED BY <3>2, <3>3, Zenon
  <2> HIDE DEF chains, invalid
  <2> QED BY <2>1, <2>3, <2>4, Zenon DEF Says3, Verdict, Decide
<1>12. c \in {"ZFW-IN", "DOCKER-USER", "ZFW-IN6", "ZFW-OUT", "ZFW-OUT6", "ZFW-FWD-OUT"}
  BY <1>2, <1>3
<1> HIDE DEF Goal
<1> QED BY <1>6, <1>7, <1>8, <1>9, <1>10, <1>11, <1>12

----------------------------------------------------------------------------
(* The rule set that is compiled: validated, and bound to the containers.   *)

LEMMA PortListType ==
  ASSUME NEW list \in Seq(Int)
  PROVE  PortList(list) \in PortChoices /\ PortList(list).type = "list"
<1> DEFINE a == [AllPorts EXCEPT !.type = "list"]
           b == [a EXCEPT !.list = list]
<1>1. AllPorts \in PortChoices /\ "list" \in Words
  BY DEF AllPorts, PortChoices, Words
<1>2. a \in PortChoices /\ a.type = "list"
  BY <1>1 DEF PortChoices
<1> HIDE DEF a
<1>3. b \in PortChoices /\ b.type = "list"
  BY <1>2 DEF PortChoices
<1>4. PortList(list) = b
  BY DEF PortList, a, b
<1> QED BY <1>3, <1>4, Zenon

LEMMA InventoryFacts ==
  ASSUME NEW cs \in Inventories
  PROVE  IsFiniteSet(cs) /\ cs \subseteq ContainerRecords
BY VerdictsAssumption

LEMMA ValidIsGood ==
  ASSUME NEW r \in RuleRecords, ValidRule(r)
  PROVE  r \in GoodRules
<1>1. r.ports.type \in {"all", "list", "range"}
  BY DEF ValidRule, ValidPorts
<1>2. \A i \in DOMAIN r.schedule : r.schedule[i].days \subseteq Weekdays
  BY DEF ValidRule, ValidSchedule
<1> QED BY <1>1, <1>2 DEF ValidRule, GoodRules

LEMMA BindIsGood ==
  ASSUME NEW r \in RuleRecords, ValidRule(r), NEW cs \in Inventories
  PROVE  Bind(r, cs) \in GoodRules
<1> DEFINE byID == {c \in cs : c.id = r.containerID}
           found == IF byID # {} THEN byID ELSE {c \in cs : c.name = r.containerID}
           one == CHOOSE c \in found : TRUE
<1>1. r \in GoodRules
  BY ValidIsGood
<1>2. CASE r.containerID = "" \/ \A c \in found : c.tcp = <<>>
  <2>1. Bind(r, cs) = r
    BY <1>2 DEF Bind
  <2> QED BY <1>1, <2>1
<1>3. CASE ~(r.containerID = "" \/ \A c \in found : c.tcp = <<>>)
  <2>1. Bind(r, cs) = [r EXCEPT !.ports = PortList(one.tcp)]
    BY <1>3 DEF Bind
  <2>2. found \subseteq cs /\ cs \subseteq ContainerRecords
    BY InventoryFacts
  <2>3. one \in found
    <3> HIDE DEF found
    <3> QED BY <1>3
  <2> HIDE DEF one, found
  <2>4. one.tcp \in Seq(Int)
    BY <2>2, <2>3 DEF ContainerRecords
  <2> DEFINE pl == PortList(one.tcp)
  <2>5. pl \in PortChoices /\ pl.type = "list"
    BY <2>4, PortListType
  <2> HIDE DEF pl
  <2>6. [r EXCEPT !.ports = pl] \in GoodRules
    <3> DEFINE b == [r EXCEPT !.ports = pl]
    <3>1. b \in RuleRecords
      BY <2>5 DEF RuleRecords
    <3>2. /\ b.action = r.action /\ b.source = r.source /\ b.protocol = r.protocol
          /\ b.zone = r.zone /\ b.schedule = r.schedule /\ b.ports = pl
      BY DEF RuleRecords
    <3> HIDE DEF b
    <3>3. b \in GoodRules
      BY <1>1, <2>5, <3>1, <3>2 DEF GoodRules
    <3> QED BY <3>3 DEF b
  <2> QED BY <2>1, <2>6 DEF pl
<1> QED BY <1>2, <1>3

LEMMA BoundServes ==
  ASSUME rulesJSON \in RuleSets, Validate(rulesJSON), containers \in Inventories
  PROVE  Serves(Bound(rulesJSON, containers))
<1> DEFINE rules == rulesJSON.rules
           bound == [i \in DOMAIN rules |-> Bind(rules[i], containers)]
           rs == Bound(rulesJSON, containers)
<1>1. rules \in Seq(RuleRecords) /\ \A i \in DOMAIN rules : ValidRule(rules[i])
  BY DEF RuleSets, Validate
<1>2. bound \in Seq(GoodRules)
  <2> DEFINE n == Len(rules)
  <2>1. n \in Nat /\ DOMAIN rules = 1..n /\ \A i \in 1..n : rules[i] \in RuleRecords /\ ValidRule(rules[i])
    BY <1>1
  <2> HIDE DEF rules, n
  <2>2. \A i \in 1..n : Bind(rules[i], containers) \in GoodRules
    BY <2>1, BindIsGood
  <2>3. bound \in [1..n -> GoodRules]
    BY <2>1, <2>2
  <2> HIDE DEF bound
  <2> QED BY <2>1, <2>3, IsSequence
<1>3. rs = [rulesJSON EXCEPT !.rules = bound]
  BY DEF Bound
<1>4. /\ rulesJSON.lan \subseteq V4 /\ rulesJSON.hostIP \subseteq V4
      /\ rulesJSON.policy \in {"deny", "allow"} /\ rulesJSON.v6Drop \in Seq(Int)
  BY DEF Validate, RuleSets
<1> HIDE DEF bound, rs
<1>5. /\ rs.lan = rulesJSON.lan /\ rs.hostIP = rulesJSON.hostIP
      /\ rs.policy = rulesJSON.policy /\ rs.v6Drop = rulesJSON.v6Drop
  BY <1>3 DEF RuleSets
<1>6. rs \in GoodRuleSets
  BY <1>2, <1>3, <1>4 DEF RuleSets, GoodRuleSets
<1> QED BY <1>5, <1>6 DEF Serves, rs

LEMMA IntendedIs ==
  ASSUME NEW c, NEW p
  PROVE  Intended(c, p) <=>
           Verdict(c \in {"ZFW-IN", "ZFW-IN6"} /\ p.ct = "INVALID", Essential(c, p), ByPolicy(c, p),
                   Bound(rulesJSON, containers).rules, c, p)
<1> DEFINE rules == Bound(rulesJSON, containers).rules
           covering == {i \in DOMAIN rules : Covers(rules[i], c, p)}
           first == CHOOSE i \in covering : \A j \in covering :
                       \/ rules[i].order < rules[j].order
                       \/ rules[i].order = rules[j].order /\ i <= j
<1>1. Intended(c, p) <=>
        /\ ~(p.ct = "INVALID" /\ c \in {"ZFW-IN", "ZFW-IN6"})
        /\ \/ Essential(c, p)
           \/ covering = {} /\ ByPolicy(c, p)
           \/ covering # {} /\ ByRule(rules[first], p)
  BY Zenon DEF Intended
<1>2. covering = Covering(rules, c, p)
  BY Zenon DEF Covering
<1>3. first = First(rules, c, p)
  BY Zenon DEF First, Covering, Comes
<1> HIDE DEF covering, first, rules
<1>4. Intended(c, p) <=>
        Verdict(c \in {"ZFW-IN", "ZFW-IN6"} /\ p.ct = "INVALID", Essential(c, p), ByPolicy(c, p),
                rules, c, p)
  BY <1>1, <1>2, <1>3, Zenon DEF Verdict
<1> QED BY <1>4 DEF rules

\* What the scripts are: the compilation of the rule set that is saved, and
\* nothing before the first rule set that passes Validate.
Inv ==
  /\ rulesJSON \in RuleSets
  /\ containers \in Inventories
  /\ scripts = Recompiled(rulesJSON, containers, NoScripts)

LEMMA InvVerdicts ==
  ASSUME Inv
  PROVE  VerdictsFollowRules
<1> SUFFICES ASSUME Validate(rulesJSON), NEW c \in DOMAIN scripts.bash, NEW p \in Probes(c)
             PROVE  Passes(scripts.bash[c], p) = Intended(c, p)
  BY DEF VerdictsFollowRules
<1> DEFINE rs == Bound(rulesJSON, containers)
<1>1. scripts.bash = Compile(rs, OurPorts)
  BY DEF Inv, Recompiled, OurPorts
<1>2. Serves(rs)
  BY BoundServes DEF Inv
<1> HIDE DEF rs
<1>3. c \in DOMAIN Compile(rs, OurPorts)
  BY <1>1
<1>4. c \in Inbound \cup {"ZFW-OUT", "ZFW-OUT6", "ZFW-FWD-OUT"}
  <2>1. rs.rules \in Seq(GoodRules)
    BY <1>2 DEF Serves, GoodRuleSets
  <2>2. Sorted(rs.rules) \in Seq(GoodRules)
    BY <2>1, SortedType
  <2>3. DOMAIN OutboundChains(Sorted(rs.rules)) \subseteq {"ZFW-OUT", "ZFW-OUT6", "ZFW-FWD-OUT"}
    BY <2>2, OutboundChainsAre
  <2>4. DOMAIN Compile(rs, OurPorts)
          = {"ZFW-IN", "DOCKER-USER", "ZFW-IN6"} \cup DOMAIN OutboundChains(Sorted(rs.rules))
    BY CompileIs, Zenon
  <2> QED BY <1>3, <2>3, <2>4 DEF Inbound
<1>5. Plausible(p) /\ PeerOf(c, p) \in Family(c)
  BY <1>4, ProbesAssumption DEF Plausible
<1>6. Says3(Compile(rs, OurPorts)[c], c, p, c \in {"ZFW-IN", "ZFW-IN6"} /\ p.ct = "INVALID", rs)
  BY <1>2, <1>3, <1>5, CompileFollows, Zenon
<1>7. Passes(scripts.bash[c], p) <=> Intended(c, p)
  <2>1. Intended(c, p) <=>
          Verdict(c \in {"ZFW-IN", "ZFW-IN6"} /\ p.ct = "INVALID", Essential(c, p), ByPolicy(c, p),
                  rs.rules, c, p)
    BY IntendedIs, Zenon DEF rs
  <2> QED BY <1>1, <1>6, <2>1, Zenon DEF Says3
<1>8. Passes(scripts.bash[c], p) \in BOOLEAN
  BY DEF Passes
<1>9. Intended(c, p) \in BOOLEAN
  BY Zenon DEF Intended
<1> QED BY <1>7, <1>8, <1>9

LEMMA InvLinesLoad ==
  ASSUME Inv
  PROVE  LinesLoad
<1> SUFFICES ASSUME NEW c \in DOMAIN scripts.bash, NEW i \in DOMAIN scripts.bash[c]
             PROVE  /\ \A clause \in scripts.bash[c][i].m :
                          clause[1] \in {"src", "dst"} => clause[2] \subseteq Family(c)
                    /\ scripts.bash[c][i].n <= MaxMultiport
  BY DEF LinesLoad
<1> DEFINE rs == Bound(rulesJSON, containers)
<1>1. Validate(rulesJSON)
  <2> SUFFICES ASSUME ~Validate(rulesJSON) PROVE FALSE
    OBVIOUS
  <2>1. scripts = NoScripts
    BY DEF Inv, Recompiled
  <2> QED BY <2>1 DEF NoScripts
<1>2. scripts.bash = Compile(rs, OurPorts)
  BY <1>1 DEF Inv, Recompiled, OurPorts
<1>3. Serves(rs)
  BY <1>1, BoundServes DEF Inv
<1> HIDE DEF rs
<1>4. scripts.bash[c] \in Seq(Lines(Family(c)))
  BY <1>2, <1>3, SomePacketFits, CompileFollows
<1> DEFINE line == scripts.bash[c][i]
<1>5. line \in Lines(Family(c))
  BY <1>4
<1> HIDE DEF line
<1>6. line.n <= MaxMultiport
  BY <1>5, CompilerAssumption DEF Lines
<1>7. ASSUME NEW clause \in line.m, clause[1] \in {"src", "dst"}
      PROVE  clause[2] \subseteq Family(c)
  <2>1. clause \in Clauses(Family(c))
    BY <1>5 DEF Lines
  <2> QED BY <1>7, <2>1 DEF Clauses
<1> QED BY <1>6, <1>7 DEF line

----------------------------------------------------------------------------
(* The two writings of the chains agree.                                    *)

LEMMA Mapped ==
  ASSUME NEW S, NEW Q, NEW to, \A m \in Q : Line(m, to) \in S,
         NEW x \in Q, NEW y \in Q, NEW z \in Q, NEW w \in Q
  PROVE  /\ [i \in DOMAIN <<x, y>> |-> Line(<<x, y>>[i], to)] = <<Line(x, to), Line(y, to)>>
         /\ [i \in DOMAIN <<x, y, z>> |-> Line(<<x, y, z>>[i], to)]
               = <<Line(x, to), Line(y, to), Line(z, to)>>
         /\ [i \in DOMAIN <<x, y, z, w>> |-> Line(<<x, y, z, w>>[i], to)]
               = <<Line(x, to), Line(y, to), Line(z, to), Line(w, to)>>
<1> DEFINE a == Line(x, to)
           b == Line(y, to)
           c == Line(z, to)
           d == Line(w, to)
<1>1. a \in S /\ b \in S /\ c \in S /\ d \in S
  OBVIOUS
<1>2. [i \in DOMAIN <<x, y>> |-> Line(<<x, y>>[i], to)] = <<a, b>>
  <2> DEFINE u == [i \in DOMAIN <<x, y>> |-> Line(<<x, y>>[i], to)]
             v == <<a, b>>
  <2>1. u = [i \in 1..2 |-> u[i]] /\ u[1] = a /\ u[2] = b
    OBVIOUS
  <2> HIDE DEF a, b
  <2>2. v \in Seq(S) /\ Len(v) = 2 /\ v[1] = a /\ v[2] = b
    BY <1>1
  <2> HIDE DEF u, v
  <2>3. u \in [1..2 -> S]
    BY <1>1, <2>1
  <2>4. u \in Seq(S) /\ Len(u) = 2
    <3>1. 2 \in Nat
      OBVIOUS
    <3> QED BY <2>3, <3>1, IsSequence, Zenon
  <2>5. u = v
    BY <2>1, <2>2, <2>4, SeqEqual
  <2> QED BY <2>5 DEF u, v
<1>3. [i \in DOMAIN <<x, y, z>> |-> Line(<<x, y, z>>[i], to)] = <<a, b, c>>
  <2> DEFINE u == [i \in DOMAIN <<x, y, z>> |-> Line(<<x, y, z>>[i], to)]
             v == <<a, b, c>>
  <2>1. u = [i \in 1..3 |-> u[i]] /\ u[1] = a /\ u[2] = b /\ u[3] = c
    OBVIOUS
  <2> HIDE DEF a, b, c
  <2>2. v \in Seq(S) /\ Len(v) = 3 /\ v[1] = a /\ v[2] = b /\ v[3] = c
    BY <1>1
  <2> HIDE DEF u, v
  <2>3. u \in [1..3 -> S]
    BY <1>1, <2>1
  <2>4. u \in Seq(S) /\ Len(u) = 3
    <3>1. 3 \in Nat
      OBVIOUS
    <3> QED BY <2>3, <3>1, IsSequence, Zenon
  <2>5. u = v
    BY <2>1, <2>2, <2>4, SeqEqual
  <2> QED BY <2>5 DEF u, v
<1>4. [i \in DOMAIN <<x, y, z, w>> |-> Line(<<x, y, z, w>>[i], to)] = <<a, b, c, d>>
  <2> DEFINE u == [i \in DOMAIN <<x, y, z, w>> |-> Line(<<x, y, z, w>>[i], to)]
             v == <<a, b, c, d>>
  <2>1. u = [i \in 1..4 |-> u[i]] /\ u[1] = a /\ u[2] = b /\ u[3] = c /\ u[4] = d
    OBVIOUS
  <2> HIDE DEF a, b, c, d
  <2>2. v \in Seq(S) /\ Len(v) = 4 /\ v[1] = a /\ v[2] = b /\ v[3] = c /\ v[4] = d
    BY <1>1
  <2> HIDE DEF u, v
  <2>3. u \in [1..4 -> S]
    BY <1>1, <2>1
  <2>4. u \in Seq(S) /\ Len(u) = 4
    <3>1. 4 \in Nat
      OBVIOUS
    <3> QED BY <2>3, <3>1, IsSequence, ZenonT(40)
  <2>5. u = v
    BY <2>1, <2>2, <2>4, SeqEqual
  <2> QED BY <2>5 DEF u, v
<1> QED BY <1>2, <1>3, <1>4, Zenon

LEMMA FiveTuple ==
  ASSUME NEW S, NEW a \in S, NEW b \in S, NEW c \in S, NEW d \in S, NEW e \in S
  PROVE  <<a, b, c>> \o <<d, e>> = <<a, b, c, d, e>>
<1> DEFINE s == <<a, b, c>>
           t == <<d, e>>
           v == <<a, b, c, d, e>>
           u == s \o t
<1>1. s \in Seq(S) /\ Len(s) = 3 /\ s[1] = a /\ s[2] = b /\ s[3] = c
  OBVIOUS
<1>2. t \in Seq(S) /\ Len(t) = 2 /\ t[1] = d /\ t[2] = e
  OBVIOUS
<1>3. v \in Seq(S) /\ Len(v) = 5 /\ v[1] = a /\ v[2] = b /\ v[3] = c /\ v[4] = d /\ v[5] = e
  OBVIOUS
<1> HIDE DEF s, t, v
<1>4. u \in Seq(S) /\ Len(u) = 5 /\ \A i \in 1..5 : u[i] = IF i <= 3 THEN s[i] ELSE t[i - 3]
  <2>1. /\ u \in Seq(S) /\ Len(u) = Len(s) + Len(t)
        /\ \A i \in 1..Len(s) + Len(t) : u[i] = IF i <= Len(s) THEN s[i] ELSE t[i - Len(s)]
    <3>1. s \in Seq(S) /\ t \in Seq(S)
      BY <1>1, <1>2
    <3> QED BY <3>1, ConcatProperties, Zenon
  <2> HIDE DEF u
  <2> QED BY <1>1, <1>2, <2>1
<1> HIDE DEF u
<1>5. \A i \in 1..5 : u[i] = v[i]
  <2>1. \A i \in 1..5 : i \in {1, 2, 3, 4, 5}
    OBVIOUS
  <2> QED BY <1>1, <1>2, <1>3, <1>4, <2>1
<1> QED BY <1>3, <1>4, <1>5, SeqEqual DEF s, t, v, u

LEMMA SixTuple ==
  ASSUME NEW S, NEW a \in S, NEW b \in S, NEW c \in S, NEW d \in S, NEW e \in S, NEW f \in S
  PROVE  <<a, b, c>> \o <<d, e, f>> = <<a, b, c, d, e, f>>
<1> DEFINE s == <<a, b, c>>
           t == <<d, e, f>>
           v == <<a, b, c, d, e, f>>
           u == s \o t
<1>1. s \in Seq(S) /\ Len(s) = 3 /\ s[1] = a /\ s[2] = b /\ s[3] = c
  OBVIOUS
<1>2. t \in Seq(S) /\ Len(t) = 3 /\ t[1] = d /\ t[2] = e /\ t[3] = f
  OBVIOUS
<1>3. v \in Seq(S) /\ Len(v) = 6 /\ v[1] = a /\ v[2] = b /\ v[3] = c /\ v[4] = d /\ v[5] = e /\ v[6] = f
  OBVIOUS
<1> HIDE DEF s, t, v
<1>4. u \in Seq(S) /\ Len(u) = 6 /\ \A i \in 1..6 : u[i] = IF i <= 3 THEN s[i] ELSE t[i - 3]
  <2>1. /\ u \in Seq(S) /\ Len(u) = Len(s) + Len(t)
        /\ \A i \in 1..Len(s) + Len(t) : u[i] = IF i <= Len(s) THEN s[i] ELSE t[i - Len(s)]
    <3>1. s \in Seq(S) /\ t \in Seq(S)
      BY <1>1, <1>2
    <3> QED BY <3>1, ConcatProperties, Zenon
  <2> HIDE DEF u
  <2> QED BY <1>1, <1>2, <2>1
<1> HIDE DEF u
<1>5. \A i \in 1..6 : u[i] = v[i]
  <2>1. \A i \in 1..6 : i \in {1, 2, 3, 4, 5, 6}
    OBVIOUS
  <2> QED BY <1>1, <1>2, <1>3, <1>4, <2>1
<1> QED BY <1>3, <1>4, <1>5, SeqEqual DEF s, t, v, u

LEMMA SamePolicy ==
  /\ Policy(Anything) = <<Line(Is("ct", {"NEW"}), "LOG"), Line(Anything, "DROP")>>
  /\ ReturnAll = <<Line(Anything, "RETURN")>>
<1>1. Anything \cup Is("ct", {"NEW"}) = Is("ct", {"NEW"})
  BY DEF Anything
<1> QED BY <1>1, Zenon DEF Policy, ReturnAll

LEMMA SameHostChain ==
  ASSUME NEW rs, NEW rl, NEW dp
  PROVE  ZfwInRules(rs, rl, dp) = HostChain(rs, rl, dp)
<1> DEFINE l1 == Line(Is("ct", {"ESTABLISHED"}), "ACCEPT")
           l2 == Line(Is("ct", {"INVALID"}), "DROP")
           l3 == Line(Is("iface", Bridges \cup Tunnels), "ACCEPT")
           m4 == Is("proto", {"icmp"})
           m5 == Is("proto", {"udp"}) \cup Is("dport", {68, 41641, 9993})
           A == [i \in DOMAIN <<m4, m5>> |-> Line(<<m4, m5>>[i], "ACCEPT")]
<1>1. HostBypass = <<l1, l2, l3, Line(m4, "ACCEPT"), Line(m5, "ACCEPT")>>
  BY DEF HostBypass
<1> DEFINE Q == {m4, m5}
           S == {l1, l2, l3, Line(m4, "ACCEPT"), Line(m5, "ACCEPT")}
<1> HIDE DEF l1, l2, l3, m4, m5
<1>2. A = <<Line(m4, "ACCEPT"), Line(m5, "ACCEPT")>>
  <2>1. m4 \in Q /\ m5 \in Q /\ \A m \in Q : Line(m, "ACCEPT") \in S
    OBVIOUS
  <2> HIDE DEF Q, S
  <2> QED BY <2>1, Mapped
<1>3. HostBypass = <<l1, l2, l3>> \o A
  <2>1. l1 \in S /\ l2 \in S /\ l3 \in S /\ Line(m4, "ACCEPT") \in S /\ Line(m5, "ACCEPT") \in S
    OBVIOUS
  <2> DEFINE l4 == Line(m4, "ACCEPT")
             l5 == Line(m5, "ACCEPT")
  <2> HIDE DEF S, A, l4, l5
  <2>2. <<l1, l2, l3>> \o <<l4, l5>> = <<l1, l2, l3, l4, l5>>
    BY <2>1, FiveTuple DEF l4, l5
  <2> QED BY <1>1, <1>2, <2>2, Zenon DEF l4, l5
<1> DEFINE E == Each(rl, LAMBDA r : HostLines(r, dp))
           always == <<m4, m5>>
<1>4. ZfwInRules(rs, rl, dp) = ZfwRules(rs, "ACCEPT", always, E)
  BY DEF ZfwInRules, m4, m5
<1>5. A = [i \in DOMAIN always |-> Line(always[i], "ACCEPT")]
  BY Zenon
<1> HIDE DEF always, A
<1>6. ZfwRules(rs, "ACCEPT", always, E)
        = <<l1, l2, l3>> \o A \o E
          \o (IF rs.policy = "allow" THEN <<Line(Anything, "RETURN")>>
             ELSE <<Line(Is("ct", {"NEW"}), "LOG"), Line(Anything, "DROP")>>)
  BY <1>5, Zenon DEF ZfwRules, l1, l2, l3
<1>7. HostChain(rs, rl, dp)
        = HostBypass \o E \o (IF rs.policy = "allow" THEN ReturnAll ELSE Policy(Anything))
  BY Zenon DEF HostChain
<1> HIDE DEF E
<1> QED BY <1>3, <1>4, <1>6, <1>7, SamePolicy, Zenon

\* v6_drop: one line a port, or the lines of each port.
LEMMA SameDrops ==
  ASSUME NEW drops \in Seq(Int)
  PROVE  Each(drops, LAMBDA p : <<Line(Is("proto", {"tcp"}) \cup Is("dport", {p}), "DROP")>>)
           = [i \in DOMAIN drops |->
                Line(Is("proto", {"tcp"}) \cup Is("dport", {drops[i]}), "DROP")]
<1> DEFINE n == Len(drops)
           line(p) == Line(Is("proto", {"tcp"}) \cup Is("dport", {p}), "DROP")
           s == [i \in 1..n |-> line(drops[i])]
           S == {line(p) : p \in Int}
<1>1. n \in Nat /\ DOMAIN drops = 1..n /\ \A i \in 1..n : drops[i] \in Int
  OBVIOUS
<1>2. s \in [1..n -> S]
  <2> HIDE DEF line, n
  <2>1. \A i \in 1..n : line(drops[i]) \in S
    BY <1>1
  <2> HIDE DEF S
  <2> QED BY <2>1
<1> HIDE DEF line, n, S
<1>3. [i \in 1..n |-> <<s[i]>>] = [i \in 1..n |-> <<line(drops[i])>>]
  OBVIOUS
<1> HIDE DEF s
<1>4. FlattenSeq([i \in 1..n |-> <<s[i]>>]) = s
  BY <1>1, <1>2, FlattenSingles
<1>5. FlattenSeq([i \in DOMAIN drops |-> <<line(drops[i])>>]) = s
  BY <1>1, <1>3, <1>4, Zenon
<1>6. s = [i \in DOMAIN drops |-> line(drops[i])]
  BY <1>1, Zenon DEF s
<1>7. Each(drops, LAMBDA p : <<line(p)>>) = [i \in DOMAIN drops |-> line(drops[i])]
  BY <1>5, <1>6, Zenon DEF Each
<1> QED BY <1>7, Zenon DEF line

LEMMA SameV6Chain ==
  ASSUME NEW rs, Serves(rs)
  PROVE  ZfwIn6Rules(rs, Sorted(rs.rules), OurPorts) = V6Chain(rs, Sorted(rs.rules), OurPorts)
<1> DEFINE l1 == Line(Is("ct", {"ESTABLISHED"}), "RETURN")
           l2 == Line(Is("ct", {"INVALID"}), "DROP")
           l3 == Line(Is("iface", Bridges \cup Tunnels), "RETURN")
           m4 == Is("proto", {"ipv6-icmp"})
           m5 == Is("proto", {"udp"}) \cup Is("dport", {546})
           m6 == Is("src", Unroutable6)
           l4 == Line(m4, "RETURN")
           l5 == Line(m5, "RETURN")
           l6 == Line(m6, "RETURN")
           rl == Sorted(rs.rules)
           always == <<m4, m5, m6>>
           A == [i \in DOMAIN always |-> Line(always[i], "RETURN")]
           E == Each(rl, LAMBDA r : HostLines6(r, OurPorts))
           drops == Each(rs.v6Drop,
                         LAMBDA p : <<Line(Is("proto", {"tcp"}) \cup Is("dport", {p}), "DROP")>>)
           D == [i \in DOMAIN rs.v6Drop |->
                   Line(Is("proto", {"tcp"}) \cup Is("dport", {rs.v6Drop[i]}), "DROP")]
           T == IF rs.policy = "allow" THEN <<Line(Anything, "RETURN")>>
                ELSE <<Line(Is("ct", {"NEW"}), "LOG"), Line(Anything, "DROP")>>
<1>1. V6Bypass = <<l1, l2, l3, l4, l5, l6>>
  BY DEF V6Bypass
<1>2. ZfwIn6Rules(rs, rl, OurPorts) = ZfwRules(rs, "RETURN", always, E \o drops)
  BY DEF ZfwIn6Rules
<1>3. drops = D
  <2>1. rs.v6Drop \in Seq(Int)
    BY DEF Serves, GoodRuleSets
  <2> QED BY <2>1, SameDrops
<1>4. E \in Seq(Lines(V6))
  BY SomePacketFits, InboundRulesFollow, Zenon
<1>5. D \in Seq(Lines(V6))
  BY DropsFollow, Zenon
<1>6. V6Bypass \in Seq(Lines(V6))
  BY V6BypassFollows, Zenon
<1>7. V6Chain(rs, rl, OurPorts)
        = V6Bypass \o E \o D \o (IF rs.policy = "allow" THEN ReturnAll ELSE Policy(Anything))
  BY Zenon DEF V6Chain
<1>8. T = IF rs.policy = "allow" THEN ReturnAll ELSE Policy(Anything)
  BY SamePolicy, Zenon
<1> HIDE DEF l1, l2, l3, m4, m5, m6, E, D, drops
<1>9. A = <<l4, l5, l6>>
  <2> DEFINE Q == {m4, m5, m6}
             S == {l4, l5, l6}
  <2>1. m4 \in Q /\ m5 \in Q /\ m6 \in Q /\ \A m \in Q : Line(m, "RETURN") \in S
    OBVIOUS
  <2> HIDE DEF Q, S
  <2> QED BY <2>1, Mapped
<1> HIDE DEF always, A, l4, l5, l6
<1>10. V6Bypass = <<l1, l2, l3>> \o A
  <2> DEFINE S == {l1, l2, l3, l4, l5, l6}
  <2>1. l1 \in S /\ l2 \in S /\ l3 \in S /\ l4 \in S /\ l5 \in S /\ l6 \in S
    OBVIOUS
  <2> HIDE DEF S
  <2>2. <<l1, l2, l3>> \o <<l4, l5, l6>> = <<l1, l2, l3, l4, l5, l6>>
    BY <2>1, SixTuple
  <2> QED BY <1>1, <1>9, <2>2, Zenon
<1>11. ZfwRules(rs, "RETURN", always, E \o drops) = <<l1, l2, l3>> \o A \o (E \o drops) \o T
  BY Zenon DEF ZfwRules, l1, l2, l3, A
<1> HIDE DEF T
<1>12. (V6Bypass \o E) \o D = V6Bypass \o (E \o D)
  BY <1>4, <1>5, <1>6, Associative
<1> QED BY <1>2, <1>3, <1>7, <1>8, <1>10, <1>11, <1>12, Zenon

LEMMA SameDockerChain ==
  ASSUME NEW rs, NEW rl, NEW dp
  PROVE  DockerUserRules(rs, rl, dp) = DockerChain(rs, rl, dp)
<1> DEFINE m1 == Is("ct", {"ESTABLISHED"})
           m2 == Is("src", Loopback4)
           m3 == Is("src", rs.hostIP)
           m4 == Is("iface", Tunnels)
           l1 == Line(m1, "RETURN")
           l2 == Line(m2, "RETURN")
           l3 == Line(m3, "RETURN")
           l4 == Line(m4, "RETURN")
           Q == {m1, m2, m3, m4}
           S == {l1, l2, l3, l4}
           bypass == <<m1, m2>> \o (IF rs.hostIP = {} THEN <<>> ELSE <<m3>>) \o <<m4>>
           A == [i \in DOMAIN bypass |-> Line(bypass[i], "RETURN")]
           B == <<l1, l2>> \o (IF rs.hostIP = {} THEN <<>> ELSE <<l3>>) \o <<l4>>
           E == Each(rl, LAMBDA r : DockerLines(r, dp))
           lan == Is("src", rs.lan)
           D == IF rs.policy = "deny" /\ rs.lan # {}
                THEN <<Line(lan \cup Is("ct", {"NEW"}), "LOG"), Line(lan, "DROP")>> ELSE <<>>
<1>1. DockerUserRules(rs, rl, dp) = A \o E \o D \o <<Line(Anything, "RETURN")>>
  BY Zenon DEF DockerUserRules
<1>2. DockerChain(rs, rl, dp) = B \o E \o D \o <<Line(Anything, "RETURN")>>
  BY Zenon DEF DockerChain, DockerBypass, Policy, ReturnAll
<1> HIDE DEF E, D
<1>3. A = B
  <2>1. m1 \in Q /\ m2 \in Q /\ m3 \in Q /\ m4 \in Q /\ \A m \in Q : Line(m, "RETURN") \in S
    OBVIOUS
  <2>2. l1 \in S /\ l2 \in S /\ l3 \in S /\ l4 \in S
    OBVIOUS
  <2> HIDE DEF m1, m2, m3, m4, Q, S
  <2>3. /\ <<m1, m2>> \o <<>> \o <<m4>> = <<m1, m2, m4>>
        /\ <<m1, m2>> \o <<m3>> \o <<m4>> = <<m1, m2, m3, m4>>
    BY <2>1, Tuples
  <2>4. /\ [i \in DOMAIN <<m1, m2, m4>> |-> Line(<<m1, m2, m4>>[i], "RETURN")] = <<l1, l2, l4>>
        /\ [i \in DOMAIN <<m1, m2, m3, m4>> |-> Line(<<m1, m2, m3, m4>>[i], "RETURN")]
              = <<l1, l2, l3, l4>>
    <3>1. [i \in DOMAIN <<m1, m2, m4>> |-> Line(<<m1, m2, m4>>[i], "RETURN")] = <<l1, l2, l4>>
      BY <2>1, Mapped
    <3>2. [i \in DOMAIN <<m1, m2, m3, m4>> |-> Line(<<m1, m2, m3, m4>>[i], "RETURN")]
            = <<l1, l2, l3, l4>>
      BY <2>1, Mapped
    <3> QED BY <3>1, <3>2, Zenon
  <2> HIDE DEF l1, l2, l3, l4
  <2>5. /\ <<l1, l2>> \o <<>> \o <<l4>> = <<l1, l2, l4>>
        /\ <<l1, l2>> \o <<l3>> \o <<l4>> = <<l1, l2, l3, l4>>
    BY <2>2, Tuples
  <2> USE DEF l1, l2, l3, l4
  <2>6. CASE rs.hostIP = {}
    <3>1. bypass = <<m1, m2, m4>>
      BY <2>3, <2>6, Zenon
    <3>2. B = <<l1, l2, l4>>
      BY <2>5, <2>6, Zenon
    <3> HIDE DEF bypass, B, l1, l2, l4
    <3> QED BY <2>4, <3>1, <3>2, Zenon
  <2>7. CASE rs.hostIP # {}
    <3>1. bypass = <<m1, m2, m3, m4>>
      BY <2>3, <2>7, Zenon
    <3>2. B = <<l1, l2, l3, l4>>
      BY <2>5, <2>7, Zenon
    <3> HIDE DEF bypass, B, l1, l2, l3, l4
    <3> QED BY <2>4, <3>1, <3>2, Zenon
  <2> QED BY <2>6, <2>7
<1> HIDE DEF A, B
<1> QED BY <1>1, <1>2, <1>3, Zenon

LEMMA OutboundLinesAre ==
  ASSUME NEW F, NEW rules \in Seq(GoodRules), NEW z,
         NEW of \in [GoodRules -> Seq(Lines(F))]
  PROVE  Map(OutboundOf(rules, z), of) = MapPicked(rules, OwnRules(z), of)
<1> DEFINE own == Owned(of, z)
<1>1. /\ own \in [GoodRules -> Seq(Lines(F))]
      /\ Map(OutboundOf(rules, z), of) = MapPicked(rules, OwnRules(z), of)
  BY OutboundOfFacts
<1> QED BY <1>1

LEMMA SameOutChain ==
  ASSUME NEW rl \in Seq(GoodRules), NEW zone, NEW pass, NEW bypass, NEW F,
         NEW lines \in [GoodRules -> Seq(Lines(F))]
  PROVE  ZfwOutRules(rl, zone, pass, bypass, [i \in DOMAIN rl |-> lines[rl[i]]])
           = OutChain(bypass, Map(OutboundOf(rl, zone), lines), pass)
<1> DEFINE own == [i \in DOMAIN rl |-> lines[rl[i]]]
           s == [i \in DOMAIN rl |-> IF Mine(rl[i], zone) THEN own[i] ELSE <<>>]
           t == [i \in DOMAIN rl |-> IF rl[i] \in OwnRules(zone) THEN lines[rl[i]] ELSE <<>>]
           A == [i \in DOMAIN bypass |-> Line(bypass[i], pass)]
<1>1. s = t
  <2>1. \A i \in DOMAIN rl : rl[i] \in OwnRules(zone) <=> Mine(rl[i], zone)
    BY DEF OwnRules
  <2>2. \A i \in DOMAIN rl : own[i] = lines[rl[i]]
    OBVIOUS
  <2> HIDE DEF own
  <2> QED BY <2>1, <2>2
<1>2. Map(OutboundOf(rl, zone), lines) = FlattenSeq(t)
  <2>1. Map(OutboundOf(rl, zone), lines) = MapPicked(rl, OwnRules(zone), lines)
    BY OutboundLinesAre
  <2> QED BY <2>1, Zenon DEF MapPicked
<1> HIDE DEF own
<1>3. ZfwOutRules(rl, zone, pass, bypass, own) = A \o FlattenSeq(s) \o <<Line(Anything, "RETURN")>>
  BY Zenon DEF ZfwOutRules, Mine
<1> HIDE DEF s, t
<1>4. OutChain(bypass, FlattenSeq(t), pass) = A \o FlattenSeq(t) \o <<Line(Anything, "RETURN")>>
  BY Zenon DEF OutChain, ReturnAll
<1> HIDE DEF A
<1>5. ZfwOutRules(rl, zone, pass, bypass, own) = OutChain(bypass, Map(OutboundOf(rl, zone), lines), pass)
  BY <1>1, <1>2, <1>3, <1>4, Zenon
<1> QED BY <1>5 DEF own

LEMMA OutboundZonesAre ==
  ASSUME NEW rl \in Seq(GoodRules), NEW zone \in {"host", "docker"}
  PROVE  zone \in OutboundZones(rl) <=> OutboundOf(rl, zone) # <<>>
<1>1. OutboundOf(rl, zone) = <<>> <=> \A i \in DOMAIN rl : ~Mine(rl[i], zone)
  BY OutboundOfFacts, LinesTypes
<1>2. zone \in OutboundZones(rl) <=> \E i \in DOMAIN rl : Mine(rl[i], zone)
  BY Zenon DEF OutboundZones, Mine
<1> QED BY <1>1, <1>2, Zenon

LEMMA CompileRestoreIs ==
  ASSUME NEW rs, NEW dp
  PROVE  LET rl == Sorted(rs.rules)
             lines4 == [i \in DOMAIN rl |-> Lines4(rl[i])]
             lines6 == [i \in DOMAIN rl |-> OutboundLines6(rl[i])]
             chains == CompileRestore(rs, dp)
         IN  /\ DOMAIN chains =
                  {"ZFW-IN", "DOCKER-USER", "ZFW-IN6"}
                  \cup (IF "host" \in OutboundZones(rl) THEN {"ZFW-OUT", "ZFW-OUT6"} ELSE {})
                  \cup (IF "docker" \in OutboundZones(rl) THEN {"ZFW-FWD-OUT"} ELSE {})
             /\ chains = [c \in DOMAIN chains |-> chains[c]]
             /\ chains["ZFW-IN"] = ZfwInRules(rs, rl, dp)
             /\ chains["DOCKER-USER"] = DockerUserRules(rs, rl, dp)
             /\ chains["ZFW-IN6"] = ZfwIn6Rules(rs, rl, dp)
             /\ "ZFW-OUT" \in DOMAIN chains =>
                   chains["ZFW-OUT"] = ZfwOutRules(rl, "host", "ACCEPT", <<Replies, Local>>, lines4)
             /\ "ZFW-OUT6" \in DOMAIN chains =>
                   chains["ZFW-OUT6"] = ZfwOutRules(rl, "host", "RETURN", <<Replies, Local>>, lines6)
             /\ "ZFW-FWD-OUT" \in DOMAIN chains =>
                   chains["ZFW-FWD-OUT"] = ZfwOutRules(rl, "docker", "RETURN", <<Replies>>, lines4)
<1> DEFINE rl == Sorted(rs.rules)
           lines4 == [i \in DOMAIN rl |-> Lines4(rl[i])]
           lines6 == [i \in DOMAIN rl |-> OutboundLines6(rl[i])]
           chains == CompileRestore(rs, dp)
           D == {"ZFW-IN", "DOCKER-USER", "ZFW-IN6"}
                \cup (IF "host" \in OutboundZones(rl) THEN {"ZFW-OUT", "ZFW-OUT6"} ELSE {})
                \cup (IF "docker" \in OutboundZones(rl) THEN {"ZFW-FWD-OUT"} ELSE {})
           a == ZfwInRules(rs, rl, dp)
           b == DockerUserRules(rs, rl, dp)
           d == ZfwIn6Rules(rs, rl, dp)
           e == ZfwOutRules(rl, "host", "ACCEPT", <<Replies, Local>>, lines4)
           f == ZfwOutRules(rl, "host", "RETURN", <<Replies, Local>>, lines6)
           g == ZfwOutRules(rl, "docker", "RETURN", <<Replies>>, lines4)
<1>1. chains = [c \in D |->
        CASE c = "ZFW-IN" -> a
          [] c = "DOCKER-USER" -> b
          [] c = "ZFW-IN6" -> d
          [] c = "ZFW-OUT" -> e
          [] c = "ZFW-OUT6" -> f
          [] c = "ZFW-FWD-OUT" -> g]
  BY Zenon DEF CompileRestore, Lines4, Replies, Local
<1>2. {"ZFW-IN", "DOCKER-USER", "ZFW-IN6"} \subseteq D
  OBVIOUS
<1> HIDE DEF chains, D, a, b, d, e, f, g
<1>3. DOMAIN chains = D /\ chains = [c \in D |-> chains[c]]
  <2> DEFINE h(c) == CASE c = "ZFW-IN" -> a
          [] c = "DOCKER-USER" -> b
          [] c = "ZFW-IN6" -> d
          [] c = "ZFW-OUT" -> e
          [] c = "ZFW-OUT6" -> f
          [] c = "ZFW-FWD-OUT" -> g
  <2>1. chains = [c \in D |-> h(c)]
    BY <1>1, Zenon
  <2> HIDE DEF h
  <2> QED BY <2>1
<1>4. chains["ZFW-IN"] = a
  BY <1>1, <1>2
<1>5. chains["DOCKER-USER"] = b
  BY <1>1, <1>2
<1>6. chains["ZFW-IN6"] = d
  BY <1>1, <1>2
<1>7. "ZFW-OUT" \in D => chains["ZFW-OUT"] = e
  BY <1>1
<1>8. "ZFW-OUT6" \in D => chains["ZFW-OUT6"] = f
  BY <1>1
<1>9. "ZFW-FWD-OUT" \in D => chains["ZFW-FWD-OUT"] = g
  BY <1>1
<1> QED BY <1>3, <1>4, <1>5, <1>6, <1>7, <1>8, <1>9, Zenon DEF chains, D, a, b, d, e, f, g

\* Both scripts hold the same chains, line by line.
LEMMA SameScripts ==
  ASSUME NEW rs, Serves(rs)
  PROVE  CompileRestore(rs, OurPorts) = Compile(rs, OurPorts)
<1> DEFINE rl == Sorted(rs.rules)
           bash == Compile(rs, OurPorts)
           restore == CompileRestore(rs, OurPorts)
           out == OutboundChains(rl)
           host == OutboundOf(rl, "host")
           docker == OutboundOf(rl, "docker")
           lines4 == [i \in DOMAIN rl |-> Lines4(rl[i])]
           lines6 == [i \in DOMAIN rl |-> OutboundLines6(rl[i])]
           D == (IF host = <<>> THEN {} ELSE {"ZFW-OUT", "ZFW-OUT6"})
                \cup (IF docker = <<>> THEN {} ELSE {"ZFW-FWD-OUT"})
<1>1. rl \in Seq(GoodRules)
  <2>1. rs.rules \in Seq(GoodRules)
    BY DEF Serves, GoodRuleSets
  <2> QED BY <2>1, SortedType
<1>2. /\ DOMAIN bash = {"ZFW-IN", "DOCKER-USER", "ZFW-IN6"} \cup DOMAIN out
      /\ bash["ZFW-IN"] = HostChain(rs, rl, OurPorts)
      /\ bash["DOCKER-USER"] = DockerChain(rs, rl, OurPorts)
      /\ bash["ZFW-IN6"] = V6Chain(rs, rl, OurPorts)
      /\ \A q \in DOMAIN bash \ {"ZFW-IN", "DOCKER-USER", "ZFW-IN6"} : bash[q] = out[q]
      /\ bash = [c \in DOMAIN bash |-> bash[c]]
  <2>1. bash = [c \in DOMAIN bash |-> bash[c]]
    BY DEF Compile
  <2> QED BY <2>1, CompileIs, Zenon
<1>3. /\ DOMAIN out = D
      /\ "ZFW-OUT" \in D => out["ZFW-OUT"] = OutChain(<<Replies, Local>>, Map(host, Of4), "ACCEPT")
      /\ "ZFW-OUT6" \in D => out["ZFW-OUT6"] = OutChain(<<Replies, Local>>, Map(host, Of6), "RETURN")
      /\ "ZFW-FWD-OUT" \in D => out["ZFW-FWD-OUT"] = OutChain(<<Replies>>, Map(docker, Of4), "RETURN")
  <2> HIDE DEF rl
  <2> QED BY <1>1, OutboundChainsAre
<1>4. /\ DOMAIN restore = {"ZFW-IN", "DOCKER-USER", "ZFW-IN6"} \cup D
      /\ restore = [c \in DOMAIN restore |-> restore[c]]
      /\ restore["ZFW-IN"] = ZfwInRules(rs, rl, OurPorts)
      /\ restore["DOCKER-USER"] = DockerUserRules(rs, rl, OurPorts)
      /\ restore["ZFW-IN6"] = ZfwIn6Rules(rs, rl, OurPorts)
      /\ "ZFW-OUT" \in DOMAIN restore =>
            restore["ZFW-OUT"] = ZfwOutRules(rl, "host", "ACCEPT", <<Replies, Local>>, lines4)
      /\ "ZFW-OUT6" \in DOMAIN restore =>
            restore["ZFW-OUT6"] = ZfwOutRules(rl, "host", "RETURN", <<Replies, Local>>, lines6)
      /\ "ZFW-FWD-OUT" \in DOMAIN restore =>
            restore["ZFW-FWD-OUT"] = ZfwOutRules(rl, "docker", "RETURN", <<Replies>>, lines4)
  <2>1. /\ "host" \in OutboundZones(rl) <=> host # <<>>
        /\ "docker" \in OutboundZones(rl) <=> docker # <<>>
    BY <1>1, OutboundZonesAre
  <2>2. DOMAIN restore =
          {"ZFW-IN", "DOCKER-USER", "ZFW-IN6"}
          \cup (IF "host" \in OutboundZones(rl) THEN {"ZFW-OUT", "ZFW-OUT6"} ELSE {})
          \cup (IF "docker" \in OutboundZones(rl) THEN {"ZFW-FWD-OUT"} ELSE {})
    BY CompileRestoreIs, Zenon
  <2>3. /\ restore = [c \in DOMAIN restore |-> restore[c]]
        /\ restore["ZFW-IN"] = ZfwInRules(rs, rl, OurPorts)
        /\ restore["DOCKER-USER"] = DockerUserRules(rs, rl, OurPorts)
        /\ restore["ZFW-IN6"] = ZfwIn6Rules(rs, rl, OurPorts)
        /\ "ZFW-OUT" \in DOMAIN restore =>
              restore["ZFW-OUT"] = ZfwOutRules(rl, "host", "ACCEPT", <<Replies, Local>>, lines4)
        /\ "ZFW-OUT6" \in DOMAIN restore =>
              restore["ZFW-OUT6"] = ZfwOutRules(rl, "host", "RETURN", <<Replies, Local>>, lines6)
        /\ "ZFW-FWD-OUT" \in DOMAIN restore =>
              restore["ZFW-FWD-OUT"] = ZfwOutRules(rl, "docker", "RETURN", <<Replies>>, lines4)
    BY CompileRestoreIs, Zenon
  <2>4. DOMAIN restore = {"ZFW-IN", "DOCKER-USER", "ZFW-IN6"} \cup D
    <3> HIDE DEF rl, restore, host, docker
    <3> QED BY <2>1, <2>2
  <2> QED BY <2>3, <2>4, Zenon
<1>5. lines4 = [i \in DOMAIN rl |-> Of4[rl[i]]] /\ lines6 = [i \in DOMAIN rl |-> Of6[rl[i]]]
  <2>1. \A i \in DOMAIN rl : rl[i] \in GoodRules
    BY <1>1
  <2> HIDE DEF rl
  <2>2. \A i \in DOMAIN rl : Of4[rl[i]] = Lines4(rl[i]) /\ Of6[rl[i]] = OutboundLines6(rl[i])
    BY <2>1 DEF Of4, Of6
  <2> QED BY <2>2
<1>6. Of4 \in [GoodRules -> Seq(Lines(V4))] /\ Of6 \in [GoodRules -> Seq(Lines(V6))]
  BY LinesTypes, Zenon DEF Of4, Of6
<1> HIDE DEF bash, restore, out, host, docker, lines4, lines6, D
<1>7. /\ bash["ZFW-IN"] = restore["ZFW-IN"] /\ bash["DOCKER-USER"] = restore["DOCKER-USER"]
      /\ bash["ZFW-IN6"] = restore["ZFW-IN6"]
  BY <1>2, <1>4, SameHostChain, SameDockerChain, SameV6Chain, Zenon
<1>8. /\ ZfwOutRules(rl, "host", "ACCEPT", <<Replies, Local>>, lines4)
           = OutChain(<<Replies, Local>>, Map(host, Of4), "ACCEPT")
      /\ ZfwOutRules(rl, "host", "RETURN", <<Replies, Local>>, lines6)
           = OutChain(<<Replies, Local>>, Map(host, Of6), "RETURN")
      /\ ZfwOutRules(rl, "docker", "RETURN", <<Replies>>, lines4)
           = OutChain(<<Replies>>, Map(docker, Of4), "RETURN")
  <2>1. \A zone, pass, bypass :
          /\ ZfwOutRules(rl, zone, pass, bypass, [i \in DOMAIN rl |-> Of4[rl[i]]])
               = OutChain(bypass, Map(OutboundOf(rl, zone), Of4), pass)
          /\ ZfwOutRules(rl, zone, pass, bypass, [i \in DOMAIN rl |-> Of6[rl[i]]])
               = OutChain(bypass, Map(OutboundOf(rl, zone), Of6), pass)
    <3> TAKE zone, pass, bypass
    <3> HIDE DEF rl
    <3>1. ZfwOutRules(rl, zone, pass, bypass, [i \in DOMAIN rl |-> Of4[rl[i]]])
            = OutChain(bypass, Map(OutboundOf(rl, zone), Of4), pass)
      BY <1>1, <1>6, SameOutChain
    <3>2. ZfwOutRules(rl, zone, pass, bypass, [i \in DOMAIN rl |-> Of6[rl[i]]])
            = OutChain(bypass, Map(OutboundOf(rl, zone), Of6), pass)
      BY <1>1, <1>6, SameOutChain
    <3> QED BY <3>1, <3>2
  <2> QED BY <1>5, <2>1, Zenon DEF host, docker
<1>9. DOMAIN bash = DOMAIN restore
  BY <1>2, <1>3, <1>4
<1>10. ASSUME NEW c \in DOMAIN bash PROVE bash[c] = restore[c]
  <2>1. D \subseteq {"ZFW-OUT", "ZFW-OUT6", "ZFW-FWD-OUT"}
    BY DEF D
  <2>2. CASE c \in {"ZFW-IN", "DOCKER-USER", "ZFW-IN6"}
    BY <1>7, <2>2
  <2>3. CASE c \notin {"ZFW-IN", "DOCKER-USER", "ZFW-IN6"}
    <3>1. c \in D /\ bash[c] = out[c] /\ c \in DOMAIN restore
      BY <1>2, <1>3, <1>9, <2>3
    <3>2. CASE c = "ZFW-OUT"
      BY <1>3, <1>4, <1>8, <3>1, <3>2, Zenon
    <3>3. CASE c = "ZFW-OUT6"
      BY <1>3, <1>4, <1>8, <3>1, <3>3, Zenon
    <3>4. CASE c = "ZFW-FWD-OUT"
      BY <1>3, <1>4, <1>8, <3>1, <3>4, Zenon
    <3> QED BY <2>1, <3>1, <3>2, <3>3, <3>4
  <2> QED BY <2>2, <2>3
<1>11. bash = restore
  BY <1>2, <1>4, <1>9, <1>10
<1> QED BY <1>11 DEF bash, restore

LEMMA InvRestore ==
  ASSUME Inv
  PROVE  RestoreMatchesBash
<1>1. CASE Validate(rulesJSON)
  <2> DEFINE rs == Bound(rulesJSON, containers)
  <2>1. scripts.bash = Compile(rs, OurPorts) /\ scripts.restore = CompileRestore(rs, OurPorts)
    BY <1>1 DEF Inv, Recompiled, OurPorts
  <2>2. Serves(rs)
    BY <1>1, BoundServes DEF Inv
  <2> HIDE DEF rs
  <2> QED BY <2>1, <2>2, SameScripts DEF RestoreMatchesBash
<1>2. CASE ~Validate(rulesJSON)
  <2>1. scripts = NoScripts
    BY <1>2 DEF Inv, Recompiled
  <2> QED BY <2>1 DEF NoScripts, RestoreMatchesBash
<1> QED BY <1>1, <1>2

----------------------------------------------------------------------------
(* The rule sets the program writes itself are rule sets.                   *)

LEMMA SourceTypes ==
  /\ AnySource \in Sources
  /\ \A a \in AddressSets : From(a) \in Sources
<1>1. AnySource \in Sources
  BY DEF AnySource, Sources, Words, AddressSets
<1>2. ASSUME NEW a \in AddressSets PROVE From(a) \in Sources
  <2> DEFINE s == [AnySource EXCEPT !.type = "range"]
  <2>1. "range" \in Words
    BY DEF Words
  <2>2. s \in Sources
    BY <1>1, <2>1 DEF Sources
  <2>3. From(a) = [s EXCEPT !.addrs = a]
    BY DEF From
  <2> HIDE DEF s
  <2> QED BY <2>2, <2>3 DEF Sources
<1> QED BY <1>1, <1>2

LEMMA RangeType ==
  ASSUME NEW from \in Int, NEW to \in Int
  PROVE  PortRange(from, to) \in PortChoices
<1> DEFINE a == [AllPorts EXCEPT !.type = "range"]
           b == [a EXCEPT !.from = from]
           c == [b EXCEPT !.to = to]
<1>1. AllPorts \in PortChoices /\ "range" \in Words
  BY DEF AllPorts, PortChoices, Words
<1>2. a \in PortChoices
  BY <1>1 DEF PortChoices
<1> HIDE DEF a
<1>3. b \in PortChoices
  BY <1>2 DEF PortChoices
<1> HIDE DEF b
<1>4. c \in PortChoices
  BY <1>3 DEF PortChoices
<1>5. PortRange(from, to) = c
  BY DEF PortRange, a, b
<1> QED BY <1>4, <1>5, Zenon

LEMMA BareRuleType ==
  ASSUME NEW order \in Int, NEW action \in {"allow", "deny"}, NEW source \in Sources,
         NEW ports \in PortChoices, NEW protocol \in {"tcp", "udp"},
         NEW zone \in {"auto", "host", "docker"}
  PROVE  BareRule(order, action, source, ports, protocol, zone) \in RuleRecords
<1>1. <<>> \in AtMostOne(Schedules) /\ <<>> \in AtMostOne(RateLimits)
  BY DEF AtMostOne
<1>2. action \in Words /\ protocol \in Words /\ zone \in Words /\ "" \in Words
  BY DEF Words
<1> QED BY <1>1, <1>2 DEF BareRule, RuleRecords

LEMMA BareRuleSetType ==
  ASSUME NEW lan \in AddressSets, NEW hostIP \in AddressSets, NEW rules \in Seq(RuleRecords)
  PROVE  BareRuleSet(lan, hostIP, rules) \in RuleSets
<1>1. "deny" \in Words
  BY DEF Words
<1> QED BY <1>1 DEF BareRuleSet, RuleSets

\* Ascending lists the ports of a finite set, and all of them.
LEMMA AscendingType ==
  ASSUME NEW S, IsFiniteSet(S), S \subseteq Int
  PROVE  Ascending(S) \in Seq(Int) /\ ToSet(Ascending(S)) = S
<1> DEFINE R == {ss \in S \X S : ss[1] < ss[2]}
           place == Ascending(S)
           n == Cardinality(S)
<1>1. Orders(R, S)
  BY DEF Orders
<1>2. Ranks(place, S, R)
  <2> DEFINE Good(k, x) == Cardinality({y \in S : y < x}) = k - 1
  <2>1. place = [k \in 1..n |-> CHOOSE x \in S : Good(k, x)]
    BY DEF Ranked, Ascending
  <2>2. ASSUME NEW k, NEW x \in S PROVE Good(k, x) <=> Cardinality(Below(x, S, R)) = k - 1
    <3>1. {y \in S : y < x} = Below(x, S, R)
      BY DEF Below
    <3> HIDE DEF R
    <3> QED BY <3>1
  <2> HIDE DEF Good, place, R
  <2>3. place = [k \in 1..n |-> place[k]]
    <3> DEFINE e(k) == CHOOSE x \in S : Good(k, x)
    <3>1. place = [k \in 1..n |-> e(k)]
      BY <2>1
    <3> HIDE DEF e, n
    <3> QED BY <3>1
  <2>4. ASSUME NEW k \in 1..n, NEW x \in S, Cardinality(Below(x, S, R)) = k - 1
        PROVE  place[k] \in S /\ Cardinality(Below(place[k], S, R)) = k - 1
    <3>1. place[k] = CHOOSE z \in S : Good(k, z)
      <4> DEFINE e(l) == CHOOSE z \in S : Good(l, z)
      <4>1. place = [l \in 1..n |-> e(l)]
        BY <2>1
      <4>2. place[k] = e(k)
        <5> HIDE DEF e, n
        <5> QED BY <4>1
      <4> QED BY <4>2
    <3>2. Good(k, x)
      BY <2>2, <2>4
    <3>3. place[k] \in S /\ Good(k, place[k])
      BY <3>1, <3>2, Zenon
    <3> QED BY <2>2, <3>3
  <2> QED BY <2>3, <2>4 DEF Ranks
<1> HIDE DEF place, R
<1>3. n \in Nat /\ Lists(place, S, R)
  BY <1>1, <1>2, RankedLists
<1>4. place \in [1..n -> Int]
  BY <1>3 DEF Lists
<1> HIDE DEF n
<1>5. place \in Seq(Int)
  BY <1>3, <1>4, IsSequence
<1>6. ToSet(place) = S
  <2>1. ToSet(place) = {place[k] : k \in 1..n}
    BY <1>4 DEF ToSet
  <2> QED BY <1>3, <2>1 DEF Lists, n
<1> QED BY <1>5, <1>6 DEF place

LEMMA ElementsFinite ==
  ASSUME NEW S, NEW s \in Seq(S)
  PROVE  IsFiniteSet(ToSet(s)) /\ ToSet(s) \subseteq S
<1> DEFINE n == Len(s)
<1>1. n \in Nat /\ DOMAIN s = 1..n /\ \A i \in 1..n : s[i] \in S
  OBVIOUS
<1>2. ToSet(s) = {s[i] : i \in 1..n}
  BY <1>1 DEF ToSet
<1>3. s \in Surjection(1..n, ToSet(s))
  <2>1. s \in [1..n -> ToSet(s)]
    <3>1. s = [i \in 1..n |-> s[i]]
      BY <1>1
    <3>2. \A i \in 1..n : s[i] \in ToSet(s)
      BY <1>2
    <3> HIDE DEF n
    <3> QED BY <3>1, <3>2
  <2> QED BY <1>2, <2>1 DEF Surjection
<1>4. IsFiniteSet(1..n)
  BY <1>1, FS_Interval
<1> HIDE DEF n
<1>5. IsFiniteSet(ToSet(s))
  BY <1>3, <1>4, FS_Surjection
<1> QED BY <1>1, <1>2, <1>5

LEMMA PublishedPorts ==
  ASSUME NEW cs \in Inventories
  PROVE  IsFiniteSet(DockerPorts(cs)) /\ DockerPorts(cs) \subseteq Int
<1> DEFINE f == [c \in cs |-> ToSet(c.tcp)]
           T == {ToSet(c.tcp) : c \in cs}
<1>1. IsFiniteSet(cs) /\ \A c \in cs : c.tcp \in Seq(Int)
  BY InventoryFacts DEF ContainerRecords
<1>2. \A c \in cs : IsFiniteSet(ToSet(c.tcp)) /\ ToSet(c.tcp) \subseteq Int
  BY <1>1, ElementsFinite
<1>3. f \in Surjection(cs, T)
  BY DEF Surjection
<1>4. IsFiniteSet(T)
  <2> HIDE DEF f, T
  <2> QED BY <1>1, <1>3, FS_Surjection
<1>5. \A s \in T : IsFiniteSet(s)
  BY <1>2
<1>6. IsFiniteSet(UNION T)
  <2> HIDE DEF f, T
  <2> QED BY <1>4, <1>5, FS_UNION
<1>7. DockerPorts(cs) = UNION T
  BY DEF DockerPorts
<1>8. UNION T \subseteq Int
  BY <1>2
<1> QED BY <1>6, <1>7, <1>8

LEMMA ListRuleType ==
  ASSUME NEW order \in Int, NEW source \in Sources, NEW list \in Seq(Int),
         NEW protocol \in {"tcp", "udp"}, NEW zone \in {"auto", "host", "docker"}
  PROVE  BareRule(order, "allow", source, PortList(list), protocol, zone) \in RuleRecords
<1>1. PortList(list) \in PortChoices
  BY PortListType
<1> HIDE DEF PortList
<1> QED BY <1>1, BareRuleType

LEMMA DefaultsType ==
  ASSUME NEW lan \in AddressSets, NEW hostIP \in AddressSets, NEW cs \in Inventories
  PROVE  Defaults(lan, hostIP, DockerPorts(cs)) \in RuleSets
<1> DEFINE published == Ascending(DockerPorts(cs))
           n == Len(published)
           host(order, protocol, list) ==
             BareRule(order, "allow", From(lan), PortList(list), protocol, "host")
           l1 == <<80, 443>>
           l2 == <<22>>
           l3 == <<139, 445>>
           l4 == <<137, 138>>
           l5 == <<5353>>
           r1 == host(10, "tcp", l1)
           r2 == host(20, "tcp", l2)
           r3 == host(30, "tcp", l3)
           r4 == host(40, "udp", l4)
           r5 == host(50, "udp", l5)
           own == <<r1, r2, r3, r4, r5>>
           app(i) == BareRule(50 + 10 * i, "allow", From(lan), PortList(<<published[i]>>),
                              "tcp", "docker")
           apps == [i \in DOMAIN published |-> app(i)]
<1>1. From(lan) \in Sources
  BY SourceTypes
<1>2. own \in Seq(RuleRecords)
  <2>1. ASSUME NEW order \in Int, NEW list \in Seq(Int), NEW protocol \in {"tcp", "udp"}
        PROVE  host(order, protocol, list) \in RuleRecords
    BY <1>1, ListRuleType
  <2> HIDE DEF host
  <2>2. /\ l1 \in Seq(Int) /\ l2 \in Seq(Int) /\ l3 \in Seq(Int)
        /\ l4 \in Seq(Int) /\ l5 \in Seq(Int)
    OBVIOUS
  <2> HIDE DEF l1, l2, l3, l4, l5
  <2>3. /\ r1 \in RuleRecords /\ r2 \in RuleRecords /\ r3 \in RuleRecords
        /\ r4 \in RuleRecords /\ r5 \in RuleRecords
    <3>1. /\ 10 \in Int /\ 20 \in Int /\ 30 \in Int /\ 40 \in Int /\ 50 \in Int
          /\ "tcp" \in {"tcp", "udp"} /\ "udp" \in {"tcp", "udp"}
      OBVIOUS
    <3>2. r1 \in RuleRecords
      BY <2>1, <2>2, <3>1
    <3>3. r2 \in RuleRecords
      BY <2>1, <2>2, <3>1
    <3>4. r3 \in RuleRecords
      BY <2>1, <2>2, <3>1
    <3>5. r4 \in RuleRecords
      BY <2>1, <2>2, <3>1
    <3>6. r5 \in RuleRecords
      BY <2>1, <2>2, <3>1
    <3> HIDE DEF r1, r2, r3, r4, r5
    <3> QED BY <3>2, <3>3, <3>4, <3>5, <3>6
  <2> HIDE DEF r1, r2, r3, r4, r5
  <2> QED BY <2>3
<1>3. published \in Seq(Int) /\ n \in Nat /\ DOMAIN published = 1..n
  <2>1. published \in Seq(Int)
    BY PublishedPorts, AscendingType
  <2> HIDE DEF published
  <2> QED BY <2>1
<1> HIDE DEF published
<1>4. apps \in Seq(RuleRecords)
  <2>1. ASSUME NEW i \in 1..n PROVE app(i) \in RuleRecords
    <3>1. <<published[i]>> \in Seq(Int) /\ 50 + 10 * i \in Int
      BY <1>3
    <3> QED BY <1>1, <3>1, ListRuleType
  <2> HIDE DEF app
  <2>2. apps \in [1..n -> RuleRecords]
    BY <1>3, <2>1
  <2> HIDE DEF apps, n
  <2> QED BY <1>3, <2>2, IsSequence
<1>5. Defaults(lan, hostIP, DockerPorts(cs)) = BareRuleSet(lan, hostIP, own \o apps)
  BY Zenon DEF Defaults, published
<1> HIDE DEF own, apps
<1>6. own \o apps \in Seq(RuleRecords)
  BY <1>2, <1>4
<1> QED BY <1>5, <1>6, BareRuleSetType

\* Only keeps elements, here of the tiers.
LEMMA OnlyTiers ==
  ASSUME NEW S, NEW s \in Seq(S)
  PROVE  Only(s, LAMBDA t : t[3] # <<>>) \in Seq(S)
<1> DEFINE n == Len(s)
           keep(x) == IF x[3] # <<>> THEN <<x>> ELSE <<>>
           u == [i \in DOMAIN s |-> keep(s[i])]
<1>1. n \in Nat /\ DOMAIN s = 1..n /\ \A i \in 1..n : s[i] \in S
  OBVIOUS
<1>2. Only(s, LAMBDA t : t[3] # <<>>) = FlattenSeq(u)
  BY Zenon DEF Only, Each
<1>3. u \in Seq(Seq(S))
  <2>1. \A x \in S : keep(x) \in Seq(S)
    OBVIOUS
  <2> HIDE DEF keep, n
  <2>2. u \in [1..n -> Seq(S)]
    BY <1>1, <2>1
  <2> HIDE DEF u
  <2> QED BY <1>1, <2>2, IsSequence
<1> HIDE DEF u
<1>4. FlattenSeq(u) \in Seq(S)
  BY <1>3, FlattenType
<1> QED BY <1>2, <1>4, Zenon

LEMMA LanSourceType ==
  ASSUME NEW lan \in AddressSets
  PROVE  LanSource(lan) \in Sources
BY SourceTypes DEF LanSource

LEMMA FromTiersType ==
  ASSUME NEW t \in Tiers, NEW cs \in Inventories
  PROVE  FromTiers(t, DockerPorts(cs)) \in RuleSets
<1> DEFINE dropped == ToSet(t.dockerDropLAN)
           D == DockerPorts(cs) \ dropped
           X == {"tcp", "udp"} \X {"host", "docker"} \X Seq(Int)
           a == <<"tcp", "host", t.hostTCPLAN>>
           b == <<"udp", "host", t.hostUDPLAN>>
           c == <<"tcp", "docker", Ascending(D)>>
           tiers == <<a, b, c>>
           kept == Only(tiers, LAMBDA x : x[3] # <<>>)
           n == Len(kept)
           rule(i) == BareRule(10 * i, "allow", LanSource(t.lan), PortList(kept[i][3]),
                               kept[i][1], kept[i][2])
           rules == [i \in DOMAIN kept |-> rule(i)]
           frame == BareRuleSet(t.lan, t.hostIP, rules)
<1>1. t \in TierFiles
  BY VerdictsAssumption
<1>2. Ascending(D) \in Seq(Int)
  <2>1. IsFiniteSet(D) /\ D \subseteq Int
    BY PublishedPorts, FS_Subset
  <2> HIDE DEF D
  <2> QED BY <2>1, AscendingType
<1> HIDE DEF D
<1>3. tiers \in Seq(X)
  <2>1. a \in X /\ b \in X /\ c \in X
    BY <1>1, <1>2 DEF TierFiles
  <2> HIDE DEF a, b, c, X
  <2> QED BY <2>1
<1>4. kept \in Seq(X)
  <2> HIDE DEF tiers, X
  <2> QED BY <1>3, OnlyTiers
<1> HIDE DEF tiers, kept
<1>5. n \in Nat /\ DOMAIN kept = 1..n /\ \A i \in 1..n : kept[i] \in X
  BY <1>4
<1>6. rules \in Seq(RuleRecords)
  <2>1. LanSource(t.lan) \in Sources
    BY <1>1, LanSourceType DEF TierFiles
  <2>2. ASSUME NEW i \in 1..n PROVE rule(i) \in RuleRecords
    <3>1. /\ 10 * i \in Int /\ kept[i][1] \in {"tcp", "udp"}
          /\ kept[i][2] \in {"auto", "host", "docker"} /\ kept[i][3] \in Seq(Int)
      BY <1>5
    <3> QED BY <2>1, <3>1, ListRuleType
  <2> HIDE DEF rule
  <2>3. rules \in [1..n -> RuleRecords]
    BY <1>5, <2>2
  <2> HIDE DEF rules, n
  <2> QED BY <1>5, <2>3, IsSequence
<1>7. FromTiers(t, DockerPorts(cs)) = [frame EXCEPT !.v6Drop = t.v6Drop]
  BY Zenon DEF FromTiers, kept, tiers, D
<1> HIDE DEF rules
<1>8. frame \in RuleSets
  BY <1>1, <1>6, BareRuleSetType DEF TierFiles
<1> HIDE DEF frame
<1>9. t.v6Drop \in Seq(Int)
  BY <1>1 DEF TierFiles
<1> QED BY <1>7, <1>8, <1>9 DEF RuleSets

LEMMA TemplateType ==
  ASSUME NEW name \in Catalogue, NEW lan \in AddressSets
  PROVE  Template(name, lan) \in Seq(RuleRecords)
<1>1. LanSource(lan) \in Sources /\ AnySource \in Sources
  BY LanSourceType, SourceTypes
<1>2. CASE name \in DOMAIN Blocks
  <2> DEFINE s == Blocks[name]
             n == Len(s)
             rule(i) == BareRule(0, "deny", AnySource, s[i][2], s[i][1], "host")
             X == {"tcp", "udp"} \X PortChoices
  <2>1. s \in Seq(X)
    <3> DEFINE p == PortRange(5900, 5999)
               l == <<111, 2049, 20048>>
               q == PortList(l)
    <3>1. p \in PortChoices
      <4>1. 5900 \in Int /\ 5999 \in Int
        OBVIOUS
      <4> QED BY <4>1, RangeType
    <3>2. q \in PortChoices
      <4>1. l \in Seq(Int)
        OBVIOUS
      <4> HIDE DEF l
      <4> QED BY <4>1, PortListType
    <3>3. name = "vnc" \/ name = "nfs"
      BY <1>2 DEF Blocks
    <3>4. /\ Blocks["vnc"] = << <<"tcp", p>> >>
          /\ Blocks["nfs"] = << <<"tcp", q>>, <<"udp", q>> >>
      BY DEF Blocks
    <3> HIDE DEF p, q
    <3>5. << <<"tcp", p>> >> \in Seq(X) /\ << <<"tcp", q>>, <<"udp", q>> >> \in Seq(X)
      <4>1. <<"tcp", p>> \in X /\ <<"tcp", q>> \in X /\ <<"udp", q>> \in X
        BY <3>1, <3>2
      <4> HIDE DEF X
      <4> QED BY <4>1
    <3> HIDE DEF X
    <3> QED BY <3>3, <3>4, <3>5
  <2>2. Template(name, lan) = [i \in DOMAIN s |-> rule(i)]
    BY <1>2, Zenon DEF Template
  <2> HIDE DEF s
  <2>3. n \in Nat /\ DOMAIN s = 1..n /\ \A i \in 1..n : s[i] \in X
    BY <2>1
  <2>4. ASSUME NEW i \in 1..n PROVE rule(i) \in RuleRecords
    <3>1. s[i][1] \in {"tcp", "udp"} /\ s[i][2] \in PortChoices /\ 0 \in Int
      BY <2>3
    <3> QED BY <1>1, <3>1, BareRuleType
  <2> HIDE DEF rule
  <2>5. Template(name, lan) \in [1..n -> RuleRecords]
    BY <2>2, <2>3, <2>4
  <2> HIDE DEF n
  <2> QED BY <2>3, <2>5, IsSequence
<1>3. CASE name \notin DOMAIN Blocks
  <2> DEFINE s == Opens[name]
             n == Len(s)
             rule(i) == BareRule(0, "allow", LanSource(lan), PortList(s[i][2]), s[i][1], "auto")
             X == {"tcp", "udp"} \X Seq(Int)
  <2>1. name \in DOMAIN Opens
    BY <1>3, VerdictsAssumption
  <2>2. s \in Seq(X)
    <3> DEFINE one(l) == << <<"tcp", l>> >>
               two(l, k) == << <<"tcp", l>>, <<"udp", k>> >>
               S == Seq(X)
               L == Seq(Int)
    <3>1. (\A l \in L : one(l) \in S) /\ (\A l, k \in L : two(l, k) \in S)
      OBVIOUS
    <3>2. DOMAIN Opens = {"plex", "termina", "portainer", "jellyfin", "immich", "homeAssistant",
                          "adguard", "vaultwarden", "syncthing", "nextcloud", "photoprism", "arrStack",
                          "qbittorrent", "paperless", "mealie", "dozzle", "n8n", "openwebui"}
      BY DEF Opens
    <3>3. /\ Opens["plex"] = one(<<32400>>) /\ Opens["termina"] = one(<<7681>>)
          /\ Opens["portainer"] = one(<<9000, 9443>>) /\ Opens["jellyfin"] = two(<<8096, 8920>>, <<7359, 1900>>)
          /\ Opens["immich"] = one(<<2283>>) /\ Opens["homeAssistant"] = one(<<8123>>)
          /\ Opens["adguard"] = two(<<3000, 53>>, <<53>>) /\ Opens["vaultwarden"] = one(<<8222>>)
          /\ Opens["syncthing"] = two(<<8384, 22000>>, <<22000, 21027>>) /\ Opens["nextcloud"] = one(<<8080>>)
          /\ Opens["photoprism"] = one(<<2342>>) /\ Opens["arrStack"] = one(<<8989, 7878, 8686, 8787, 6767, 9696>>)
          /\ Opens["qbittorrent"] = one(<<8080>>) /\ Opens["paperless"] = one(<<8000>>)
          /\ Opens["mealie"] = one(<<9000>>) /\ Opens["dozzle"] = one(<<8080>>)
          /\ Opens["n8n"] = one(<<5678>>) /\ Opens["openwebui"] = one(<<3000>>)
      BY DEF Opens
    <3>4. /\ <<32400>> \in L /\ <<7681>> \in L /\ <<9000, 9443>> \in L /\ <<8096, 8920>> \in L
          /\ <<7359, 1900>> \in L /\ <<2283>> \in L /\ <<8123>> \in L /\ <<3000, 53>> \in L
          /\ <<53>> \in L /\ <<8222>> \in L /\ <<8384, 22000>> \in L /\ <<22000, 21027>> \in L
          /\ <<8080>> \in L /\ <<2342>> \in L /\ <<8989, 7878, 8686, 8787, 6767, 9696>> \in L /\ <<8000>> \in L
          /\ <<9000>> \in L /\ <<5678>> \in L /\ <<3000>> \in L
      OBVIOUS
    <3> HIDE DEF one, two, S, L
    <3>5. /\ one(<<32400>>) \in S /\ one(<<7681>>) \in S /\ one(<<9000, 9443>>) \in S
          /\ two(<<8096, 8920>>, <<7359, 1900>>) \in S /\ one(<<2283>>) \in S /\ one(<<8123>>) \in S
          /\ two(<<3000, 53>>, <<53>>) \in S /\ one(<<8222>>) \in S /\ two(<<8384, 22000>>, <<22000, 21027>>) \in S
          /\ one(<<8080>>) \in S /\ one(<<2342>>) \in S /\ one(<<8989, 7878, 8686, 8787, 6767, 9696>>) \in S
          /\ one(<<8000>>) \in S /\ one(<<9000>>) \in S /\ one(<<5678>>) \in S
          /\ one(<<3000>>) \in S
      BY <3>1, <3>4, SMT
    <3>6. \A x \in DOMAIN Opens : Opens[x] \in S
      BY <3>2, <3>3, <3>5
    <3> QED BY <2>1, <3>6 DEF S
  <2>3. Template(name, lan) = [i \in DOMAIN s |-> rule(i)]
    BY <1>3, Zenon DEF Template
  <2> HIDE DEF s
  <2>4. n \in Nat /\ DOMAIN s = 1..n /\ \A i \in 1..n : s[i] \in X
    BY <2>2
  <2>5. ASSUME NEW i \in 1..n PROVE rule(i) \in RuleRecords
    <3>1. s[i][1] \in {"tcp", "udp"} /\ s[i][2] \in Seq(Int) /\ 0 \in Int
      BY <2>4
    <3> QED BY <1>1, <3>1, ListRuleType
  <2> HIDE DEF rule
  <2>6. Template(name, lan) \in [1..n -> RuleRecords]
    BY <2>3, <2>4, <2>5
  <2> HIDE DEF n
  <2> QED BY <2>4, <2>6, IsSequence
<1> QED BY <1>2, <1>3

\* A finite list of numbers has a greatest one.
LEMMA Greatest ==
  ASSUME NEW n \in Nat \ {0}, NEW f \in [1..n -> Int]
  PROVE  \E m \in 1..n : \A j \in 1..n : f[j] <= f[m]
<1> DEFINE Tops(k) == \E m \in 1..k : \A j \in 1..k : f[j] <= f[m]
           T == {k \in 1..n : ~Tops(k)}
<1>1. SUFFICES ASSUME T # {} PROVE FALSE
  <2>1. CASE n \in T
    BY <2>1
  <2>2. CASE n \notin T
    <3> HIDE DEF Tops
    <3>1. Tops(n)
      BY <2>2
    <3> QED BY <3>1 DEF Tops
  <2> QED BY <2>1, <2>2
<1>2. T \subseteq Nat
  OBVIOUS
<1> HIDE DEF T
<1>3. PICK k \in T : \A j \in T : k <= j
  BY <1>1, <1>2, Least
<1> USE DEF T
<1>4. k \in 1..n /\ ~Tops(k)
  BY <1>3
<1>5. CASE k = 1
  <2>1. Tops(1)
    <3>1. 1..1 = {1} /\ f[1] \in Int
      OBVIOUS
    <3> QED BY <3>1
  <2> QED BY <1>4, <1>5, <2>1
<1>6. CASE k # 1
  <2>1. k - 1 \in 1..n /\ ~(k <= k - 1)
    BY <1>4, <1>6
  <2>2. Tops(k - 1)
    BY <1>3, <2>1
  <2>3. PICK m \in 1..(k - 1) : \A j \in 1..(k - 1) : f[j] <= f[m]
    BY <2>2
  <2>4. m \in 1..k /\ k \in 1..k /\ \A j \in 1..k : j \in 1..(k - 1) \/ j = k
    BY <1>4
  <2>5. f[m] \in Int /\ f[k] \in Int /\ \A j \in 1..k : f[j] \in Int
    BY <1>4
  <2>6. CASE f[m] <= f[k]
    <3>1. \A j \in 1..k : f[j] <= f[k]
      BY <2>3, <2>4, <2>5, <2>6
    <3> QED BY <1>4, <2>4, <3>1
  <2>7. CASE f[k] < f[m]
    <3>1. \A j \in 1..k : f[j] <= f[m]
      BY <2>3, <2>4, <2>5, <2>7
    <3> QED BY <1>4, <2>4, <3>1
  <2> QED BY <2>5, <2>6, <2>7
<1> QED BY <1>5, <1>6

LEMMA MaxIs ==
  ASSUME NEW S, S \subseteq Int, NEW m \in S, \A x \in S : x <= m
  PROVE  Max(S) \in S /\ \A x \in S : x <= Max(S)
<1>1. \A x \in S : m >= x
  OBVIOUS
<1>2. Max(S) \in S /\ \A x \in S : Max(S) >= x
  BY <1>1, Zenon DEF Max
<1> QED BY <1>2

\* The largest number of a sequence that is not empty.
LEMMA MaxOf ==
  ASSUME NEW n \in Nat \ {0}, NEW f \in [1..n -> Int]
  PROVE  LET S == {f[i] : i \in 1..n}
         IN  Max(S) \in S /\ \A x \in S : x <= Max(S)
<1> DEFINE S == {f[i] : i \in 1..n}
<1>1. PICK m \in 1..n : \A j \in 1..n : f[j] <= f[m]
  BY Greatest
<1>2. S \subseteq Int /\ f[m] \in S /\ \A x \in S : x <= f[m]
  BY <1>1
<1> HIDE DEF S
<1>3. Max(S) \in S /\ \A x \in S : x <= Max(S)
  BY <1>2, MaxIs
<1> QED BY <1>3 DEF S

LEMMA LastOrder ==
  ASSUME NEW rules \in Seq(RuleRecords)
  PROVE  LET last == Max({0} \cup {rules[i].order : i \in DOMAIN rules})
         IN  last \in Int /\ \A i \in DOMAIN rules : rules[i].order <= last
<1> DEFINE n == Len(rules)
           f == [i \in 1..n |-> rules[i].order]
           U == {f[i] : i \in 1..n}
           S == {0} \cup {rules[i].order : i \in DOMAIN rules}
<1>1. n \in Nat /\ DOMAIN rules = 1..n /\ \A i \in 1..n : rules[i] \in RuleRecords
  OBVIOUS
<1>2. f \in [1..n -> Int]
  <2>1. \A i \in 1..n : rules[i].order \in Int
    BY <1>1 DEF RuleRecords
  <2> HIDE DEF n
  <2> QED BY <2>1
<1>3. S = {0} \cup U
  BY <1>1
<1> HIDE DEF f, n
<1>4. \E m \in S : \A x \in S : x <= m
  <2>1. CASE n = 0
    <3>1. U = {}
      BY <2>1
    <3> HIDE DEF S, U
    <3> QED BY <1>3, <3>1
  <2>2. CASE n # 0
    <3>1. PICK m \in 1..n : \A j \in 1..n : f[j] <= f[m]
      BY <1>1, <1>2, <2>2, Greatest
    <3>2. f[m] \in U /\ f[m] \in Int /\ U \subseteq Int /\ \A x \in U : x <= f[m]
      BY <1>2, <3>1
    <3> HIDE DEF S, U
    <3>3. CASE f[m] <= 0
      BY <1>3, <3>2, <3>3
    <3>4. CASE 0 < f[m]
      BY <1>3, <3>2, <3>4
    <3> QED BY <3>2, <3>3, <3>4
  <2> QED BY <2>1, <2>2
<1>5. S \subseteq Int
  <2>1. U \subseteq Int
    BY <1>2
  <2> HIDE DEF S, U
  <2> QED BY <1>3, <2>1
<1> HIDE DEF S, U
<1>6. Max(S) \in S /\ \A x \in S : x <= Max(S)
  BY <1>4, <1>5, MaxIs
<1>7. Max(S) \in Int
  BY <1>5, <1>6
<1>8. \A i \in DOMAIN rules : rules[i].order \in S
  BY DEF S
<1>9. \A i \in DOMAIN rules : rules[i].order <= Max(S)
  BY <1>6, <1>8
<1> QED BY <1>7, <1>9 DEF S

LEMMA ExtendedType ==
  ASSUME rulesJSON \in RuleSets, NEW name \in Catalogue, NEW lan \in AddressSets
  PROVE  Extended(name, lan) \in RuleSets
<1> DEFINE last == Max({0} \cup {rulesJSON.rules[i].order : i \in DOMAIN rulesJSON.rules})
           added == Template(name, lan)
           n == Len(added)
           behind == [i \in DOMAIN added |-> [added[i] EXCEPT !.order = last + 10 * i]]
           rules == rulesJSON.rules \o behind
<1>1. rulesJSON.rules \in Seq(RuleRecords) /\ last \in Int
  <2>1. rulesJSON.rules \in Seq(RuleRecords)
    BY DEF RuleSets
  <2> QED BY <2>1, LastOrder
<1>2. added \in Seq(RuleRecords)
  BY TemplateType
<1>3. Extended(name, lan) = [rulesJSON EXCEPT !.rules = rules]
  BY DEF Extended
<1> HIDE DEF last, added
<1>4. behind \in Seq(RuleRecords)
  <2>1. n \in Nat /\ DOMAIN added = 1..n /\ \A i \in 1..n : added[i] \in RuleRecords
    BY <1>2
  <2> HIDE DEF n
  <2>2. ASSUME NEW i \in 1..n PROVE [added[i] EXCEPT !.order = last + 10 * i] \in RuleRecords
    <3> DEFINE o == last + 10 * i
    <3>1. o \in Int /\ added[i] \in RuleRecords
      BY <1>1, <2>1
    <3> HIDE DEF o
    <3>2. [added[i] EXCEPT !.order = o] \in RuleRecords
      BY <3>1 DEF RuleRecords
    <3> QED BY <3>2 DEF o
  <2>3. behind \in [1..n -> RuleRecords]
    BY <2>1, <2>2
  <2> HIDE DEF behind
  <2> QED BY <2>1, <2>3, IsSequence
<1> HIDE DEF behind
<1>5. rules \in Seq(RuleRecords)
  BY <1>1, <1>4
<1> HIDE DEF rules
<1> QED BY <1>3, <1>5 DEF RuleSets

----------------------------------------------------------------------------
(* Save gives every rule an id, and spoils nothing Validate asks for.       *)

LEMMA FillIdsIs ==
  ASSUME NEW rs \in RuleSets, rs.rules # <<>>
  PROVE  \E m \in Nat :
           /\ \A i \in DOMAIN rs.rules : rs.rules[i].id <= m
           /\ FillIds(rs) = [rs EXCEPT !.rules = [i \in DOMAIN rs.rules |->
                               IF rs.rules[i].id = 0 THEN [rs.rules[i] EXCEPT !.id = i + m]
                                                     ELSE rs.rules[i]]]
<1> DEFINE rules == rs.rules
           n == Len(rules)
           f == [i \in 1..n |-> rules[i].id]
           U == {f[i] : i \in 1..n}
           used == {rules[i].id : i \in DOMAIN rules}
<1>1. n \in Nat \ {0} /\ DOMAIN rules = 1..n /\ \A i \in 1..n : rules[i] \in RuleRecords
  BY DEF RuleSets
<1>2. \A i \in 1..n : rules[i].id \in Nat
  BY <1>1 DEF RuleRecords
<1>3. f \in [1..n -> Int] /\ \A i \in 1..n : f[i] \in Nat
  <2> HIDE DEF n, rules
  <2> QED BY <1>2
<1>4. used = U
  BY <1>1
<1>5. Max(used) \in Nat /\ \A i \in 1..n : rules[i].id <= Max(used)
  <2> HIDE DEF f, used, n, rules
  <2>1. Max(U) \in U /\ \A x \in U : x <= Max(U)
    BY <1>1, <1>3, MaxOf
  <2>2. U \subseteq Nat
    BY <1>3
  <2>3. \A i \in 1..n : rules[i].id \in used
    BY <1>1 DEF used
  <2> HIDE DEF U
  <2> QED BY <1>4, <2>1, <2>2, <2>3
<1>6. FillIds(rs) = [rs EXCEPT !.rules = [i \in DOMAIN rs.rules |->
                       IF rs.rules[i].id = 0 THEN [rs.rules[i] EXCEPT !.id = i + Max(used)]
                                             ELSE rs.rules[i]]]
  BY Zenon DEF FillIds
<1> HIDE DEF used
<1> QED BY <1>1, <1>5, <1>6

\* The id and nothing else of a rule changes.
LEMMA SavedFacts ==
  ASSUME NEW rs \in RuleSets
  PROVE  /\ Saved(rs) \in RuleSets
         /\ Validate(rs) => Validate(Saved(rs))
<1>1. CASE rs.rules = <<>>
  BY <1>1 DEF Saved
<1>2. CASE rs.rules # <<>>
  <2> DEFINE rules == rs.rules
             n == Len(rules)
  <2>1. PICK m \in Nat :
           /\ \A i \in DOMAIN rs.rules : rs.rules[i].id <= m
           /\ FillIds(rs) = [rs EXCEPT !.rules = [i \in DOMAIN rs.rules |->
                               IF rs.rules[i].id = 0 THEN [rs.rules[i] EXCEPT !.id = i + m]
                                                     ELSE rs.rules[i]]]
    BY <1>2, FillIdsIs
  <2> DEFINE new(i) == IF rules[i].id = 0 THEN [rules[i] EXCEPT !.id = i + m] ELSE rules[i]
             filled == [i \in DOMAIN rules |-> new(i)]
             out == Saved(rs)
  <2>2. out = [rs EXCEPT !.rules = filled]
    BY <1>2, <2>1 DEF Saved
  <2>3. n \in Nat /\ DOMAIN rules = 1..n /\ \A i \in 1..n : rules[i] \in RuleRecords
    BY DEF RuleSets
  <2>4. \A i \in 1..n : rules[i].id \in Nat /\ rules[i].id <= m
    BY <2>1, <2>3 DEF RuleRecords
  <2> HIDE DEF rules, n, out
  <2>5. ASSUME NEW i \in 1..n
        PROVE  /\ new(i) \in RuleRecords
               /\ new(i).id = IF rules[i].id = 0 THEN i + m ELSE rules[i].id
               /\ ValidRule(rules[i]) => ValidRule(new(i))
    <3>1. CASE rules[i].id # 0
      BY <2>3, <3>1
    <3>2. CASE rules[i].id = 0
      <4> DEFINE r == [rules[i] EXCEPT !.id = i + m]
      <4>1. i + m \in Nat /\ rules[i] \in RuleRecords
        BY <2>3
      <4>2. /\ r \in RuleRecords /\ r.id = i + m
            /\ r.wellNamed = rules[i].wellNamed /\ r.action = rules[i].action
            /\ r.source = rules[i].source /\ r.ports = rules[i].ports
            /\ r.protocol = rules[i].protocol /\ r.zone = rules[i].zone
            /\ r.schedule = rules[i].schedule /\ r.rateLimit = rules[i].rateLimit
            /\ r.direction = rules[i].direction
        BY <4>1 DEF RuleRecords
      <4>3. new(i) = r
        BY <3>2
      <4> HIDE DEF r, new
      <4>4. ValidRule(rules[i]) => ValidRule(r)
        BY <4>2, Zenon DEF ValidRule
      <4> QED BY <3>2, <4>2, <4>3, <4>4
    <3> QED BY <3>1, <3>2
  <2> HIDE DEF new
  <2>6. filled \in Seq(RuleRecords) /\ Len(filled) = n /\ DOMAIN filled = 1..n
        /\ \A i \in 1..n : filled[i] = new(i)
    <3>1. filled \in [1..n -> RuleRecords] /\ \A i \in 1..n : filled[i] = new(i)
      BY <2>3, <2>5
    <3> HIDE DEF filled
    <3> QED BY <2>3, <3>1, IsSequence
  <2> HIDE DEF filled
  <2>7. /\ out \in RuleSets /\ out.rules = filled /\ out.policy = rs.policy
        /\ out.v6Drop = rs.v6Drop /\ out.lan = rs.lan /\ out.hostIP = rs.hostIP
    BY <2>2, <2>6 DEF RuleSets
  <2>8. ASSUME Validate(rs) PROVE Validate(out)
    <3>1. /\ rs.policy \in {"deny", "allow"} /\ n <= MaxRules /\ Len(rs.v6Drop) <= MaxV6DropPorts
          /\ rs.lan \subseteq V4 /\ rs.hostIP \subseteq V4
          /\ \A i \in DOMAIN rs.v6Drop : ValidPort(rs.v6Drop[i])
          /\ \A i \in 1..n : ValidRule(rules[i])
          /\ DistinctIds(rules)
      BY <2>3, <2>8 DEF Validate, n, rules
    <3>2. DistinctIds(filled)
      <4>1. SUFFICES ASSUME NEW i \in 1..n, NEW j \in 1..n, i # j
                     PROVE  new(i).id # new(j).id
        BY <2>6 DEF DistinctIds
      <4>2. (rules[i].id # 0) => rules[i].id # rules[j].id
        BY <2>3, <3>1, <4>1 DEF DistinctIds
      <4>3. /\ rules[i].id \in Nat /\ rules[i].id <= m /\ rules[j].id \in Nat /\ rules[j].id <= m
            /\ i \in Nat \ {0} /\ j \in Nat \ {0}
        BY <2>3, <2>4
      <4>4. /\ new(i).id = IF rules[i].id = 0 THEN i + m ELSE rules[i].id
            /\ new(j).id = IF rules[j].id = 0 THEN j + m ELSE rules[j].id
        BY <2>5
      <4> QED BY <4>1, <4>2, <4>3, <4>4
    <3>3. \A i \in 1..n : ValidRule(filled[i])
      BY <2>5, <2>6, <3>1
    <3> QED BY <2>6, <2>7, <3>1, <3>2, <3>3 DEF Validate
  <2> QED BY <2>7, <2>8 DEF out
<1> QED BY <1>1, <1>2

----------------------------------------------------------------------------
(* Inv is an invariant, and with it what the scripts promise.               *)

LEMMA InitInv ==
  ASSUME Init
  PROVE  Inv
<1>1. containers \in Inventories /\ scripts = Recompiled(rulesJSON, containers, NoScripts)
  BY DEF Init
<1>2. PICK d \in Detected, t \in Tiers :
         \/ rulesJSON = Saved(Defaults(d.lan, d.hostIP, DockerPorts(containers)))
         \/ rulesJSON = Saved(FromTiers(t, DockerPorts(containers)))
  BY Zenon DEF Init
<1>3. Defaults(d.lan, d.hostIP, DockerPorts(containers)) \in RuleSets
  <2>1. d.lan \in AddressSets /\ d.hostIP \in AddressSets
    BY VerdictsAssumption
  <2> QED BY <1>1, <2>1, DefaultsType
<1>4. FromTiers(t, DockerPorts(containers)) \in RuleSets
  BY <1>1, FromTiersType
<1>5. rulesJSON \in RuleSets
  BY <1>2, <1>3, <1>4, SavedFacts, Zenon
<1> QED BY <1>1, <1>5 DEF Inv

\* A rule set that is accepted is saved and compiled.
LEMMA AcceptInv ==
  ASSUME Inv, NEW rs \in RuleSets, Accept(rs)
  PROVE  Inv'
<1>1. /\ Validate(rs) /\ rulesJSON' = Saved(rs) /\ containers' = containers
      /\ scripts' = Recompiled(rulesJSON', containers, scripts)
  BY Zenon DEF Accept
<1>2. rulesJSON' \in RuleSets /\ Validate(rulesJSON')
  BY <1>1, SavedFacts
<1>3. \A old : Recompiled(rulesJSON', containers, old)
                 = [bash |-> Compile(Bound(rulesJSON', containers), DockerPorts(containers)),
                    restore |-> CompileRestore(Bound(rulesJSON', containers), DockerPorts(containers))]
  BY <1>2, Zenon DEF Recompiled
<1>4. scripts' = Recompiled(rulesJSON', containers', NoScripts)
  BY <1>1, <1>3, Zenon
<1> QED BY <1>1, <1>2, <1>4 DEF Inv

\* A rule set that Validate refuses was there from the start: the scripts
\* stay empty.
LEMMA FollowInv ==
  ASSUME Inv, Follow
  PROVE  Inv'
<1>1. /\ containers' \in Inventories /\ rulesJSON' = rulesJSON
      /\ scripts' = Recompiled(rulesJSON, containers', scripts)
  BY DEF Follow
<1>2. scripts' = Recompiled(rulesJSON, containers', NoScripts)
  <2>1. CASE Validate(rulesJSON)
    <3>1. \A old : Recompiled(rulesJSON, containers', old)
                     = [bash |-> Compile(Bound(rulesJSON, containers'), DockerPorts(containers')),
                        restore |-> CompileRestore(Bound(rulesJSON, containers'),
                                                   DockerPorts(containers'))]
      BY <2>1, Zenon DEF Recompiled
    <3> QED BY <1>1, <3>1, Zenon
  <2>2. CASE ~Validate(rulesJSON)
    <3>1. \A cs, old : Recompiled(rulesJSON, cs, old) = old
      BY <2>2, Zenon DEF Recompiled
    <3>2. scripts = NoScripts
      BY <3>1, Zenon DEF Inv
    <3> QED BY <1>1, <3>1, <3>2, Zenon
  <2> QED BY <2>1, <2>2
<1> QED BY <1>1, <1>2 DEF Inv

LEMMA NextInv ==
  ASSUME Inv, [Next]_vars
  PROVE  Inv'
<1>1. rulesJSON \in RuleSets /\ containers \in Inventories
  BY DEF Inv
<1>2. CASE PostRules
  <2>1. PICK rs \in Posted : Accept(rs)
    BY <1>2 DEF PostRules
  <2>2. rs \in RuleSets
    BY VerdictsAssumption
  <2> QED BY <2>1, <2>2, AcceptInv
<1>3. CASE \E t \in Catalogue : AddTemplate(t)
  <2>1. PICK t \in Catalogue : AddTemplate(t)
    BY <1>3
  <2>2. PICK lan \in KnownLANs : Accept(Extended(t, lan))
    BY <2>1 DEF AddTemplate
  <2>3. lan \in AddressSets
    <3>1. rulesJSON.lan \in AddressSets /\ \A d \in Detected : d.lan \in AddressSets
      BY <1>1, VerdictsAssumption DEF RuleSets
    <3> QED BY <3>1 DEF KnownLANs
  <2>4. Extended(t, lan) \in RuleSets
    BY <1>1, <2>3, ExtendedType
  <2> QED BY <2>2, <2>4, AcceptInv
<1>4. CASE ResetDefaults
  <2>1. PICK d \in IF rulesJSON.lan # {} THEN {rulesJSON} ELSE Detected :
           Accept(Defaults(d.lan, d.hostIP, DockerPorts(containers)))
    BY <1>4, Zenon DEF ResetDefaults
  <2>2. d.lan \in AddressSets /\ d.hostIP \in AddressSets
    <3>1. d = rulesJSON \/ d \in Detected
      BY <2>1
    <3> QED BY <1>1, <3>1, VerdictsAssumption DEF RuleSets
  <2>3. Defaults(d.lan, d.hostIP, DockerPorts(containers)) \in RuleSets
    BY <1>1, <2>2, DefaultsType
  <2> QED BY <2>1, <2>3, AcceptInv
<1>5. CASE Follow
  BY <1>5, FollowInv
<1>6. CASE UNCHANGED vars
  <2>1. rulesJSON' = rulesJSON /\ containers' = containers /\ scripts' = scripts
    BY <1>6 DEF vars
  <2> QED BY <2>1 DEF Inv
<1> QED BY <1>2, <1>3, <1>4, <1>5, <1>6 DEF Next

\* rules.json always holds a rule set, and what the two scripts hold is the
\* compilation of it against the inventory of the last recompile: nothing of
\* an earlier rule set or inventory is left, whatever was posted, added,
\* reset or refused in between (recompileLocked, rules.Save).
THEOREM ScriptsAreCurrent == Spec => []Inv
<1>1. Init => Inv
  BY InitInv
<1>2. Inv /\ [Next]_vars => Inv'
  BY NextInv
<1> QED BY <1>1, <1>2, PTL DEF Spec

\* The compiler is right: for every rule set, inventory and packet the chain
\* decides what the first covering rule, or else the policy, says.
THEOREM CompilerCorrect == Spec => []VerdictsFollowRules
<1>1. Inv => VerdictsFollowRules
  BY InvVerdicts
<1> QED BY <1>1, ScriptsAreCurrent, PTL

\* iptables refuses no line of a compiled script: the addresses are of the
\* chain's family, and no line lists more ports than multiport takes.
THEOREM ScriptsLoad == Spec => []LinesLoad
<1>1. Inv => LinesLoad
  BY InvLinesLoad
<1> QED BY <1>1, ScriptsAreCurrent, PTL

\* The two renderings of the compiler, which write the lines around the rules
\* twice, agree line by line.
THEOREM RenderingsAgree == Spec => []RestoreMatchesBash
<1>1. Inv => RestoreMatchesBash
  BY InvRestore
<1> QED BY <1>1, ScriptsAreCurrent, PTL

----------------------------------------------------------------------------
(* What the rules intend, of any rule set and inventory: Intended with its  *)
(* state as arguments, so that two states can be compared.                  *)

InZoneAt(r, c, n, dp) ==
    \/ r.zone = ZoneOf(c)
    \/ r.zone = "auto" /\ c \notin Inbound
    \/ /\ r.zone = "auto" /\ c \in Inbound
       /\ (r.ports.type = "list" /\ n \in dp) <=> (ZoneOf(c) = "docker")

CoversAt(r, c, p, dp) ==
    /\ r.enabled
    /\ IsOutbound(r) <=> c \notin Inbound
    /\ InZoneAt(r, c, PortOf(c, p), dp)
    /\ FromPeer(r.source, PeerOf(c, p))
    /\ \/ p.proto = r.protocol
       \/ r.protocol = "both" /\ (p.proto \in {"tcp", "udp"} \/ r.ports.type = "all")
    /\ HasPort(r.ports, PortOf(c, p))
    /\ \A i \in DOMAIN r.schedule : p.at \in ActiveAt(r.schedule[i])

CoveringAt(rules, c, p, dp) == {i \in DOMAIN rules : CoversAt(rules[i], c, p, dp)}
Earliest(rules, covering) == CHOOSE i \in covering : \A j \in covering : Comes(rules, i, j)

Settled(rules, c, p, dp, byPolicy) ==
    LET covering == CoveringAt(rules, c, p, dp)
    IN  \/ covering = {} /\ byPolicy
        \/ covering # {} /\ ByRule(rules[Earliest(rules, covering)], p)

\* The rules decide as Covers and First say, whatever state they come from.
LEMMA IntendedSettles ==
  ASSUME NEW c, NEW p
  PROVE  Intended(c, p) <=>
           /\ ~(c \in {"ZFW-IN", "ZFW-IN6"} /\ p.ct = "INVALID")
           /\ \/ Essential(c, p)
              \/ Settled(Bound(rulesJSON, containers).rules, c, p, DockerPorts(containers),
                         ByPolicy(c, p))
<1> DEFINE rules == Bound(rulesJSON, containers).rules
           dp == DockerPorts(containers)
<1>1. \A r : Covers(r, c, p) <=> CoversAt(r, c, p, dp)
  BY Zenon DEF Covers, CoversAt, InZone, InZoneAt
<1>2. Covering(rules, c, p) = CoveringAt(rules, c, p, dp)
  <2> HIDE DEF rules, dp
  <2> QED BY <1>1 DEF Covering, CoveringAt
<1>3. First(rules, c, p) = Earliest(rules, CoveringAt(rules, c, p, dp))
  <2> HIDE DEF rules, dp
  <2> QED BY <1>2, Zenon DEF First, Earliest
<1>4. Intended(c, p) <=>
        Verdict(c \in {"ZFW-IN", "ZFW-IN6"} /\ p.ct = "INVALID", Essential(c, p), ByPolicy(c, p),
                rules, c, p)
  BY IntendedIs, Zenon
<1> HIDE DEF rules, dp
<1>5. Intended(c, p) <=>
        /\ ~(c \in {"ZFW-IN", "ZFW-IN6"} /\ p.ct = "INVALID")
        /\ Essential(c, p) \/ Settled(rules, c, p, dp, ByPolicy(c, p))
  BY <1>2, <1>3, <1>4, Zenon DEF Verdict, Settled
<1> QED BY <1>5 DEF rules, dp

\* A rule set that covers a packet at all has an earliest rule that does.
LEMMA EarliestExists ==
  ASSUME NEW rules \in Seq(GoodRules), NEW cov \in SUBSET (DOMAIN rules), cov # {}
  PROVE  /\ Earliest(rules, cov) \in cov
         /\ \A j \in cov : Comes(rules, Earliest(rules, cov), j)
<1> DEFINE D == DOMAIN rules
           n == Len(rules)
<1>1. PICK place : /\ Lists(place, D, Before(rules)) /\ Cardinality(D) = n
                   /\ Len(rules) \in Nat
  BY SortedFacts
<1>2. D = 1..n /\ \A i \in D : rules[i] \in GoodRules
  OBVIOUS
<1> DEFINE K == {k \in 1..n : place[k] \in cov}
<1>3. K \subseteq Nat /\ K # {}
  <2>1. PICK x \in cov : TRUE
    OBVIOUS
  <2>2. PICK k \in 1..n : place[k] = x
    <3> HIDE DEF D, n
    <3> QED BY <1>1, <2>1 DEF Lists, D
  <2> QED BY <2>1, <2>2
<1>4. PICK k \in K : \A l \in K : k <= l
  <2> HIDE DEF K
  <2> QED BY <1>3, Least
<1>5. ASSUME NEW j \in cov PROVE Comes(rules, place[k], j)
  <2>1. PICK l \in 1..n : place[l] = j
    <3> HIDE DEF n
    <3> QED BY <1>1 DEF Lists
  <2>2. k <= l
    BY <1>4, <2>1
  <2>3. CASE k = l
    <3>1. j \in D /\ j \in Int /\ rules[j].order \in Int
      BY <1>2 DEF GoodRules, RuleRecords
    <3> QED BY <2>1, <2>3, <3>1 DEF Comes
  <2>4. CASE k < l
    <3>1. <<place[k], place[l]>> \in Before(rules)
      <4> HIDE DEF n, D
      <4> QED BY <1>1, <2>1, <2>4, <1>4 DEF Lists, K
    <3>2. /\ place[k] \in D /\ j \in D
          /\ \/ rules[place[k]].order < rules[j].order
             \/ rules[place[k]].order = rules[j].order /\ place[k] < j
      BY <2>1, <3>1 DEF Before
    <3> QED BY <1>2, <3>2 DEF Comes
  <2> QED BY <2>2, <2>3, <2>4
<1>6. place[k] \in cov
  BY <1>4
<1>7. \E i \in cov : \A j \in cov : Comes(rules, i, j)
  BY <1>5, <1>6
<1> QED BY <1>7, Zenon DEF Earliest

----------------------------------------------------------------------------
(* Rules behind the others that only allow.                                 *)

\* Two rules that differ in nothing but the id, the name and the logging.
Alike(r, s) ==
  /\ r.order = s.order /\ r.enabled = s.enabled /\ r.action = s.action /\ r.source = s.source
  /\ r.ports = s.ports /\ r.protocol = s.protocol /\ r.zone = s.zone /\ r.schedule = s.schedule
  /\ r.rateLimit = s.rateLimit /\ r.direction = s.direction /\ r.containerID = s.containerID

Allows(r) == r.action = "allow" /\ r.rateLimit = <<>>

LEMMA AlikeFacts ==
  ASSUME NEW r, NEW s, Alike(r, s), NEW c, NEW p, NEW dp, NEW zone
  PROVE  /\ CoversAt(r, c, p, dp) <=> CoversAt(s, c, p, dp)
         /\ ByRule(r, p) <=> ByRule(s, p)
         /\ Mine(r, zone) <=> Mine(s, zone)
<1>1. CoversAt(r, c, p, dp) <=> CoversAt(s, c, p, dp)
  BY Zenon DEF Alike, CoversAt, InZoneAt, IsOutbound
<1>2. ByRule(r, p) <=> ByRule(s, p)
  BY Zenon DEF Alike, ByRule
<1>3. Mine(r, zone) <=> Mine(s, zone)
  BY Zenon DEF Alike, Mine, IsOutbound
<1> QED BY <1>1, <1>2, <1>3

LEMMA AllowsFacts ==
  ASSUME NEW r, Allows(r), NEW p
  PROVE  ByRule(r, p)
BY DEF Allows, ByRule

\* Q is R, and behind it rules that only allow.
Appended(R, Q) ==
  /\ DOMAIN R \subseteq DOMAIN Q
  /\ \A i \in DOMAIN R : Alike(R[i], Q[i])
  /\ \A i \in DOMAIN Q \ DOMAIN R : Allows(Q[i]) /\ \A j \in DOMAIN R : R[j].order < Q[i].order

\* No packet that passed is stopped by rules that only allow and come last.
LEMMA AppendedOpens ==
  ASSUME NEW R \in Seq(GoodRules), NEW Q \in Seq(GoodRules), Appended(R, Q),
         NEW c, NEW p, NEW dp, NEW byPolicy, Settled(R, c, p, dp, byPolicy)
  PROVE  Settled(Q, c, p, dp, byPolicy)
<1> DEFINE covR == CoveringAt(R, c, p, dp)
           covQ == CoveringAt(Q, c, p, dp)
           a == Earliest(R, covR)
           b == Earliest(Q, covQ)
<1>1. covR \subseteq DOMAIN R /\ covQ \subseteq DOMAIN Q
  BY DEF CoveringAt
<1>2. covR = covQ \cap DOMAIN R
  <2>1. ASSUME NEW i \in DOMAIN R
        PROVE  i \in DOMAIN Q /\ (CoversAt(R[i], c, p, dp) <=> CoversAt(Q[i], c, p, dp))
    BY AlikeFacts DEF Appended
  <2> QED BY <2>1 DEF CoveringAt
<1>3. /\ covR # {} => a \in covR /\ \A j \in covR : Comes(R, a, j)
      /\ covQ # {} => b \in covQ /\ \A j \in covQ : Comes(Q, b, j)
  <2> HIDE DEF covR, covQ
  <2> QED BY <1>1, EarliestExists
<1>4. \/ covR = {} /\ byPolicy
      \/ covR # {} /\ ByRule(R[a], p)
  BY Zenon DEF Settled
<1>5. /\ \A i \in DOMAIN R : R[i].order \in Int /\ i \in Int
      /\ \A i \in DOMAIN Q : Q[i].order \in Int /\ i \in Int
      /\ \A i \in DOMAIN R : i \in DOMAIN Q /\ R[i].order = Q[i].order
  <2>1. \A r \in GoodRules : r.order \in Int
    BY DEF GoodRules, RuleRecords
  <2>2. \A i \in DOMAIN R : i \in DOMAIN Q /\ R[i].order = Q[i].order
    BY DEF Appended, Alike
  <2> QED BY <2>1, <2>2
<1>6. Settled(Q, c, p, dp, byPolicy) <=>
        \/ covQ = {} /\ byPolicy
        \/ covQ # {} /\ ByRule(Q[b], p)
  BY Zenon DEF Settled
<1> HIDE DEF covR, covQ, a, b
<1>7. CASE covR = {} /\ covQ = {}
  BY <1>4, <1>6, <1>7
<1>8. CASE covR = {} /\ covQ # {}
  <2>1. b \in DOMAIN Q \ DOMAIN R
    BY <1>1, <1>2, <1>3, <1>8
  <2>2. Allows(Q[b])
    BY <2>1 DEF Appended
  <2> QED BY <1>6, <1>8, <2>2, AllowsFacts
<1>9. CASE covR # {}
  <2>1. a \in covR /\ a \in covQ /\ covQ # {} /\ b \in covQ /\ Comes(Q, b, a)
    BY <1>2, <1>3, <1>9
  <2>2. b \in DOMAIN R
    <3>1. SUFFICES ASSUME b \notin DOMAIN R PROVE FALSE
      OBVIOUS
    <3>2. R[a].order < Q[b].order
      BY <1>1, <2>1, <3>1 DEF Appended
    <3>3. a \in DOMAIN R /\ b \in DOMAIN Q
      BY <1>1, <2>1
    <3> QED BY <1>5, <2>1, <3>2, <3>3 DEF Comes
  <2>3. b \in covR /\ Comes(R, a, b)
    BY <1>2, <1>3, <1>9, <2>1, <2>2
  <2>4. a \in DOMAIN R
    BY <1>1, <2>1
  <2>5. a = b
    BY <1>5, <2>1, <2>2, <2>3, <2>4 DEF Comes
  <2>6. Alike(R[a], Q[a])
    BY <2>4 DEF Appended
  <2>7. ByRule(Q[b], p)
    BY <1>4, <1>9, <2>5, <2>6, AlikeFacts
  <2> QED BY <1>6, <2>1, <2>7
<1> QED BY <1>7, <1>8, <1>9

----------------------------------------------------------------------------
(* What saving and binding leave of the rules.                              *)

LEMMA AlikeItself ==
  ASSUME NEW r
  PROVE  Alike(r, r)
BY DEF Alike

\* Save changes ids only.
LEMMA SavedIsAlike ==
  ASSUME NEW rs \in RuleSets
  PROVE  /\ Saved(rs).lan = rs.lan /\ Saved(rs).hostIP = rs.hostIP
         /\ Saved(rs).policy = rs.policy /\ Saved(rs).v6Drop = rs.v6Drop
         /\ DOMAIN Saved(rs).rules = DOMAIN rs.rules
         /\ \A i \in DOMAIN rs.rules : Alike(rs.rules[i], Saved(rs).rules[i])
<1>1. CASE rs.rules = <<>>
  BY <1>1, AlikeItself DEF Saved
<1>2. CASE rs.rules # <<>>
  <2> DEFINE rules == rs.rules
             n == Len(rules)
  <2>1. PICK m \in Nat :
           /\ \A i \in DOMAIN rs.rules : rs.rules[i].id <= m
           /\ FillIds(rs) = [rs EXCEPT !.rules = [i \in DOMAIN rs.rules |->
                               IF rs.rules[i].id = 0 THEN [rs.rules[i] EXCEPT !.id = i + m]
                                                     ELSE rs.rules[i]]]
    BY <1>2, FillIdsIs
  <2> DEFINE new(i) == IF rules[i].id = 0 THEN [rules[i] EXCEPT !.id = i + m] ELSE rules[i]
             filled == [i \in DOMAIN rules |-> new(i)]
             out == Saved(rs)
  <2>2. out = [rs EXCEPT !.rules = filled]
    BY <1>2, <2>1 DEF Saved
  <2>3. n \in Nat /\ DOMAIN rules = 1..n /\ \A i \in 1..n : rules[i] \in RuleRecords
    BY DEF RuleSets
  <2> HIDE DEF rules, n, out
  <2>4. ASSUME NEW i \in 1..n PROVE Alike(rules[i], new(i))
    <3>1. CASE rules[i].id # 0
      <4>1. new(i) = rules[i]
        BY <3>1
      <4> QED BY <4>1, AlikeItself
    <3>2. CASE rules[i].id = 0
      <4> DEFINE r == [rules[i] EXCEPT !.id = i + m]
      <4>1. i + m \in Nat /\ rules[i] \in RuleRecords
        BY <2>3
      <4>2. Alike(rules[i], r)
        BY <4>1 DEF RuleRecords, Alike
      <4>3. new(i) = r
        BY <3>2
      <4> QED BY <4>2, <4>3, Zenon
    <3> QED BY <3>1, <3>2
  <2> HIDE DEF new
  <2>5. DOMAIN filled = 1..n /\ \A i \in 1..n : filled[i] = new(i)
    BY <2>3
  <2> HIDE DEF filled
  <2>6. /\ out.rules = filled /\ out.policy = rs.policy
        /\ out.v6Drop = rs.v6Drop /\ out.lan = rs.lan /\ out.hostIP = rs.hostIP
    BY <2>2 DEF RuleSets
  <2>7. DOMAIN out.rules = DOMAIN rules /\ \A i \in DOMAIN rules : Alike(rules[i], out.rules[i])
    BY <2>3, <2>4, <2>5, <2>6
  <2> QED BY <2>6, <2>7 DEF out, rules
<1> QED BY <1>1, <1>2

\* Rules that are alike are bound alike, and a rule without container as it is.
LEMMA BindAlike ==
  ASSUME NEW r \in RuleRecords, NEW s \in RuleRecords, Alike(r, s), NEW cs
  PROVE  Alike(Bind(r, cs), Bind(s, cs))
<1> DEFINE byID == {c \in cs : c.id = r.containerID}
           found == IF byID # {} THEN byID ELSE {c \in cs : c.name = r.containerID}
           ports == PortList((CHOOSE c \in found : TRUE).tcp)
           free == r.containerID = "" \/ \A c \in found : c.tcp = <<>>
<1>1. Bind(r, cs) = IF free THEN r ELSE [r EXCEPT !.ports = ports]
  BY Zenon DEF Bind
<1>2. Bind(s, cs) = IF free THEN s ELSE [s EXCEPT !.ports = ports]
  <2>1. r.containerID = s.containerID
    BY DEF Alike
  <2> QED BY <2>1, Zenon DEF Bind
<1> HIDE DEF free, ports
<1>3. Alike([r EXCEPT !.ports = ports], [s EXCEPT !.ports = ports])
  BY DEF RuleRecords, Alike
<1> QED BY <1>1, <1>2, <1>3

LEMMA BindFree ==
  ASSUME NEW r \in RuleRecords, r.containerID = "", NEW cs
  PROVE  Bind(r, cs) = r
BY Zenon DEF Bind

LEMMA BoundIs ==
  ASSUME NEW rs \in RuleSets, NEW cs
  PROVE  /\ DOMAIN Bound(rs, cs).rules = DOMAIN rs.rules
         /\ \A i \in DOMAIN rs.rules : Bound(rs, cs).rules[i] = Bind(rs.rules[i], cs)
<1> DEFINE bound == [i \in DOMAIN rs.rules |-> Bind(rs.rules[i], cs)]
<1>1. Bound(rs, cs) = [rs EXCEPT !.rules = bound]
  BY Zenon DEF Bound
<1>2. DOMAIN bound = DOMAIN rs.rules /\ \A i \in DOMAIN rs.rules : bound[i] = Bind(rs.rules[i], cs)
  OBVIOUS
<1> HIDE DEF bound
<1>3. Bound(rs, cs).rules = bound
  BY <1>1 DEF RuleSets
<1> QED BY <1>2, <1>3

\* The bound rules of a valid rule set are good ones.
LEMMA BoundIsGood ==
  ASSUME NEW rs \in RuleSets, Validate(rs), NEW cs \in Inventories
  PROVE  Bound(rs, cs).rules \in Seq(GoodRules)
<1> DEFINE n == Len(rs.rules)
           B == Bound(rs, cs).rules
           bound == [i \in DOMAIN rs.rules |-> Bind(rs.rules[i], cs)]
<1>1. /\ n \in Nat /\ DOMAIN rs.rules = 1..n
      /\ \A i \in 1..n : rs.rules[i] \in RuleRecords /\ ValidRule(rs.rules[i])
  BY DEF RuleSets, Validate
<1>2. \A i \in 1..n : Bind(rs.rules[i], cs) \in GoodRules
  BY <1>1, BindIsGood
<1>3. Bound(rs, cs) = [rs EXCEPT !.rules = bound]
  BY Zenon DEF Bound
<1>4. bound \in [1..n -> GoodRules]
  <2> HIDE DEF n
  <2> QED BY <1>1, <1>2
<1> HIDE DEF bound, n
<1>5. B = bound
  BY <1>3 DEF RuleSets
<1> QED BY <1>1, <1>4, <1>5, IsSequence

\* What a template adds comes behind the other rules and only allows.
LEMMA TemplateAppends ==
  ASSUME rulesJSON \in RuleSets, NEW name \in Catalogue \cap DOMAIN Opens, NEW lan \in AddressSets
  PROVE  LET next == Extended(name, lan)
             old == rulesJSON.rules
         IN  /\ next.lan = rulesJSON.lan /\ next.hostIP = rulesJSON.hostIP
             /\ next.policy = rulesJSON.policy /\ next.v6Drop = rulesJSON.v6Drop
             /\ DOMAIN old \subseteq DOMAIN next.rules
             /\ \A i \in DOMAIN old : next.rules[i] = old[i]
             /\ \A i \in DOMAIN next.rules \ DOMAIN old :
                   /\ Allows(next.rules[i]) /\ next.rules[i].containerID = ""
                   /\ \A j \in DOMAIN old : old[j].order < next.rules[i].order
<1> DEFINE last == Max({0} \cup {rulesJSON.rules[i].order : i \in DOMAIN rulesJSON.rules})
           added == Template(name, lan)
           old == rulesJSON.rules
           n == Len(old)
           m == Len(added)
           behind == [i \in DOMAIN added |-> [added[i] EXCEPT !.order = last + 10 * i]]
           rules == old \o behind
           next == Extended(name, lan)
<1>1. old \in Seq(RuleRecords) /\ last \in Int
  <2>1. old \in Seq(RuleRecords)
    BY DEF RuleSets
  <2> QED BY <2>1, LastOrder
<1>2. added \in Seq(RuleRecords)
  BY TemplateType
<1>3. next = [rulesJSON EXCEPT !.rules = rules]
  BY DEF Extended
<1>4. \A j \in DOMAIN old : old[j].order <= last
  BY <1>1, LastOrder
<1>5. ASSUME NEW i \in DOMAIN added PROVE Allows(added[i]) /\ added[i].containerID = ""
  <2> DEFINE rule(k) == BareRule(0, "allow", LanSource(lan), PortList(Opens[name][k][2]),
                                 Opens[name][k][1], "auto")
  <2>1. name \notin DOMAIN Blocks
    <3>1. DOMAIN Blocks = {"vnc", "nfs"}
      BY DEF Blocks
    <3>2. "vnc" \notin DOMAIN Opens /\ "nfs" \notin DOMAIN Opens
      BY DEF Opens
    <3> QED BY <3>1, <3>2
  <2>2. added = [k \in DOMAIN Opens[name] |-> rule(k)]
    BY <2>1, Zenon DEF Template
  <2>3. \A k : Allows(rule(k)) /\ rule(k).containerID = ""
    BY DEF BareRule, Allows
  <2> HIDE DEF rule, added
  <2>4. added[i] = rule(i)
    BY <2>2
  <2> QED BY <2>3, <2>4
<1> HIDE DEF last, added
<1>6. /\ n \in Nat /\ DOMAIN old = 1..n
      /\ m \in Nat /\ DOMAIN added = 1..m /\ \A i \in 1..m : added[i] \in RuleRecords
  BY <1>1, <1>2
<1> HIDE DEF m
<1>7. ASSUME NEW i \in 1..m
      PROVE  /\ behind[i] \in RuleRecords /\ Allows(behind[i]) /\ behind[i].containerID = ""
             /\ \A j \in DOMAIN old : old[j].order < behind[i].order
  <2> DEFINE o == last + 10 * i
             r == [added[i] EXCEPT !.order = o]
  <2>1. o \in Int /\ last < o /\ added[i] \in RuleRecords
    BY <1>1, <1>6
  <2>2. behind[i] = r
    BY <1>6
  <2> HIDE DEF o
  <2>3. /\ r \in RuleRecords /\ r.order = o /\ r.action = added[i].action
        /\ r.rateLimit = added[i].rateLimit /\ r.containerID = added[i].containerID
    BY <2>1 DEF RuleRecords
  <2>4. Allows(r) /\ r.containerID = ""
    BY <1>5, <1>6, <2>3 DEF Allows
  <2>5. \A j \in DOMAIN old : old[j].order < r.order
    <3>1. \A j \in DOMAIN old : old[j].order \in Int /\ old[j].order <= last
      <4>1. \A j \in DOMAIN old : old[j] \in RuleRecords
        BY <1>1
      <4>2. \A x \in RuleRecords : x.order \in Int
        BY DEF RuleRecords
      <4> HIDE DEF old
      <4> QED BY <1>4, <4>1, <4>2
    <3> QED BY <1>1, <2>1, <2>3, <3>1
  <2> HIDE DEF r
  <2> QED BY <2>2, <2>3, <2>4, <2>5
<1>8. behind \in Seq(RuleRecords) /\ Len(behind) = m
  <2>1. DOMAIN behind = 1..m /\ behind = [i \in 1..m |-> behind[i]]
    BY <1>6
  <2> HIDE DEF behind
  <2>2. behind \in [1..m -> RuleRecords]
    BY <1>7, <2>1
  <2> QED BY <1>6, <2>2, IsSequence
<1> HIDE DEF behind, old
<1>9. /\ DOMAIN rules = 1..(n + m) /\ \A i \in 1..n : rules[i] = old[i]
      /\ \A i \in (n + 1)..(n + m) : i - n \in 1..m /\ rules[i] = behind[i - n]
  BY <1>1, <1>6, <1>8
<1> HIDE DEF n, rules
<1>10. /\ DOMAIN old \subseteq DOMAIN rules /\ \A i \in DOMAIN old : rules[i] = old[i]
       /\ \A i \in DOMAIN rules \ DOMAIN old : i \in (n + 1)..(n + m)
  BY <1>6, <1>9
<1>11. ASSUME NEW i \in DOMAIN rules \ DOMAIN old
       PROVE  /\ Allows(rules[i]) /\ rules[i].containerID = ""
              /\ \A j \in DOMAIN old : old[j].order < rules[i].order
  BY <1>7, <1>9, <1>10
<1>12. /\ next.rules = rules /\ next.lan = rulesJSON.lan /\ next.hostIP = rulesJSON.hostIP
       /\ next.policy = rulesJSON.policy /\ next.v6Drop = rulesJSON.v6Drop
  BY <1>3 DEF RuleSets
<1> HIDE DEF next
<1> QED BY <1>10, <1>11, <1>12 DEF next, old

----------------------------------------------------------------------------
(* The chains of a rule set remain when rules are added.                    *)

\* Sorted keeps the rules that are switched on, and only them.
LEMMA SortedElements ==
  ASSUME NEW rules \in Seq(GoodRules), NEW zone
  PROVE  (\E k \in DOMAIN Sorted(rules) : Mine(Sorted(rules)[k], zone))
           <=> (\E i \in DOMAIN rules : rules[i].enabled /\ Mine(rules[i], zone))
<1> DEFINE D == DOMAIN rules
           n == Len(rules)
<1>1. PICK place : /\ Lists(place, D, Before(rules)) /\ Cardinality(D) = n /\ n \in Nat
                   /\ Sorted(rules) = Picked([k \in D |-> rules[place[k]]], SwitchedOn)
  BY SortedFacts
<1> DEFINE ordered == [k \in D |-> rules[place[k]]]
<1>2. D = 1..n /\ \A i \in D : rules[i] \in GoodRules
  OBVIOUS
<1>3. /\ \A k \in D : place[k] \in D
      /\ \A i \in D : \E k \in D : place[k] = i
  <2> HIDE DEF D, n
  <2> QED BY <1>1, <1>2 DEF Lists
<1>4. ordered \in Seq(GoodRules)
  <2>1. ordered \in [1..n -> GoodRules]
    <3> HIDE DEF D, n
    <3> QED BY <1>2, <1>3
  <2> HIDE DEF ordered
  <2> QED BY <1>1, <2>1, IsSequence
<1>5. \A x : x \in ToSet(Sorted(rules)) <=> (x \in ToSet(ordered) /\ x \in SwitchedOn)
  <2> HIDE DEF ordered
  <2>1. \A x : x \in ToSet(Picked(ordered, SwitchedOn)) <=> (x \in ToSet(ordered) /\ x \in SwitchedOn)
    BY <1>4, PickedElements
  <2>2. Sorted(rules) = Picked(ordered, SwitchedOn)
    BY <1>1 DEF ordered
  <2> QED BY <2>1, <2>2
<1>6. \A x : x \in ToSet(ordered) <=> \E i \in D : x = rules[i]
  <2>1. ToSet(ordered) = {rules[place[k]] : k \in D}
    BY DEF ToSet
  <2> HIDE DEF ordered, D
  <2> QED BY <1>3, <2>1
<1>7. \A i \in D : rules[i] \in SwitchedOn <=> rules[i].enabled
  BY <1>2 DEF SwitchedOn
<1> HIDE DEF ordered, D
<1>8. (\E x \in ToSet(Sorted(rules)) : Mine(x, zone))
        <=> (\E i \in D : rules[i].enabled /\ Mine(rules[i], zone))
  BY <1>5, <1>6, <1>7
<1>9. (\E x \in ToSet(Sorted(rules)) : Mine(x, zone))
        <=> (\E k \in DOMAIN Sorted(rules) : Mine(Sorted(rules)[k], zone))
  BY DEF ToSet
<1> QED BY <1>8, <1>9 DEF D

\* Which chains a compiled script has.
LEMMA ChainsOf ==
  ASSUME NEW rs, NEW dp, rs.rules \in Seq(GoodRules), NEW c
  PROVE  c \in DOMAIN Compile(rs, dp) <=>
           \/ c \in Inbound
           \/ /\ c \in {"ZFW-OUT", "ZFW-OUT6"}
              /\ \E i \in DOMAIN rs.rules : rs.rules[i].enabled /\ Mine(rs.rules[i], "host")
           \/ /\ c = "ZFW-FWD-OUT"
              /\ \E i \in DOMAIN rs.rules : rs.rules[i].enabled /\ Mine(rs.rules[i], "docker")
<1> DEFINE rl == Sorted(rs.rules)
           host == OutboundOf(rl, "host")
           docker == OutboundOf(rl, "docker")
<1>1. rl \in Seq(GoodRules)
  BY SortedType
<1>2. DOMAIN Compile(rs, dp) = {"ZFW-IN", "DOCKER-USER", "ZFW-IN6"} \cup DOMAIN OutboundChains(rl)
  BY CompileIs, Zenon
<1>3. DOMAIN OutboundChains(rl)
         = (IF host = <<>> THEN {} ELSE {"ZFW-OUT", "ZFW-OUT6"})
           \cup (IF docker = <<>> THEN {} ELSE {"ZFW-FWD-OUT"})
  BY <1>1, OutboundChainsAre
<1>4. \A zone : OutboundOf(rl, zone) = <<>> <=> \A i \in DOMAIN rl : ~Mine(rl[i], zone)
  BY <1>1, OutboundOfFacts, LinesTypes
<1>5. \A zone : (\E k \in DOMAIN rl : Mine(rl[k], zone))
                  <=> (\E i \in DOMAIN rs.rules : rs.rules[i].enabled /\ Mine(rs.rules[i], zone))
  BY SortedElements
<1>6. /\ host # <<>> <=> \E i \in DOMAIN rs.rules : rs.rules[i].enabled /\ Mine(rs.rules[i], "host")
      /\ docker # <<>> <=> \E i \in DOMAIN rs.rules : rs.rules[i].enabled /\ Mine(rs.rules[i], "docker")
  <2> HIDE DEF rl
  <2> QED BY <1>4, <1>5
<1> HIDE DEF rl, host, docker
<1> QED BY <1>2, <1>3, <1>6 DEF Inbound

\* Rules that are appended take no chain away.
LEMMA AppendedChains ==
  ASSUME NEW rs, NEW next, NEW dp, rs.rules \in Seq(GoodRules), next.rules \in Seq(GoodRules),
         Appended(rs.rules, next.rules)
  PROVE  DOMAIN Compile(rs, dp) \subseteq DOMAIN Compile(next, dp)
<1> DEFINE R == rs.rules
           Q == next.rules
<1>1. ASSUME NEW zone, NEW i \in DOMAIN R, R[i].enabled, Mine(R[i], zone)
      PROVE  \E j \in DOMAIN Q : Q[j].enabled /\ Mine(Q[j], zone)
  <2>1. i \in DOMAIN Q /\ Alike(R[i], Q[i])
    BY DEF Appended
  <2>2. Q[i].enabled
    BY <1>1, <2>1 DEF Alike
  <2>3. Mine(Q[i], zone)
    BY <1>1, <2>1, AlikeFacts
  <2> QED BY <2>1, <2>2, <2>3
<1> SUFFICES ASSUME NEW c, c \in DOMAIN Compile(rs, dp) PROVE c \in DOMAIN Compile(next, dp)
  OBVIOUS
<1>2. \/ c \in Inbound
      \/ c \in {"ZFW-OUT", "ZFW-OUT6"} /\ \E i \in DOMAIN R : R[i].enabled /\ Mine(R[i], "host")
      \/ c = "ZFW-FWD-OUT" /\ \E i \in DOMAIN R : R[i].enabled /\ Mine(R[i], "docker")
  BY ChainsOf
<1>3. \/ c \in Inbound
      \/ c \in {"ZFW-OUT", "ZFW-OUT6"} /\ \E i \in DOMAIN Q : Q[i].enabled /\ Mine(Q[i], "host")
      \/ c = "ZFW-FWD-OUT" /\ \E i \in DOMAIN Q : Q[i].enabled /\ Mine(Q[i], "docker")
  BY <1>1, <1>2
<1> QED BY <1>3, ChainsOf

----------------------------------------------------------------------------
(* What a step does to packets.                                             *)

LEMMA BindOrder ==
  ASSUME NEW r \in RuleRecords, NEW cs
  PROVE  Bind(r, cs).order = r.order
<1> DEFINE byID == {c \in cs : c.id = r.containerID}
           found == IF byID # {} THEN byID ELSE {c \in cs : c.name = r.containerID}
           ports == PortList((CHOOSE c \in found : TRUE).tcp)
           free == r.containerID = "" \/ \A c \in found : c.tcp = <<>>
<1>1. Bind(r, cs) = IF free THEN r ELSE [r EXCEPT !.ports = ports]
  BY Zenon DEF Bind
<1> HIDE DEF free, ports
<1>2. [r EXCEPT !.ports = ports].order = r.order
  BY DEF RuleRecords
<1> QED BY <1>1, <1>2

\* The rules of a saved template, bound, stand behind the bound old rules.
LEMMA TemplateRules ==
  ASSUME rulesJSON \in RuleSets, NEW name \in Catalogue \cap DOMAIN Opens, NEW lan \in AddressSets,
         NEW cs
  PROVE  LET next == Saved(Extended(name, lan))
         IN  /\ next.lan = rulesJSON.lan /\ next.hostIP = rulesJSON.hostIP
             /\ next.policy = rulesJSON.policy /\ next.v6Drop = rulesJSON.v6Drop
             /\ Appended(Bound(rulesJSON, cs).rules, Bound(next, cs).rules)
<1> DEFINE ext == Extended(name, lan)
           next == Saved(ext)
           old == rulesJSON.rules
           R == Bound(rulesJSON, cs).rules
           Q == Bound(next, cs).rules
<1>1. ext \in RuleSets
  BY ExtendedType
<1>2. next \in RuleSets
  BY <1>1, SavedFacts
<1>3. /\ ext.lan = rulesJSON.lan /\ ext.hostIP = rulesJSON.hostIP
      /\ ext.policy = rulesJSON.policy /\ ext.v6Drop = rulesJSON.v6Drop
      /\ DOMAIN old \subseteq DOMAIN ext.rules
      /\ \A i \in DOMAIN old : ext.rules[i] = old[i]
      /\ \A i \in DOMAIN ext.rules \ DOMAIN old :
            /\ Allows(ext.rules[i]) /\ ext.rules[i].containerID = ""
            /\ \A j \in DOMAIN old : old[j].order < ext.rules[i].order
  BY TemplateAppends
<1> HIDE DEF ext
<1>4. /\ next.lan = ext.lan /\ next.hostIP = ext.hostIP
      /\ next.policy = ext.policy /\ next.v6Drop = ext.v6Drop
      /\ DOMAIN next.rules = DOMAIN ext.rules
      /\ \A i \in DOMAIN ext.rules : Alike(ext.rules[i], next.rules[i])
  BY <1>1, SavedIsAlike
<1> HIDE DEF next
<1>5. /\ DOMAIN R = DOMAIN old /\ \A i \in DOMAIN old : R[i] = Bind(old[i], cs)
      /\ DOMAIN Q = DOMAIN ext.rules /\ \A i \in DOMAIN ext.rules : Q[i] = Bind(next.rules[i], cs)
  BY <1>2, <1>4, BoundIs
<1>6. /\ \A i \in DOMAIN old : old[i] \in RuleRecords
      /\ \A i \in DOMAIN ext.rules : next.rules[i] \in RuleRecords
  <2>1. old \in Seq(RuleRecords) /\ next.rules \in Seq(RuleRecords)
    BY <1>2 DEF RuleSets
  <2> QED BY <1>4, <2>1
<1> HIDE DEF R, Q, old
<1>7. \A i \in DOMAIN R : Alike(R[i], Q[i])
  <2> SUFFICES ASSUME NEW i \in DOMAIN old PROVE Alike(Bind(old[i], cs), Bind(next.rules[i], cs))
    BY <1>3, <1>5
  <2>1. Alike(old[i], next.rules[i])
    BY <1>3, <1>4
  <2>2. old[i] \in RuleRecords /\ next.rules[i] \in RuleRecords
    BY <1>3, <1>6
  <2> QED BY <2>1, <2>2, BindAlike
<1>8. ASSUME NEW i \in DOMAIN Q \ DOMAIN R
      PROVE  Allows(Q[i]) /\ \A j \in DOMAIN R : R[j].order < Q[i].order
  <2>1. i \in DOMAIN ext.rules \ DOMAIN old
    BY <1>5
  <2>2. /\ Allows(next.rules[i]) /\ next.rules[i].containerID = ""
        /\ next.rules[i].order = ext.rules[i].order
    <3>1. Alike(ext.rules[i], next.rules[i]) /\ Allows(ext.rules[i]) /\ ext.rules[i].containerID = ""
      BY <1>3, <1>4, <2>1
    <3> QED BY <3>1 DEF Alike, Allows
  <2>3. Q[i] = next.rules[i]
    <3>1. next.rules[i] \in RuleRecords
      BY <1>6, <2>1
    <3>2. Bind(next.rules[i], cs) = next.rules[i]
      BY <2>2, <3>1, BindFree
    <3> QED BY <1>5, <2>1, <3>2
  <2>4. ASSUME NEW j \in DOMAIN R PROVE R[j].order < Q[i].order
    <3>1. j \in DOMAIN old /\ old[j] \in RuleRecords
      BY <1>5, <1>6
    <3>2. R[j].order = old[j].order
      BY <1>5, <3>1, BindOrder
    <3>3. old[j].order < ext.rules[i].order
      BY <1>3, <2>1, <3>1
    <3> QED BY <2>2, <2>3, <3>2, <3>3
  <2> QED BY <2>2, <2>3, <2>4
<1>9. DOMAIN R \subseteq DOMAIN Q
  BY <1>3, <1>5
<1>10. Appended(R, Q)
  BY <1>7, <1>8, <1>9 DEF Appended
<1> QED BY <1>3, <1>4, <1>10 DEF next, ext, R, Q

LEMMA KnownType ==
  ASSUME rulesJSON \in RuleSets
  PROVE  \A lan \in KnownLANs : lan \in AddressSets
<1>1. rulesJSON.lan \in AddressSets /\ \A d \in Detected : d.lan \in AddressSets
  BY VerdictsAssumption DEF RuleSets
<1> QED BY <1>1 DEF KnownLANs

\* A saved rule set is a valid one, and no container came or went.
LEMMA AcceptStep ==
  ASSUME Inv, [Next]_vars, posts' # posts
  PROVE  Validate(rulesJSON') /\ containers' = containers
<1>1. rulesJSON \in RuleSets /\ containers \in Inventories
  BY DEF Inv
<1>2. ASSUME NEW rs \in RuleSets, Accept(rs)
      PROVE  Validate(rulesJSON') /\ containers' = containers
  <2>1. Validate(rs) /\ rulesJSON' = Saved(rs) /\ containers' = containers
    BY <1>2, Zenon DEF Accept
  <2> QED BY <2>1, SavedFacts
<1>3. CASE PostRules
  <2>1. PICK rs \in Posted : Accept(rs)
    BY <1>3 DEF PostRules
  <2>2. rs \in RuleSets
    BY VerdictsAssumption
  <2> QED BY <2>1, <2>2, <1>2
<1>4. CASE \E t \in Catalogue : AddTemplate(t)
  <2>1. PICK t \in Catalogue : AddTemplate(t)
    BY <1>4
  <2>2. PICK lan \in KnownLANs : Accept(Extended(t, lan))
    BY <2>1 DEF AddTemplate
  <2>3. Extended(t, lan) \in RuleSets
    BY <1>1, KnownType, ExtendedType
  <2> QED BY <2>2, <2>3, <1>2
<1>5. CASE ResetDefaults
  <2>1. PICK d \in IF rulesJSON.lan # {} THEN {rulesJSON} ELSE Detected :
           Accept(Defaults(d.lan, d.hostIP, DockerPorts(containers)))
    BY <1>5, Zenon DEF ResetDefaults
  <2>2. d.lan \in AddressSets /\ d.hostIP \in AddressSets
    <3>1. d = rulesJSON \/ d \in Detected
      BY <2>1
    <3> QED BY <1>1, <3>1, VerdictsAssumption DEF RuleSets
  <2>3. Defaults(d.lan, d.hostIP, DockerPorts(containers)) \in RuleSets
    BY <1>1, <2>2, DefaultsType
  <2> QED BY <2>1, <2>3, <1>2
<1>6. CASE Follow
  BY <1>6 DEF Follow
<1>7. CASE UNCHANGED vars
  BY <1>7 DEF vars
<1> QED BY <1>3, <1>4, <1>5, <1>6, <1>7 DEF Next

LEMMA IntendedAlways ==
  \A c, p : Intended(c, p) <=>
              /\ ~(c \in {"ZFW-IN", "ZFW-IN6"} /\ p.ct = "INVALID")
              /\ \/ Essential(c, p)
                 \/ Settled(Bound(rulesJSON, containers).rules, c, p, DockerPorts(containers),
                            ByPolicy(c, p))
BY IntendedSettles

\* The same in the next state.
LEMMA IntendedNext ==
  (\A c, p : Intended(c, p) <=>
               /\ ~(c \in {"ZFW-IN", "ZFW-IN6"} /\ p.ct = "INVALID")
               /\ \/ Essential(c, p)
                  \/ Settled(Bound(rulesJSON, containers).rules, c, p, DockerPorts(containers),
                             ByPolicy(c, p)))'
BY IntendedAlways, PTL

\* Beside the rules, these settings are what a verdict depends on.
LEMMA SettingsDecide ==
  ASSUME rulesJSON'.lan = rulesJSON.lan, rulesJSON'.hostIP = rulesJSON.hostIP,
         rulesJSON'.policy = rulesJSON.policy, rulesJSON'.v6Drop = rulesJSON.v6Drop,
         NEW c, NEW p
  PROVE  (Essential(c, p)' <=> Essential(c, p)) /\ (ByPolicy(c, p)' <=> ByPolicy(c, p))
<1>1. Essential(c, p)' <=> Essential(c, p)
  BY DEF Essential
<1>2. ByPolicy(c, p)' <=> ByPolicy(c, p)
  BY DEF ByPolicy
<1> QED BY <1>1, <1>2

\* In a step that adds rules which allow, what passed a chain passes it.
LEMMA TemplateStep ==
  ASSUME Inv, Inv', VerdictsFollowRules, VerdictsFollowRules', [Next]_vars, posts' # posts,
         NEW t \in Catalogue \cap DOMAIN Opens, NEW lan \in KnownLANs,
         rulesJSON' = Saved(Extended(t, lan)),
         NEW c \in DOMAIN scripts.bash, NEW p \in Probes(c), Passes(scripts.bash[c], p)
  PROVE  Passes(scripts'.bash[c], p)
<1> DEFINE dp == DockerPorts(containers)
           R == Bound(rulesJSON, containers).rules
           Q == Bound(rulesJSON', containers).rules
<1>1. Validate(rulesJSON') /\ containers' = containers
  BY AcceptStep
<1>2. /\ rulesJSON \in RuleSets /\ containers \in Inventories
      /\ scripts = Recompiled(rulesJSON, containers, NoScripts)
      /\ rulesJSON' \in RuleSets /\ scripts' = Recompiled(rulesJSON', containers, NoScripts)
  BY <1>1 DEF Inv
<1>3. Validate(rulesJSON)
  <2>1. SUFFICES ASSUME ~Validate(rulesJSON) PROVE FALSE
    OBVIOUS
  <2>2. scripts = NoScripts
    BY <1>2, <2>1, Zenon DEF Recompiled
  <2>3. DOMAIN NoScripts.bash = {}
    BY DEF NoScripts
  <2> QED BY <2>2, <2>3
<1>4. /\ scripts.bash = Compile(Bound(rulesJSON, containers), dp)
      /\ scripts'.bash = Compile(Bound(rulesJSON', containers), dp)
  <2>1. scripts = [bash |-> Compile(Bound(rulesJSON, containers), dp),
                   restore |-> CompileRestore(Bound(rulesJSON, containers), dp)]
    BY <1>2, <1>3, Zenon DEF Recompiled
  <2>2. scripts' = [bash |-> Compile(Bound(rulesJSON', containers), dp),
                    restore |-> CompileRestore(Bound(rulesJSON', containers), dp)]
    BY <1>1, <1>2, Zenon DEF Recompiled
  <2> HIDE DEF dp
  <2> QED BY <2>1, <2>2
<1>5. R \in Seq(GoodRules) /\ Q \in Seq(GoodRules)
  BY <1>1, <1>2, <1>3, BoundIsGood
<1>6. /\ rulesJSON'.lan = rulesJSON.lan /\ rulesJSON'.hostIP = rulesJSON.hostIP
      /\ rulesJSON'.policy = rulesJSON.policy /\ rulesJSON'.v6Drop = rulesJSON.v6Drop
      /\ Appended(R, Q)
  <2>1. lan \in AddressSets
    BY <1>2, KnownType
  <2> QED BY <1>2, <2>1, TemplateRules
<1>7. c \in DOMAIN scripts'.bash
  BY <1>4, <1>5, <1>6, AppendedChains
<1>8. Passes(scripts'.bash[c], p) = Intended(c, p)'
  BY <1>1, <1>7, Zenon DEF VerdictsFollowRules
<1>9. Intended(c, p)
  BY <1>3 DEF VerdictsFollowRules
<1>10. (Essential(c, p)' <=> Essential(c, p)) /\ (ByPolicy(c, p)' <=> ByPolicy(c, p))
  BY <1>6, SettingsDecide
<1>11. Settled(R, c, p, dp, ByPolicy(c, p)) => Settled(Q, c, p, dp, ByPolicy(c, p))
  BY <1>5, <1>6, AppendedOpens
<1>12. Intended(c, p) <=>
         /\ ~(c \in {"ZFW-IN", "ZFW-IN6"} /\ p.ct = "INVALID")
         /\ Essential(c, p) \/ Settled(R, c, p, dp, ByPolicy(c, p))
  BY IntendedSettles, Zenon
<1>13. Intended(c, p)' <=>
         /\ ~(c \in {"ZFW-IN", "ZFW-IN6"} /\ p.ct = "INVALID")
         /\ Essential(c, p)' \/ Settled(Q, c, p, dp, ByPolicy(c, p)')
  BY <1>1, IntendedNext, Zenon
<1>14. Settled(Q, c, p, dp, ByPolicy(c, p)') <=> Settled(Q, c, p, dp, ByPolicy(c, p))
  BY <1>10, Zenon DEF Settled
<1> QED BY <1>8, <1>9, <1>10, <1>11, <1>12, <1>13, <1>14, Zenon

\* Templates that only allow close nothing, whatever rules they are added to.
THEOREM AllowingOpens == Spec => TemplatesOnlyOpen
<1>1. Inv /\ Inv' /\ VerdictsFollowRules /\ VerdictsFollowRules' /\ [Next]_vars
        => [\A t \in Catalogue \cap DOMAIN Opens : \A lan \in KnownLANs :
              (posts' # posts /\ rulesJSON' = Saved(Extended(t, lan))) =>
                \A c \in DOMAIN scripts.bash : \A p \in Probes(c) :
                    Passes(scripts.bash[c], p) => Passes(scripts'.bash[c], p)]_vars
  BY TemplateStep
<1> QED BY <1>1, ScriptsAreCurrent, CompilerCorrect, PTL DEF Spec, TemplatesOnlyOpen

----------------------------------------------------------------------------
(* The starter rules.                                                       *)

\* A rule that allows port n over TCP from the LAN, at any time.
Opened(r, lan, n, zone) ==
  /\ r.enabled /\ r.direction = "" /\ r.source = From(lan) /\ r.protocol = "tcp"
  /\ r.zone = zone /\ r.ports.type = "list" /\ n \in ToSet(r.ports.list) /\ r.schedule = <<>>

LEMMA OpenedCovers ==
  ASSUME NEW r, NEW lan, NEW c \in {"ZFW-IN", "DOCKER-USER"}, NEW p, NEW dp,
         Opened(r, lan, PortOf(c, p), ZoneOf(c)), p.proto = "tcp", p.src \in lan
  PROVE  CoversAt(r, c, p, dp)
<1>1. c \in Inbound /\ PeerOf(c, p) = p.src
  BY DEF Inbound, PeerOf
<1>2. FromPeer(r.source, PeerOf(c, p))
  <2>1. r.source = From(lan) /\ From(lan).type = "range" /\ From(lan).addrs = lan
    BY DEF Opened, From, AnySource
  <2> HIDE DEF From
  <2> QED BY <1>1, <2>1 DEF FromPeer
<1>3. HasPort(r.ports, PortOf(c, p)) /\ InZoneAt(r, c, PortOf(c, p), dp) /\ ~IsOutbound(r)
  BY DEF Opened, HasPort, InZoneAt, IsOutbound
<1>4. \A i \in DOMAIN r.schedule : p.at \in ActiveAt(r.schedule[i])
  <2>1. r.schedule = <<>>
    BY DEF Opened
  <2> QED BY <2>1
<1>5. r.enabled /\ p.proto = r.protocol
  BY DEF Opened
<1> QED BY <1>1, <1>2, <1>3, <1>4, <1>5 DEF CoversAt

LEMMA ListOpens ==
  ASSUME NEW order, NEW lan, NEW list, NEW protocol, NEW zone
  PROVE  LET r == BareRule(order, "allow", From(lan), PortList(list), protocol, zone)
         IN  /\ Allows(r) /\ r.containerID = ""
             /\ protocol = "tcp" => \A n \in ToSet(list) : Opened(r, lan, n, zone)
<1> DEFINE r == BareRule(order, "allow", From(lan), PortList(list), protocol, zone)
           ports == PortList(list)
           source == From(lan)
<1>1. ports.type = "list" /\ ports.list = list
  BY DEF PortList, AllPorts
<1>2. r = BareRule(order, "allow", source, ports, protocol, zone)
  OBVIOUS
<1> HIDE DEF ports, source
<1>3. /\ r.action = "allow" /\ r.rateLimit = <<>> /\ r.containerID = "" /\ r.enabled
      /\ r.direction = "" /\ r.source = source /\ r.protocol = protocol /\ r.zone = zone
      /\ r.ports = ports /\ r.schedule = <<>>
  BY <1>2 DEF BareRule
<1> HIDE DEF r
<1>4. protocol = "tcp" => \A n \in ToSet(list) : Opened(r, lan, n, zone)
  BY <1>1, <1>3 DEF Opened, source
<1> QED BY <1>3, <1>4 DEF Allows, r

LEMMA ConcatParts ==
  ASSUME NEW S, NEW A \in Seq(S), NEW B \in Seq(S)
  PROVE  /\ DOMAIN (A \o B) = 1..(Len(A) + Len(B)) /\ \A i \in 1..Len(A) : (A \o B)[i] = A[i]
         /\ \A i \in 1..Len(B) : (A \o B)[Len(A) + i] = B[i]
OBVIOUS

\* The rules of Defaults: all of them allow, and the ports they open.
LEMMA DefaultsOpen ==
  ASSUME NEW lan, NEW hostIP, NEW cs \in Inventories
  PROVE  LET rules == Defaults(lan, hostIP, DockerPorts(cs)).rules
         IN  /\ \A i \in DOMAIN rules : Allows(rules[i]) /\ rules[i].containerID = ""
             /\ \A n \in {22, 80, 443} : \E i \in DOMAIN rules : Opened(rules[i], lan, n, "host")
             /\ \A n \in DockerPorts(cs) : \E i \in DOMAIN rules : Opened(rules[i], lan, n, "docker")
<1> DEFINE published == Ascending(DockerPorts(cs))
           n == Len(published)
           rule(order, list, protocol, zone) ==
             BareRule(order, "allow", From(lan), PortList(list), protocol, zone)
           l1 == <<80, 443>>
           l2 == <<22>>
           r1 == rule(10, l1, "tcp", "host")
           r2 == rule(20, l2, "tcp", "host")
           r3 == rule(30, <<139, 445>>, "tcp", "host")
           r4 == rule(40, <<137, 138>>, "udp", "host")
           r5 == rule(50, <<5353>>, "udp", "host")
           own == <<r1, r2, r3, r4, r5>>
           app(i) == rule(50 + 10 * i, <<published[i]>>, "tcp", "docker")
           apps == [i \in DOMAIN published |-> app(i)]
           Good(r) == Allows(r) /\ r.containerID = ""
<1>1. Defaults(lan, hostIP, DockerPorts(cs)) = BareRuleSet(lan, hostIP, own \o apps)
  BY Zenon DEF Defaults, published
<1>2. Defaults(lan, hostIP, DockerPorts(cs)).rules = own \o apps
  <2> HIDE DEF own, apps
  <2> QED BY <1>1 DEF BareRuleSet
<1>3. published \in Seq(Int) /\ ToSet(published) = DockerPorts(cs)
  BY PublishedPorts, AscendingType
<1> HIDE DEF published
<1>4. n \in Nat /\ DOMAIN published = 1..n
  BY <1>3
<1>5. /\ Good(r1) /\ Good(r2) /\ Good(r3) /\ Good(r4) /\ Good(r5)
      /\ \A i \in 1..n : Good(app(i)) /\ Opened(app(i), lan, published[i], "docker")
      /\ \A k \in {80, 443} : Opened(r1, lan, k, "host")
      /\ Opened(r2, lan, 22, "host")
  <2>1. \A order, list, protocol, zone :
           /\ Good(rule(order, list, protocol, zone))
           /\ \A k \in ToSet(list) : Opened(rule(order, list, "tcp", zone), lan, k, zone)
    BY ListOpens
  <2> HIDE DEF rule, Good
  <2>2. /\ ToSet(l1) = {80, 443} /\ ToSet(l2) = {22} /\ \A i \in 1..n : published[i] \in ToSet(<<published[i]>>)
    BY DEF ToSet
  <2>3. Good(r1) /\ Good(r2)
    BY <2>1
  <2>4. Good(r3) /\ Good(r4) /\ Good(r5)
    BY <2>1
  <2>5. \A i \in 1..n : Good(app(i)) /\ Opened(app(i), lan, published[i], "docker")
    BY <2>1, <2>2
  <2>6. \A k \in {80, 443} : Opened(r1, lan, k, "host")
    <3> HIDE DEF l1
    <3> QED BY <2>1, <2>2
  <2>7. Opened(r2, lan, 22, "host")
    <3> HIDE DEF l2
    <3> QED BY <2>1, <2>2
  <2> QED BY <2>3, <2>4, <2>5, <2>6, <2>7
<1> HIDE DEF r1, r2, r3, r4, r5, app, Good
<1>6. /\ DOMAIN own = 1..5 /\ Len(own) = 5
      /\ own[1] = r1 /\ own[2] = r2 /\ own[3] = r3 /\ own[4] = r4 /\ own[5] = r5
  OBVIOUS
<1>7. DOMAIN apps = 1..n /\ Len(apps) = n /\ \A i \in 1..n : apps[i] = app(i)
  <2>1. apps = [i \in 1..n |-> app(i)]
    BY <1>4
  <2> HIDE DEF apps
  <2> QED BY <1>4, <2>1
<1> DEFINE S == {own[i] : i \in 1..5} \cup {apps[i] : i \in 1..n}
<1>8. own \in Seq(S) /\ apps \in Seq(S)
  <2>1. own \in [1..5 -> S] /\ apps \in [1..n -> S]
    <3>1. own = [i \in 1..5 |-> own[i]] /\ apps = [i \in 1..n |-> apps[i]]
      BY <1>6, <1>7
    <3>2. (\A i \in 1..5 : own[i] \in S) /\ (\A i \in 1..n : apps[i] \in S)
      OBVIOUS
    <3> HIDE DEF own, apps, S
    <3> QED BY <3>1, <3>2
  <2> HIDE DEF own, apps, S
  <2> QED BY <1>4, <2>1, IsSequence
<1> HIDE DEF own, apps, S, n
<1> DEFINE rules == own \o apps
<1>9. /\ DOMAIN rules = 1..(5 + n) /\ \A i \in 1..5 : rules[i] = own[i]
      /\ \A i \in 1..n : 5 + i \in DOMAIN rules /\ rules[5 + i] = apps[i]
  <2>1. /\ DOMAIN rules = 1..(Len(own) + Len(apps)) /\ \A i \in 1..Len(own) : rules[i] = own[i]
        /\ \A i \in 1..Len(apps) : rules[Len(own) + i] = apps[i]
    BY <1>8, ConcatParts
  <2> HIDE DEF rules
  <2> QED BY <1>4, <1>6, <1>7, <2>1
<1> HIDE DEF rules
<1>10. \A i \in DOMAIN rules : Good(rules[i])
  <2> SUFFICES ASSUME NEW i \in DOMAIN rules PROVE Good(rules[i])
    OBVIOUS
  <2>1. CASE i \in 1..5
    BY <1>5, <1>6, <1>9, <2>1
  <2>2. CASE i \notin 1..5
    <3>1. i - 5 \in 1..n /\ i = 5 + (i - 5)
      BY <1>4, <1>9, <2>2
    <3>2. rules[i] = app(i - 5)
      BY <1>7, <1>9, <3>1
    <3> QED BY <1>5, <3>1, <3>2
  <2> QED BY <2>1, <2>2
<1>11. \A k \in {22, 80, 443} : \E i \in DOMAIN rules : Opened(rules[i], lan, k, "host")
  <2>1. 1 \in DOMAIN rules /\ 2 \in DOMAIN rules /\ rules[1] = r1 /\ rules[2] = r2
    BY <1>4, <1>6, <1>9
  <2> QED BY <1>5, <2>1
<1>12. \A k \in DockerPorts(cs) : \E i \in DOMAIN rules : Opened(rules[i], lan, k, "docker")
  <2> SUFFICES ASSUME NEW k \in DockerPorts(cs)
               PROVE  \E i \in DOMAIN rules : Opened(rules[i], lan, k, "docker")
    OBVIOUS
  <2>1. PICK i \in 1..n : published[i] = k
    BY <1>3, <1>4 DEF ToSet
  <2>2. 5 + i \in DOMAIN rules /\ Opened(rules[5 + i], lan, k, "docker")
    BY <1>5, <1>7, <1>9, <2>1
  <2> QED BY <2>2
<1>13. rules = Defaults(lan, hostIP, DockerPorts(cs)).rules
  BY <1>2, Zenon DEF rules
<1> QED BY <1>10, <1>11, <1>12, <1>13, Zenon DEF Good

\* Of a saved and bound starter set some rule covers the packet, and every
\* rule allows.
LEMMA DefaultsSettle ==
  ASSUME NEW lan \in AddressSets, NEW hostIP \in AddressSets, NEW cs \in Inventories,
         NEW next, next = Saved(Defaults(lan, hostIP, DockerPorts(cs))), Validate(next),
         NEW c \in {"ZFW-IN", "DOCKER-USER"}, NEW p, NEW byPolicy,
         p.proto = "tcp", p.src \in lan,
         PortOf(c, p) \in IF c = "ZFW-IN" THEN {22, 80, 443} ELSE DockerPorts(cs)
  PROVE  Settled(Bound(next, cs).rules, c, p, DockerPorts(cs), byPolicy)
<1> DEFINE first == Defaults(lan, hostIP, DockerPorts(cs))
           rules == first.rules
           Q == Bound(next, cs).rules
           dp == DockerPorts(cs)
           n == PortOf(c, p)
           cov == CoveringAt(Q, c, p, dp)
<1>1. first \in RuleSets
  BY DefaultsType
<1>2. next \in RuleSets
  BY <1>1, SavedFacts
<1>3. /\ \A i \in DOMAIN rules : Allows(rules[i]) /\ rules[i].containerID = ""
      /\ \E i \in DOMAIN rules : Opened(rules[i], lan, n, ZoneOf(c))
  <2>1. /\ \A i \in DOMAIN rules : Allows(rules[i]) /\ rules[i].containerID = ""
        /\ \A k \in {22, 80, 443} : \E i \in DOMAIN rules : Opened(rules[i], lan, k, "host")
        /\ \A k \in DockerPorts(cs) : \E i \in DOMAIN rules : Opened(rules[i], lan, k, "docker")
    BY DefaultsOpen
  <2> HIDE DEF rules, n
  <2>2. CASE c = "ZFW-IN"
    <3>1. n \in {22, 80, 443} /\ ZoneOf(c) = "host"
      BY <2>2 DEF ZoneOf, n
    <3>2. PICK i \in DOMAIN rules : Opened(rules[i], lan, n, "host")
      BY <2>1, <3>1
    <3>3. Opened(rules[i], lan, n, ZoneOf(c))
      BY <3>1, <3>2
    <3> QED BY <2>1, <3>3
  <2>3. CASE c = "DOCKER-USER"
    <3>1. n \in DockerPorts(cs) /\ ZoneOf(c) = "docker"
      BY <2>3 DEF ZoneOf, n
    <3>2. PICK i \in DOMAIN rules : Opened(rules[i], lan, n, "docker")
      BY <2>1, <3>1
    <3>3. Opened(rules[i], lan, n, ZoneOf(c))
      BY <3>1, <3>2
    <3> QED BY <2>1, <3>3
  <2> QED BY <2>2, <2>3
<1>4. DOMAIN next.rules = DOMAIN rules /\ \A i \in DOMAIN rules : Alike(rules[i], next.rules[i])
  BY <1>1, SavedIsAlike
<1>5. DOMAIN Q = DOMAIN next.rules /\ \A i \in DOMAIN next.rules : Q[i] = Bind(next.rules[i], cs)
  BY <1>2, BoundIs
<1>6. \A i \in DOMAIN next.rules : next.rules[i] \in RuleRecords
  BY <1>2 DEF RuleSets
<1>7. Q \in Seq(GoodRules)
  BY <1>2, BoundIsGood
<1> HIDE DEF rules, Q, first
<1>8. ASSUME NEW i \in DOMAIN Q
      PROVE  /\ i \in DOMAIN rules /\ Alike(rules[i], Q[i]) /\ Allows(Q[i])
  <2>1. i \in DOMAIN rules /\ i \in DOMAIN next.rules /\ Alike(rules[i], next.rules[i])
    BY <1>4, <1>5
  <2>2. next.rules[i].containerID = ""
    BY <1>3, <2>1 DEF Alike
  <2>3. Q[i] = next.rules[i]
    <3>1. Bind(next.rules[i], cs) = next.rules[i]
      BY <1>6, <2>1, <2>2, BindFree
    <3> QED BY <1>5, <2>1, <3>1
  <2>4. Allows(Q[i])
    BY <1>3, <2>1, <2>3 DEF Alike, Allows
  <2> QED BY <2>1, <2>3, <2>4
<1>9. cov # {} /\ cov \subseteq DOMAIN Q
  <2>1. PICK i \in DOMAIN rules : Opened(rules[i], lan, n, ZoneOf(c))
    BY <1>3
  <2>2. CoversAt(rules[i], c, p, dp)
    BY <2>1, OpenedCovers
  <2>3. i \in DOMAIN Q /\ Alike(rules[i], Q[i])
    BY <1>4, <1>5, <1>8
  <2>4. CoversAt(Q[i], c, p, dp)
    BY <2>2, <2>3, AlikeFacts
  <2> QED BY <2>3, <2>4 DEF CoveringAt
<1> HIDE DEF cov
<1>10. Earliest(Q, cov) \in DOMAIN Q
  BY <1>7, <1>9, EarliestExists
<1>11. ByRule(Q[Earliest(Q, cov)], p)
  BY <1>8, <1>10, AllowsFacts
<1> HIDE DEF dp
<1>12. Settled(Q, c, p, dp, byPolicy)
  BY <1>9, <1>11, Zenon DEF Settled, cov
<1> QED BY <1>12 DEF Q, dp

LEMMA SeedStep ==
  ASSUME Inv, Inv', VerdictsFollowRules', [Next]_vars, posts' # posts,
         NEW d \in Detected,
         rulesJSON' = Saved(Defaults(d.lan, d.hostIP, DockerPorts(containers))),
         NEW c \in {"ZFW-IN", "DOCKER-USER"}, NEW p \in Probes(c),
         p.ct = "NEW", p.proto = "tcp", p.src \in d.lan,
         PortOf(c, p) \in IF c = "ZFW-IN" THEN {22, 80, 443} ELSE DockerPorts(containers)
  PROVE  Passes(scripts'.bash[c], p)
<1> DEFINE dp == DockerPorts(containers)
           next == Bound(rulesJSON', containers)
<1>1. Validate(rulesJSON') /\ containers' = containers
  BY AcceptStep
<1>2. /\ containers \in Inventories
      /\ rulesJSON' \in RuleSets /\ scripts' = Recompiled(rulesJSON', containers, NoScripts)
  BY <1>1 DEF Inv
<1>3. scripts'.bash = Compile(next, dp)
  <2>1. scripts' = [bash |-> Compile(next, dp), restore |-> CompileRestore(next, dp)]
    BY <1>1, <1>2, Zenon DEF Recompiled
  <2> HIDE DEF dp, next
  <2> QED BY <2>1
<1>4. c \in DOMAIN scripts'.bash
  <2>1. next.rules \in Seq(GoodRules)
    BY <1>1, <1>2, BoundIsGood
  <2> HIDE DEF dp, next
  <2>2. c \in Inbound
    BY DEF Inbound
  <2> QED BY <1>3, <2>1, <2>2, ChainsOf
<1>5. Passes(scripts'.bash[c], p) = Intended(c, p)'
  BY <1>1, <1>4, Zenon DEF VerdictsFollowRules
<1>6. Settled(next.rules, c, p, dp, ByPolicy(c, p)')
  <2>1. d.lan \in AddressSets /\ d.hostIP \in AddressSets
    BY VerdictsAssumption
  <2> QED BY <1>1, <1>2, <2>1, DefaultsSettle
<1>7. Intended(c, p)' <=>
        /\ ~(c \in {"ZFW-IN", "ZFW-IN6"} /\ p.ct = "INVALID")
        /\ Essential(c, p)' \/ Settled(next.rules, c, p, dp, ByPolicy(c, p)')
  BY <1>1, IntendedNext, Zenon
<1>8. p.ct # "INVALID"
  OBVIOUS
<1> QED BY <1>5, <1>6, <1>7, <1>8, Zenon

\* The starter rules keep up what is running, for every inventory and LAN.
THEOREM StarterKeepsAppsUp == Spec => SeedKeepsAppsUp
<1>1. Inv /\ Inv' /\ VerdictsFollowRules' /\ [Next]_vars
        => [\A d \in Detected :
              (posts' # posts
               /\ rulesJSON' = Saved(Defaults(d.lan, d.hostIP, DockerPorts(containers)))) =>
                \A c \in {"ZFW-IN", "DOCKER-USER"} : \A p \in Probes(c) :
                    (/\ p.ct = "NEW" /\ p.proto = "tcp" /\ p.src \in d.lan
                     /\ PortOf(c, p) \in IF c = "ZFW-IN" THEN {22, 80, 443}
                                         ELSE DockerPorts(containers))
                    => Passes(scripts'.bash[c], p)]_vars
  BY SeedStep
<1> QED BY <1>1, ScriptsAreCurrent, CompilerCorrect, PTL DEF Spec, SeedKeepsAppsUp
=============================================================================
