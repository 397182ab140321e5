---------------------------- MODULE CommonLemmas ----------------------------
(***************************************************************************)
(* Least elements of sets of natural numbers, and what follows from them:  *)
(* induction, by looking at the least counterexample, and the existence of *)
(* functions that are defined by recursion.  And the elements of two       *)
(* sequences put together.                                                 *)
(***************************************************************************)
EXTENDS Integers, SequenceTheorems, NaturalsInduction, WellFoundedInduction, TLAPS

\* A non-empty set of natural numbers has a least element.
LEMMA LeastOf ==
  ASSUME NEW S, S \subseteq Nat, S # {}
  PROVE  \E x \in S : \A y \in S : x <= y
<1>1. \E R : IsWellFoundedOn(R, Nat) /\ \A x, y \in Nat : x < y => <<x, y>> \in R
  <2>1. \A x, y \in Nat : x < y => <<x, y>> \in OpToRel(<, Nat)
    BY DEF OpToRel
  <2> QED
    BY <2>1, NatLessThanWellFounded, Zenon
<1>2. PICK R : IsWellFoundedOn(R, Nat) /\ \A x, y \in Nat : x < y => <<x, y>> \in R
  BY <1>1
<1>3. \E x \in S : \A y \in S : ~(<<y, x>> \in R)
  <2>1. S \subseteq Nat /\ S # {} /\ IsWellFoundedOn(R, Nat)
    BY <1>2
  <2> QED
    BY <2>1, WFMin, Zenon
<1>4. PICK x \in S : \A y \in S : ~(<<y, x>> \in R)
  BY <1>3
<1>5. ASSUME NEW y \in S PROVE x <= y
  <2>1. x \in Nat /\ y \in Nat
    OBVIOUS
  <2>2. ~(y < x)
    BY <2>1, <1>2, <1>4
  <2> QED
    BY <2>1, <2>2
<1> QED
  BY <1>4, <1>5

\* A set of natural numbers that contains n whenever it contains all numbers
\* below n contains every natural number.
LEMMA Induction ==
  ASSUME NEW P, \A n \in Nat : (\A m \in Nat : m < n => m \in P) => n \in P
  PROVE  Nat \subseteq P
<1> SUFFICES ASSUME Nat \ P # {} PROVE FALSE
  OBVIOUS
<1>1. PICK n \in Nat \ P : \A m \in Nat \ P : n <= m
  BY LeastOf
<1>2. \A m \in Nat : m < n => m \in P
  BY <1>1
<1> QED
  BY <1>1, <1>2

-----------------------------------------------------------------------------
\* The value at m of a function that is given where the recursion stops and
\* made from its value at a smaller argument elsewhere.
Value(g, stop, base, prev, step, m) ==
  IF m \in stop THEN base[m] ELSE step[m, g[prev[m]]]

\* g follows the recursion up to n.
Follows(g, D, stop, base, prev, step, n) ==
  \A m \in D : m <= n => g[m] = Value(g, stop, base, prev, step, m)

\* What recursion down to smaller arguments needs.
IsRecursion(D, S, stop, base, prev, step) ==
  /\ D \subseteq Nat
  /\ base \in [D -> S]
  /\ step \in [D \X S -> S]
  /\ \A m \in D \ stop : prev[m] \in D /\ prev[m] < m

\* Only one value matters for another.
LEMMA SameValue ==
  ASSUME NEW g, NEW h, NEW stop, NEW base, NEW prev, NEW step, NEW m,
         m \notin stop => g[prev[m]] = h[prev[m]]
  PROVE  Value(g, stop, base, prev, step, m) = Value(h, stop, base, prev, step, m)
<1>1. CASE m \in stop
  BY <1>1 DEF Value
<1>2. CASE m \notin stop
  BY <1>2 DEF Value
<1> QED
  BY <1>1, <1>2

\* Values are of the type of the function.
LEMMA ValueType ==
  ASSUME NEW D, NEW S, NEW stop, NEW base, NEW prev, NEW step,
         IsRecursion(D, S, stop, base, prev, step),
         NEW g \in [D -> S], NEW m \in D
  PROVE  Value(g, stop, base, prev, step, m) \in S
<1>1. CASE m \in stop
  BY <1>1 DEF Value, IsRecursion
<1>2. CASE m \notin stop
  <2>1. prev[m] \in D
    BY <1>2 DEF IsRecursion
  <2>2. <<m, g[prev[m]]>> \in D \X S
    BY <2>1
  <2>3. step[<<m, g[prev[m]]>>] \in S
    BY <2>2 DEF IsRecursion
  <2> QED
    BY <1>2, <2>3 DEF Value
<1> QED
  BY <1>1, <1>2

\* Two functions that follow a recursion agree.
LEMMA OnlyOne ==
  ASSUME NEW D, NEW S, NEW stop, NEW base, NEW prev, NEW step,
         IsRecursion(D, S, stop, base, prev, step),
         NEW n \in Nat, NEW g, NEW h,
         Follows(g, D, stop, base, prev, step, n), Follows(h, D, stop, base, prev, step, n)
  PROVE  \A m \in D : m <= n => g[m] = h[m]
<1> DEFINE P == {m \in Nat : m \in D /\ m <= n => g[m] = h[m]}
<1>1. ASSUME NEW m \in Nat, \A k \in Nat : k < m => k \in P
      PROVE  m \in P
  <2> SUFFICES ASSUME m \in D, m <= n PROVE g[m] = h[m]
    OBVIOUS
  <2>1. m \notin stop => g[prev[m]] = h[prev[m]]
    <3> HAVE m \notin stop
    <3>1. prev[m] \in D /\ prev[m] \in Nat /\ prev[m] < m
      BY DEF IsRecursion
    <3>2. prev[m] \in P /\ prev[m] <= n
      BY <3>1, <1>1
    <3> QED
      BY <3>1, <3>2
  <2>2. Value(g, stop, base, prev, step, m) = Value(h, stop, base, prev, step, m)
    BY <2>1, SameValue
  <2> QED
    BY <2>2 DEF Follows
<1>2. Nat \subseteq P
  <2> HIDE DEF P
  <2> QED
    BY <1>1, Induction
<1> QED
  BY <1>2 DEF IsRecursion

\* Up to any argument there is a function that follows the recursion.
LEMMA UpToAny ==
  ASSUME NEW D, NEW S, NEW stop, NEW base, NEW prev, NEW step,
         IsRecursion(D, S, stop, base, prev, step)
  PROVE  \A n \in Nat : \E g \in [D -> S] : Follows(g, D, stop, base, prev, step, n)
<1> DEFINE P == {n \in Nat : \E g \in [D -> S] : Follows(g, D, stop, base, prev, step, n)}
<1>1. ASSUME NEW n \in Nat, \A k \in Nat : k < n => k \in P
      PROVE  n \in P
  <2>1. PICK h \in [D -> S] :
          \A m \in D : m < n => h[m] = Value(h, stop, base, prev, step, m)
    <3>1. CASE n = 0
      <4>1. \A m \in D : ~(m < n)
        BY <3>1 DEF IsRecursion
      <4>2. base \in [D -> S]
        BY DEF IsRecursion
      <4> QED
        BY <4>1, <4>2
    <3>2. CASE n > 0
      <4>1. n - 1 \in P
        BY <3>2, <1>1
      <4>2. PICK h \in [D -> S] : Follows(h, D, stop, base, prev, step, n - 1)
        BY <4>1
      <4>3. \A m \in D : m < n => m <= n - 1
        BY DEF IsRecursion
      <4> QED
        BY <4>2, <4>3 DEF Follows
    <3> QED
      BY <3>1, <3>2
  <2> DEFINE v == Value(h, stop, base, prev, step, n)
             g == [m \in D |-> IF m = n THEN v ELSE h[m]]
  <2>2. n \in D => v \in S
    BY ValueType
  <2>3. g \in [D -> S]
    BY <2>2
  <2>4. ASSUME NEW m \in D, m <= n
        PROVE  g[m] = Value(g, stop, base, prev, step, m)
    <3>1. m \in Nat
      BY DEF IsRecursion
    <3>2. m \notin stop => g[prev[m]] = h[prev[m]]
      <4> HAVE m \notin stop
      <4>1. prev[m] \in D /\ prev[m] \in Nat /\ prev[m] < m
        BY DEF IsRecursion
      <4>2. prev[m] # n
        BY <4>1, <3>1, <2>4
      <4> QED
        BY <4>1, <4>2
    <3>3. Value(g, stop, base, prev, step, m) = Value(h, stop, base, prev, step, m)
      <4> HIDE DEF g
      <4> QED
        BY <3>2, SameValue
    <3>4. g[m] = Value(h, stop, base, prev, step, m)
      BY <3>1, <2>1, <2>4
    <3> QED
      BY <3>3, <3>4
  <2>5. Follows(g, D, stop, base, prev, step, n)
    BY <2>4 DEF Follows
  <2> QED
    BY <2>3, <2>5
<1>2. Nat \subseteq P
  <2> HIDE DEF P
  <2> QED
    BY <1>1, Induction
<1> QED
  BY <1>2

\* A function defined by recursion down to smaller arguments exists.
LEMMA Recursion ==
  ASSUME NEW D, NEW S, NEW stop, NEW base, NEW prev, NEW step,
         IsRecursion(D, S, stop, base, prev, step)
  PROVE  \E g \in [D -> S] : \A m \in D : g[m] = Value(g, stop, base, prev, step, m)
<1> DEFINE Upto(n) == CHOOSE g : g \in [D -> S] /\ Follows(g, D, stop, base, prev, step, n)
           f == [n \in D |-> Upto(n)[n]]
<1>1. \A n \in D : n \in Nat /\ Upto(n) \in [D -> S] /\ Follows(Upto(n), D, stop, base, prev, step, n)
  BY UpToAny, Zenon DEF IsRecursion
<1> HIDE DEF Upto
<1>2. f \in [D -> S]
  BY <1>1
<1>3. ASSUME NEW m \in D
      PROVE  f[m] = Value(f, stop, base, prev, step, m)
  <2>1. f[m] = Value(Upto(m), stop, base, prev, step, m)
    BY <1>1 DEF Follows
  <2>2. m \notin stop => Upto(m)[prev[m]] = f[prev[m]]
    <3> HAVE m \notin stop
    <3> DEFINE p == prev[m]
    <3>1. p \in D /\ p \in Nat /\ p < m /\ m \in Nat
      BY DEF IsRecursion
    <3> HIDE DEF p
    <3>2. \A k \in D : k \in Nat /\ (k <= p => k <= m)
      BY <3>1 DEF IsRecursion
    <3>3. Follows(Upto(m), D, stop, base, prev, step, p) /\ Follows(Upto(p), D, stop, base, prev, step, p)
      BY <1>1, <3>1, <3>2 DEF Follows
    <3>4. Upto(m)[p] = Upto(p)[p]
      BY <3>1, <3>3, OnlyOne
    <3> QED
      BY <3>1, <3>4 DEF p
  <2> HIDE DEF f
  <2> QED
    BY <2>1, <2>2, SameValue
<1> QED
  BY <1>2, <1>3

-----------------------------------------------------------------------------
\* c has the j elements of a and behind them the k elements of b.
IsJoin(c, a, b, j, k) ==
  /\ Len(c) = j + k
  /\ \A i \in 1 .. j : c[i] = a[i]
  /\ \A i \in 1 .. k : c[j + i] = b[i]

\* That is what concatenation does.
LEMMA Joined ==
  ASSUME NEW A, NEW a \in Seq(A), NEW b \in Seq(A)
  PROVE  a \o b \in Seq(A) /\ IsJoin(a \o b, a, b, Len(a), Len(b))
<1> DEFINE j == Len(a)
           k == Len(b)
           c == a \o b
<1>1. /\ c \in Seq(A) /\ Len(c) = j + k
      /\ \A i \in 1 .. j + k : c[i] = IF i <= j THEN a[i] ELSE b[i - j]
  BY ConcatProperties
<1>2. j \in Nat /\ k \in Nat
  OBVIOUS
<1> HIDE DEF j, k, c
<1>3. \A i \in 1 .. j : c[i] = a[i]
  BY <1>1, <1>2
<1>4. ASSUME NEW i \in 1 .. k PROVE c[j + i] = b[i]
  <2> DEFINE m == j + i
  <2>1. m \in 1 .. j + k /\ ~(m <= j) /\ m - j = i
    BY <1>2
  <2> HIDE DEF m
  <2>2. c[m] = b[i]
    BY <2>1, <1>1
  <2> QED
    BY <2>2 DEF m
<1>5. IsJoin(c, a, b, j, k)
  BY <1>1, <1>3, <1>4 DEF IsJoin
<1> QED
  BY <1>1, <1>5 DEF j, k, c
=============================================================================
