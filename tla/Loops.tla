------------------------------- MODULE Loops -------------------------------
(***************************************************************************)
(* A function that calls itself last is a loop.  The lemmas by which what  *)
(* such a function computes is proved for every input: its equation has a  *)
(* solution, and what every turn preserves holds when the loop ends.       *)
(***************************************************************************)
EXTENDS Naturals, FiniteSetsExt, WellFoundedInduction, TLAPS

Below == OpToRel(<, Nat)

LEMMA BelowPairs == \A x, y \in Nat : x < y => <<x, y>> \in Below
BY DEF Below, OpToRel

\* Strong induction, with a set in place of a predicate.
LEMMA SetInduction ==
    ASSUME NEW S, \A n \in Nat : (\A k \in Nat : k < n => k \in S) => n \in S
    PROVE  Nat \subseteq S
<1> SUFFICES ASSUME Nat \ S # {} PROVE FALSE
  OBVIOUS
<1>1. PICK m \in Nat \ S : \A k \in Nat \ S : ~(<<k, m>> \in Below)
  BY NatLessThanWellFounded, WFMin DEF Below
<1>2. \A k \in Nat : k < m => k \in S
  BY <1>1, BelowPairs
<1> QED BY <1>1, <1>2

\* g computes the loop that goes from x to next[x] while x is in go, then gives out[x].
Loops(g, X, go, next, out) == g = [x \in X |-> IF x \in go THEN g[next[x]] ELSE out[x]]

\* There is such a g when the loop stays in X.
LEMMA LoopDefined ==
    ASSUME NEW X, NEW go, NEW next, NEW out, \A x \in X \cap go : next[x] \in X
    PROVE  \E g : Loops(g, X, go, next, out)
<1> DEFINE Closed(S) == \A y \in X \cap go : y \in S => next[y] \in S
           Reached(x) == {y \in X : \A S \in SUBSET X : x \in S /\ Closed(S) => y \in S}
           End(T) == CHOOSE v : \E y \in T : v = out[y]
           g == [x \in X |-> End(Reached(x) \ go)]
<1>1. ASSUME NEW x \in X, x \notin go
      PROVE  g[x] = out[x]
  <2>1. x \in Reached(x)
    OBVIOUS
  <2>2. Closed({x})
    BY <1>1
  <2>3. Reached(x) \ go = {x}
    BY <2>1, <2>2, <1>1
  <2> QED BY <2>3
<1>2. ASSUME NEW x \in X, x \in go
      PROVE  g[x] = g[next[x]]
  <2>1. next[x] \in X
    BY <1>2
  <2>2. Reached(x) \ go = Reached(next[x]) \ go
    <3>1. ASSUME NEW y \in Reached(next[x])
          PROVE  y \in Reached(x)
      BY <3>1, <1>2, <2>1
    <3>2. ASSUME NEW y \in Reached(x), y \notin go
          PROVE  y \in Reached(next[x])
      <4> SUFFICES ASSUME NEW S \in SUBSET X, next[x] \in S, Closed(S)
                   PROVE  y \in S
        BY <3>2
      <4>1. Closed(S \cup {x})
        BY <2>1
      <4>2. y \in S \cup {x}
        BY <4>1, <3>2
      <4> QED BY <4>2, <3>2, <1>2
    <3> QED BY <3>1, <3>2
  <2> HIDE DEF Reached, End
  <2> QED BY <2>1, <2>2
<1>3. g = [x \in X |-> IF x \in go THEN g[next[x]] ELSE out[x]]
  <2> HIDE DEF g
  <2>1. g = [x \in X |-> g[x]]
    BY DEF g
  <2> QED BY <2>1, <1>1, <1>2
<1> HIDE DEF g
<1> QED BY <1>3 DEF Loops

\* The rule of while: an invariant and a measure that decreases.
LEMMA LoopInvariant ==
    ASSUME NEW X, NEW go, NEW next, NEW out, NEW measure \in [X -> Nat], NEW loop,
           Loops(loop, X, go, next, out),
           NEW Inv \in SUBSET X,
           \A x \in Inv \cap go : next[x] \in Inv /\ measure[next[x]] < measure[x],
           NEW x0 \in Inv
    PROVE  \E y \in Inv \ go : loop[x0] = out[y]
<1> DEFINE S == {n \in Nat : \A x \in Inv :
                    measure[x] = n => \E y \in Inv \ go : loop[x] = out[y]}
<1>1. ASSUME NEW n \in Nat, \A k \in Nat : k < n => k \in S
      PROVE  n \in S
  <2> SUFFICES ASSUME NEW x \in Inv, measure[x] = n
               PROVE  \E y \in Inv \ go : loop[x] = out[y]
    OBVIOUS
  <2>1. CASE x \notin go
    BY <2>1 DEF Loops
  <2>2. CASE x \in go
    <3>1. /\ next[x] \in Inv /\ measure[next[x]] < n
          /\ measure[next[x]] \in Nat
      BY <2>2
    <3>2. measure[next[x]] \in S
      BY <3>1, <1>1
    <3>3. loop[x] = loop[next[x]]
      BY <2>2 DEF Loops
    <3> QED BY <3>1, <3>2, <3>3
  <2> QED BY <2>1, <2>2
<1>2. Nat \subseteq S
  <2> HIDE DEF S
  <2> QED BY <1>1, SetInduction
<1> QED BY <1>2

\* The least index of a search is an index of it.
LEMMA MinIsMember == ASSUME NEW I \in SUBSET Nat, I # {} PROVE Min(I) \in I
<1>1. PICK m \in I : \A k \in I : ~(<<k, m>> \in Below)
  <2>1. I \cap Nat = I /\ \E k : k \in I
    OBVIOUS
  <2> QED BY <2>1, NatLessThanWellFounded, WFMin DEF Below
<1>2. ASSUME NEW k \in I PROVE m <= k
  <2>1. k \in Nat /\ m \in Nat
    OBVIOUS
  <2>2. ~(k < m)
    BY <1>1, <2>1, BelowPairs
  <2> QED BY <2>1, <2>2
<1> QED BY <1>2 DEF Min

-----------------------------------------------------------------------------
\* What holds of 0 and passes from a number to the next holds up to n.
LEMMA CountInduction ==
    ASSUME NEW n \in Nat, NEW S, 0 \in S, \A i \in 1 .. n : i - 1 \in S => i \in S
    PROVE  0 .. n \subseteq S
<1> DEFINE T == {m \in Nat : m <= n => m \in S}
<1>1. ASSUME NEW m \in Nat, \A k \in Nat : k < m => k \in T
      PROVE  m \in T
  <2>1. CASE m = 0
    BY <2>1
  <2>2. CASE m > 0 /\ m <= n
    <3>1. m - 1 \in Nat /\ m - 1 < m /\ m - 1 <= n /\ m \in 1 .. n
      BY <2>2
    <3>2. m - 1 \in S
      BY <3>1, <1>1
    <3> QED BY <3>1, <3>2
  <2> QED BY <2>1, <2>2
<1>2. Nat \subseteq T
  <2> HIDE DEF T
  <2> QED BY <1>1, SetInduction
<1> QED BY <1>2

\* f counts from a up to n by steps.
Counts(f, n, a, step) == f = [i \in 0 .. n |-> IF i = 0 THEN a ELSE step[<<f[i - 1], i>>]]

\* There is such an f, and its values are those of the steps.
LEMMA CountDefined ==
    ASSUME NEW n \in Nat, NEW V, NEW a \in V, NEW step \in [V \X (1 .. n) -> V]
    PROVE  \E f \in [0 .. n -> V] : Counts(f, n, a, step)
<1> DEFINE To(f, m) == f \in [0 .. m -> V] /\ f[0] = a
                        /\ \A i \in 1 .. m : f[i] = step[<<f[i - 1], i>>]
           S == {m \in Nat : m <= n => \E f : To(f, m)}
<1>1. ASSUME NEW m \in Nat, \A k \in Nat : k < m => k \in S
      PROVE  m \in S
  <2>1. CASE m = 0
    <3>1. To([i \in 0 .. 0 |-> a], 0)
      OBVIOUS
    <3> QED BY <2>1, <3>1
  <2>2. CASE m > 0 /\ m <= n
    <3>1. m - 1 \in Nat /\ m - 1 < m /\ m - 1 <= n
      BY <2>2
    <3>2. PICK f : To(f, m - 1)
      BY <3>1, <1>1
    <3> DEFINE x == step[<<f[m - 1], m>>]
               g == [i \in 0 .. m |-> IF i = m THEN x ELSE f[i]]
    <3>3. f[m - 1] \in V /\ m \in 1 .. n
      BY <3>1, <3>2, <2>2
    <3>4. x \in V
      BY <3>3
    <3> HIDE DEF x
    <3>5. \A i \in 0 .. (m - 1) : g[i] = f[i] /\ g[i] \in V
      BY <3>1, <3>2
    <3>6. g[m] = x /\ g[m - 1] = f[m - 1] /\ g[0] = a
      BY <3>1, <3>2, <3>5
    <3>7. g \in [0 .. m -> V]
      <4>1. \A i \in 0 .. m : i = m \/ i \in 0 .. (m - 1)
        BY <3>1
      <4>2. \A i \in 0 .. m : g[i] \in V
        BY <3>4, <3>5, <3>6, <4>1
      <4>3. g = [i \in 0 .. m |-> g[i]]
        OBVIOUS
      <4> HIDE DEF g
      <4> QED BY <4>2, <4>3
    <3>8. \A i \in 1 .. m : g[i] = step[<<g[i - 1], i>>]
      <4> SUFFICES ASSUME NEW i \in 1 .. m PROVE g[i] = step[<<g[i - 1], i>>]
        OBVIOUS
      <4>1. CASE i = m
        BY <3>6, <4>1 DEF x
      <4>2. CASE i # m
        <5>1. i \in 1 .. (m - 1) /\ i - 1 \in 0 .. (m - 1) /\ i \in 0 .. (m - 1)
          BY <4>2, <3>1
        <5> QED BY <5>1, <3>2, <3>5
      <4> QED BY <4>1, <4>2
    <3> QED BY <3>6, <3>7, <3>8, <2>2
  <2> QED BY <2>1, <2>2
<1>2. Nat \subseteq S
  <2> HIDE DEF S
  <2> QED BY <1>1, SetInduction
<1>3. PICK f : To(f, n)
  <2>1. n \in S
    <3> HIDE DEF S
    <3> QED BY <1>2
  <2>2. n <= n
    OBVIOUS
  <2> HIDE DEF To
  <2> QED BY <2>1, <2>2
<1>4. f = [i \in 0 .. n |-> f[i]]
  BY <1>3
<1>5. \A i \in 0 .. n : f[i] = IF i = 0 THEN a ELSE step[<<f[i - 1], i>>]
  BY <1>3
<1> QED BY <1>3, <1>4, <1>5 DEF Counts
=============================================================================
