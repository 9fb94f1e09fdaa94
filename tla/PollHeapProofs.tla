--------------------------- MODULE PollHeapProofs ---------------------------
EXTENDS PollHeap, Integers, Loops

-----------------------------------------------------------------------------
\* The order of the keys.
Keys(r, e) == r \in [Obj -> Rank] /\ e \in [Obj -> Nat]

Before(x, y, r, e) == r[x] < r[y] \/ (r[x] = r[y] /\ e[x] < e[y])

LEMMA LessIsBefore ==
    \A q, i, j, r, e : Less(q, i, j, r, e) <=> Before(q[i], q[j], r, e)
BY DEF Less, Before

LEMMA BeforeOrder ==
    ASSUME NEW r, NEW e, Keys(r, e), NEW x \in Obj, NEW y \in Obj, NEW z \in Obj
    PROVE  /\ Before(x, y, r, e) => ~Before(y, x, r, e)
           /\ ~Before(x, y, r, e) /\ ~Before(y, z, r, e) => ~Before(x, z, r, e)
           /\ Before(x, y, r, e) /\ ~Before(z, y, r, e) => ~Before(z, x, r, e)
<1>1. /\ r[x] \in Nat /\ r[y] \in Nat /\ r[z] \in Nat
      /\ e[x] \in Nat /\ e[y] \in Nat /\ e[z] \in Nat
  BY HeapAssumption DEF Keys
<1> QED BY <1>1 DEF Before

\* q is the array q0 with its first n elements in another order, each there once.
Distinct(q) == \A i, j \in 1 .. Len(q) : q[i] = q[j] => i = j
Among(q, n) == {q[i] : i \in 1 .. n}
Permuted(q, q0, n) ==
    /\ q \in Seq(Obj) /\ Len(q) = Len(q0) /\ Distinct(q)
    /\ Among(q, n) = Among(q0, n)
    /\ \A i \in (n + 1) .. Len(q) : q[i] = q0[i]

LEMMA SwapElements ==
    ASSUME NEW q \in Seq(Obj), NEW i \in 1 .. Len(q), NEW j \in 1 .. Len(q)
    PROVE  /\ Swap(q, i, j) \in Seq(Obj) /\ Len(Swap(q, i, j)) = Len(q)
           /\ Swap(q, i, j)[i] = q[j] /\ Swap(q, i, j)[j] = q[i]
           /\ \A k \in 1 .. Len(q) : k # i /\ k # j => Swap(q, i, j)[k] = q[k]
BY DEF Swap

LEMMA SwapWithin ==
    ASSUME NEW q \in Seq(Obj), NEW n \in 0 .. Len(q), NEW i \in 1 .. n, NEW j \in 1 .. n,
           NEW s, s = Swap(q, i, j)
    PROVE  /\ s[i] = q[j] /\ s[j] = q[i]
           /\ \A k \in 1 .. n : k # i /\ k # j => s[k] = q[k]
<1>1. Len(q) \in Nat
  OBVIOUS
<1>2. i \in 1 .. Len(q) /\ j \in 1 .. Len(q) /\ \A k \in 1 .. n : k \in 1 .. Len(q)
  BY <1>1
<1>3. /\ s[i] = q[j] /\ s[j] = q[i]
      /\ \A k \in 1 .. Len(q) : k # i /\ k # j => s[k] = q[k]
  BY <1>2, SwapElements
<1> QED BY <1>2, <1>3

LEMMA SwapPermuted ==
    ASSUME NEW q, NEW q0, NEW n \in Nat, Permuted(q, q0, n), n <= Len(q),
           NEW i \in 1 .. n, NEW j \in 1 .. n
    PROVE  Permuted(Swap(q, i, j), q0, n)
<1> DEFINE s == Swap(q, i, j)
<1>1. /\ q \in Seq(Obj) /\ Len(q) \in Nat /\ i \in 1 .. Len(q) /\ j \in 1 .. Len(q)
      /\ Len(q) = Len(q0)
  BY DEF Permuted
<1>2. /\ s \in Seq(Obj) /\ Len(s) = Len(q) /\ s[i] = q[j] /\ s[j] = q[i]
      /\ \A k \in 1 .. Len(q) : k # i /\ k # j => s[k] = q[k]
  BY <1>1, SwapElements
<1> HIDE DEF s
<1>3. Distinct(s)
  BY <1>1, <1>2 DEF Permuted, Distinct
<1>4. Among(s, n) = Among(q, n)
  <2>1. ASSUME NEW k \in 1 .. n PROVE s[k] \in Among(q, n)
    BY <1>1, <1>2 DEF Among
  <2>2. ASSUME NEW k \in 1 .. n PROVE q[k] \in Among(s, n)
    <3>1. k = i \/ k = j \/ s[k] = q[k]
      BY <1>1, <1>2
    <3> QED BY <1>2, <3>1 DEF Among
  <2> QED BY <2>1, <2>2 DEF Among
<1>5. \A k \in (n + 1) .. Len(s) : s[k] = q0[k]
  BY <1>1, <1>2 DEF Permuted
<1> QED BY <1>1, <1>2, <1>3, <1>4, <1>5 DEF Permuted, s

-----------------------------------------------------------------------------
\* The loops of container/heap: what every turn preserves holds of the result.
Rising == {s \in Seq(Obj) \X Nat : s[2] <= Len(s[1])}
Sinking(n) == {s \in Seq(Obj) \X (Nat \ {0}) : n <= Len(s[1])}
Risen(s) == <<Swap(s[1], s[2], s[2] \div 2), s[2] \div 2>>
Sunk(s, n, r, e) == LET c == Child(s[1], s[2], n, r, e) IN <<Swap(s[1], s[2], c), c>>

LEMMA RisenTurn ==
    ASSUME NEW r, NEW e, NEW s \in Rising, Rises(s[1], s[2], r, e)
    PROVE  /\ Risen(s) \in Rising /\ Len(Risen(s)[1]) = Len(s[1])
           /\ s[2] \in 1 .. Len(s[1]) /\ s[2] \div 2 \in 1 .. Len(s[1])
           /\ s[2] \div 2 < s[2]
<1>1. s[1] \in Seq(Obj) /\ s[2] \in Nat /\ s[2] <= Len(s[1]) /\ s[2] > 1
  BY DEF Rising, Rises
<1>2. s[2] \in 1 .. Len(s[1]) /\ s[2] \div 2 \in 1 .. Len(s[1]) /\ s[2] \div 2 < s[2]
  BY <1>1
<1>3. /\ Swap(s[1], s[2], s[2] \div 2) \in Seq(Obj)
      /\ Len(Swap(s[1], s[2], s[2] \div 2)) = Len(s[1])
  BY <1>1, <1>2, SwapElements
<1> QED BY <1>1, <1>2, <1>3 DEF Rising, Risen

LEMMA SunkTurn ==
    ASSUME NEW r, NEW e, NEW n \in Nat, NEW s \in Sinking(n), Sinks(s[1], s[2], n, r, e),
           NEW c, c = Child(s[1], s[2], n, r, e)
    PROVE  /\ Sunk(s, n, r, e) \in Sinking(n) /\ Len(Sunk(s, n, r, e)[1]) = Len(s[1])
           /\ Sunk(s, n, r, e) = <<Swap(s[1], s[2], c), c>>
           /\ s[2] \in 1 .. n /\ c \in 1 .. n /\ s[2] < c /\ c \div 2 = s[2]
           /\ c \in {2 * s[2], 2 * s[2] + 1}
<1>1. s[1] \in Seq(Obj) /\ s[2] \in Nat \ {0} /\ n <= Len(s[1]) /\ 2 * s[2] <= n
  BY DEF Sinking, Sinks
<1>2. c \in {2 * s[2], 2 * s[2] + 1} /\ c <= n
  BY <1>1 DEF Child
<1>3. s[2] \in 1 .. n /\ c \in 1 .. n /\ s[2] < c /\ c \div 2 = s[2]
  BY <1>1, <1>2
<1>4. /\ Swap(s[1], s[2], c) \in Seq(Obj)
      /\ Len(Swap(s[1], s[2], c)) = Len(s[1])
  <2>1. s[2] \in 1 .. Len(s[1]) /\ c \in 1 .. Len(s[1])
    BY <1>1, <1>3
  <2> QED BY <1>1, <2>1, SwapElements
<1>5. Sunk(s, n, r, e) = <<Swap(s[1], s[2], c), c>>
  BY DEF Sunk
<1> QED BY <1>1, <1>2, <1>3, <1>4, <1>5 DEF Sinking

LEMMA UpLoop ==
    ASSUME NEW r, NEW e, NEW Inv \in SUBSET Rising,
           \A s \in Inv : Rises(s[1], s[2], r, e) => Risen(s) \in Inv,
           NEW q, NEW j, <<q, j>> \in Inv
    PROVE  \E s \in Inv : ~Rises(s[1], s[2], r, e) /\ Up(q, j, r, e) = s[1]
<1> DEFINE go == {s \in Rising : Rises(s[1], s[2], r, e)}
           next == [s \in Rising |-> Risen(s)]
           out == [s \in Rising |-> s[1]]
           measure == [s \in Rising |-> s[2]]
           loop == CHOOSE g : g = [s \in Rising |->
               IF Rises(s[1], s[2], r, e) THEN g[Risen(s)] ELSE s[1]]
<1>1. \A s \in Rising \cap go : next[s] \in Rising
  BY RisenTurn
<1>2. \E g : Loops(g, Rising, go, next, out)
  <2> HIDE DEF go, next, out
  <2> QED BY <1>1, LoopDefined
<1>3. \A g : Loops(g, Rising, go, next, out)
             <=> g = [s \in Rising |-> IF Rises(s[1], s[2], r, e) THEN g[Risen(s)] ELSE s[1]]
  BY DEF Loops
<1>4. Loops(loop, Rising, go, next, out)
  <2> HIDE DEF go, next, out
  <2> QED BY <1>2, <1>3
<1>5. Up(q, j, r, e) = loop[<<q, j>>]
  BY DEF Up, Rising, Risen
<1>6. measure \in [Rising -> Nat]
  BY DEF Rising
<1>7. \A s \in Inv \cap go : next[s] \in Inv /\ measure[next[s]] < measure[s]
  <2> SUFFICES ASSUME NEW s \in Inv \cap go
               PROVE  next[s] \in Inv /\ measure[next[s]] < measure[s]
    OBVIOUS
  <2>1. Risen(s) \in Rising /\ s[2] \div 2 < s[2]
    BY RisenTurn
  <2>2. Risen(s)[2] = s[2] \div 2
    BY DEF Risen
  <2> QED BY <2>1, <2>2
<1>8. \E s \in Inv \ go : loop[<<q, j>>] = out[s]
  <2> HIDE DEF go, next, out, measure, loop
  <2> QED BY <1>4, <1>6, <1>7, LoopInvariant
<1> QED BY <1>5, <1>8

LEMMA DownLoop ==
    ASSUME NEW r, NEW e, NEW n \in Nat, NEW Inv \in SUBSET Sinking(n),
           \A s \in Inv : Sinks(s[1], s[2], n, r, e) => Sunk(s, n, r, e) \in Inv,
           NEW q, NEW i, <<q, i>> \in Inv
    PROVE  \E s \in Inv : ~Sinks(s[1], s[2], n, r, e) /\ Down(q, i, n, r, e) = s[1]
<1> DEFINE go == {s \in Sinking(n) : Sinks(s[1], s[2], n, r, e)}
           next == [s \in Sinking(n) |-> Sunk(s, n, r, e)]
           out == [s \in Sinking(n) |-> s[1]]
           measure == [s \in Sinking(n) |-> IF s[2] <= n THEN n - s[2] ELSE 0]
           loop == CHOOSE g : g = [s \in Sinking(n) |->
               IF Sinks(s[1], s[2], n, r, e) THEN g[Sunk(s, n, r, e)] ELSE s[1]]
<1>1. \A s \in Sinking(n) \cap go : next[s] \in Sinking(n)
  BY SunkTurn
<1>2. \E g : Loops(g, Sinking(n), go, next, out)
  <2> HIDE DEF go, next, out
  <2> QED BY <1>1, LoopDefined
<1>3. \A g : Loops(g, Sinking(n), go, next, out)
             <=> g = [s \in Sinking(n) |->
                   IF Sinks(s[1], s[2], n, r, e) THEN g[Sunk(s, n, r, e)] ELSE s[1]]
  BY DEF Loops
<1>4. Loops(loop, Sinking(n), go, next, out)
  <2> HIDE DEF go, next, out
  <2> QED BY <1>2, <1>3
<1>5. Down(q, i, n, r, e) = loop[<<q, i>>]
  BY DEF Down, Sinking, Sunk
<1>6. measure \in [Sinking(n) -> Nat]
  BY DEF Sinking
<1>7. \A s \in Inv \cap go : next[s] \in Inv /\ measure[next[s]] < measure[s]
  <2> SUFFICES ASSUME NEW s \in Inv \cap go
               PROVE  next[s] \in Inv /\ measure[next[s]] < measure[s]
    OBVIOUS
  <2> DEFINE c == Child(s[1], s[2], n, r, e)
  <2>1. /\ Sunk(s, n, r, e) \in Sinking(n) /\ s[2] \in 1 .. n /\ c \in 1 .. n
        /\ s[2] < c /\ Sunk(s, n, r, e)[2] = c
    BY SunkTurn
  <2> QED BY <2>1
<1>8. \E s \in Inv \ go : loop[<<q, i>>] = out[s]
  <2> HIDE DEF go, next, out, measure, loop
  <2> QED BY <1>4, <1>6, <1>7, LoopInvariant
<1> QED BY <1>5, <1>8

\* The type of the loops' results, whatever the array.
LEMMA UpType ==
    ASSUME NEW r, NEW e, NEW q \in Seq(Obj), NEW j \in 0 .. Len(q)
    PROVE  Up(q, j, r, e) \in Seq(Obj) /\ Len(Up(q, j, r, e)) = Len(q)
<1> DEFINE Inv == {s \in Rising : Len(s[1]) = Len(q)}
<1>1. <<q, j>> \in Inv
  BY DEF Rising
<1>2. \A s \in Inv : Rises(s[1], s[2], r, e) => Risen(s) \in Inv
  BY RisenTurn
<1>3. Inv \in SUBSET Rising
  OBVIOUS
<1> HIDE DEF Inv
<1>4. PICK s \in Inv : Up(q, j, r, e) = s[1]
  BY <1>1, <1>2, <1>3, UpLoop
<1> QED BY <1>4 DEF Inv, Rising

LEMMA DownType ==
    ASSUME NEW r, NEW e, NEW q \in Seq(Obj), NEW n \in 0 .. Len(q), NEW i \in Nat \ {0}
    PROVE  Down(q, i, n, r, e) \in Seq(Obj) /\ Len(Down(q, i, n, r, e)) = Len(q)
<1> DEFINE Inv == {s \in Sinking(n) : Len(s[1]) = Len(q)}
<1>1. n \in Nat /\ <<q, i>> \in Inv
  BY DEF Sinking
<1>2. \A s \in Inv : Sinks(s[1], s[2], n, r, e) => Sunk(s, n, r, e) \in Inv
  BY <1>1, SunkTurn
<1>3. Inv \in SUBSET Sinking(n)
  OBVIOUS
<1> HIDE DEF Inv
<1>4. PICK s \in Inv : Down(q, i, n, r, e) = s[1]
  BY <1>1, <1>2, <1>3, DownLoop
<1> QED BY <1>4 DEF Inv, Sinking

-----------------------------------------------------------------------------
\* A heap of the first n elements; a heap but for the element at i, which may
\* precede its parent; or which may precede its parent or follow its children.
Ordered(q, n, r, e) == \A k \in 2 .. n : ~Less(q, k, k \div 2, r, e)
OrderedBelow(q, n, i, r, e) ==
    \A k \in 2 .. n : k \div 2 = i /\ i > 1 => ~Less(q, k, i \div 2, r, e)
OrderedButUp(q, n, i, r, e) ==
    /\ \A k \in 2 .. n : k # i => ~Less(q, k, k \div 2, r, e)
    /\ OrderedBelow(q, n, i, r, e)
OrderedBut(q, n, i, r, e) ==
    /\ \A k \in 2 .. n : k # i /\ k \div 2 # i => ~Less(q, k, k \div 2, r, e)
    /\ OrderedBelow(q, n, i, r, e)

LEMMA Halves == \A k \in Nat : k > 1 => k \div 2 \in 1 .. (k - 1)
OBVIOUS

\* A turn of up moves the one place where the order may fail to the parent.
LEMMA RisenOrdered ==
    ASSUME NEW r, NEW e, Keys(r, e), NEW q \in Seq(Obj), NEW n \in 0 .. Len(q),
           NEW i \in 2 .. n, Less(q, i, i \div 2, r, e), OrderedButUp(q, n, i, r, e)
    PROVE  OrderedButUp(Swap(q, i, i \div 2), n, i \div 2, r, e)
<1> DEFINE p == i \div 2
           s == Swap(q, i, p)
<1>1. p \in 1 .. n /\ p < i /\ i \in 1 .. Len(q) /\ p \in 1 .. Len(q)
  BY Halves
<1>2. /\ s[i] = q[p] /\ s[p] = q[i]
      /\ \A k \in 1 .. n : k # i /\ k # p => s[k] = q[k]
  <2> HIDE DEF p
  <2> QED BY <1>1, SwapWithin
<1>3. \A k \in 1 .. n : q[k] \in Obj
  OBVIOUS
<1>4. Before(q[i], q[p], r, e)
  BY LessIsBefore
<1>5. \A k \in 2 .. n : k # i => ~Before(q[k], q[k \div 2], r, e)
  BY LessIsBefore DEF OrderedButUp
<1>6. \A k \in 2 .. n : k \div 2 = i => ~Before(q[k], q[p], r, e)
  BY LessIsBefore DEF OrderedButUp, OrderedBelow
<1> HIDE DEF p, s
<1>7. ASSUME NEW k \in 2 .. n, k # p
      PROVE  ~Before(s[k], s[k \div 2], r, e)
  <2>0. k \div 2 \in 1 .. n /\ k \div 2 < k /\ k \in 1 .. n
    BY Halves
  <2>1. CASE k = i
    BY <2>1, <1>1, <1>2, <1>3, <1>4, BeforeOrder DEF p
  <2>2. CASE k # i /\ k \div 2 = p
    <3>1. ~Before(q[k], q[p], r, e)
      BY <2>2, <1>5
    <3>2. ~Before(q[k], q[i], r, e)
      BY <3>1, <1>1, <1>3, <1>4, <2>0, BeforeOrder
    <3> QED BY <3>2, <2>0, <2>2, <1>2, <1>7
  <2>3. CASE k \div 2 = i
    BY <2>3, <2>0, <1>1, <1>2, <1>6
  <2>4. CASE k # i /\ k \div 2 # p /\ k \div 2 # i
    BY <2>4, <2>0, <1>2, <1>5, <1>7
  <2> QED BY <2>1, <2>2, <2>3, <2>4
<1>8. ASSUME NEW k \in 2 .. n, k \div 2 = p, p > 1
      PROVE  ~Before(s[k], s[p \div 2], r, e)
  <2>0. k \in 1 .. n /\ k # p /\ p \in 2 .. n /\ p \div 2 \in 1 .. n /\ p \div 2 < p
    BY <1>1, <1>8, Halves
  <2>1. s[p \div 2] = q[p \div 2]
    BY <1>1, <1>2, <2>0
  <2>2. ~Before(q[p], q[p \div 2], r, e)
    BY <1>1, <1>5, <2>0
  <2>3. CASE k = i
    BY <2>1, <2>2, <2>3, <1>2
  <2>4. CASE k # i
    <3>1. ~Before(q[k], q[p], r, e)
      BY <2>4, <1>5, <1>8
    <3>2. ~Before(q[k], q[p \div 2], r, e)
      BY <3>1, <2>0, <2>2, <1>1, <1>3, BeforeOrder
    <3> QED BY <3>2, <2>0, <2>1, <2>4, <1>2
  <2> QED BY <2>3, <2>4
<1> QED BY <1>7, <1>8, LessIsBefore DEF OrderedButUp, OrderedBelow, p, s

LEMMA UpOrders ==
    ASSUME NEW r, NEW e, Keys(r, e), NEW q, NEW q0, NEW n \in Nat, n <= Len(q),
           Permuted(q, q0, n), NEW j \in 1 .. n, OrderedButUp(q, n, j, r, e)
    PROVE  Permuted(Up(q, j, r, e), q0, n) /\ Ordered(Up(q, j, r, e), n, r, e)
<1> DEFINE Inv == {s \in Rising : /\ Permuted(s[1], q0, n) /\ s[2] \in 1 .. n
                                  /\ OrderedButUp(s[1], n, s[2], r, e)}
<1>1. Len(q) = Len(q0) /\ Len(q0) \in Nat
  BY DEF Permuted
<1>2. <<q, j>> \in Inv
  BY DEF Rising, Permuted
<1>3. ASSUME NEW s \in Inv, Rises(s[1], s[2], r, e)
      PROVE  Risen(s) \in Inv
  <2> DEFINE p == s[2] \div 2
  <2>1. /\ Permuted(s[1], q0, n) /\ s[2] \in 2 .. n /\ s[1] \in Seq(Obj)
        /\ n \in 0 .. Len(s[1]) /\ OrderedButUp(s[1], n, s[2], r, e)
        /\ Less(s[1], s[2], p, r, e)
    BY <1>1, <1>3 DEF Permuted, Rises
  <2>2. p \in 1 .. n
    BY <2>1, Halves
  <2>3. OrderedButUp(Swap(s[1], s[2], p), n, p, r, e)
    BY <2>1, RisenOrdered
  <2>4. Permuted(Swap(s[1], s[2], p), q0, n)
    BY <2>1, <2>2, SwapPermuted
  <2>5. Risen(s) \in Rising
    BY <1>3, RisenTurn
  <2> QED BY <2>2, <2>3, <2>4, <2>5 DEF Risen
<1>4. Inv \in SUBSET Rising
  OBVIOUS
<1>5. PICK s \in Inv : ~Rises(s[1], s[2], r, e) /\ Up(q, j, r, e) = s[1]
  <2> HIDE DEF Inv
  <2> QED BY <1>2, <1>3, <1>4, UpLoop
<1>6. Ordered(s[1], n, r, e)
  BY <1>5 DEF Rises, OrderedButUp, Ordered
<1> QED BY <1>5, <1>6

\* A turn of down moves the place to the lesser child.
LEMMA LesserChild ==
    ASSUME NEW r, NEW e, Keys(r, e), NEW q \in Seq(Obj), NEW n \in 0 .. Len(q),
           NEW i \in 1 .. n, 2 * i <= n,
           NEW k \in 2 .. n, k \div 2 = i
    PROVE  ~Before(q[k], q[Child(q, i, n, r, e)], r, e)
<1>1. k = 2 * i \/ k = 2 * i + 1
  OBVIOUS
<1>2. q[k] \in Obj /\ q[2 * i] \in Obj
  OBVIOUS
<1>3. CASE 2 * i < n /\ Less(q, 2 * i + 1, 2 * i, r, e)
  <2>1. q[2 * i + 1] \in Obj
    BY <1>3
  <2>2. Before(q[2 * i + 1], q[2 * i], r, e)
    BY <1>3, LessIsBefore
  <2>3. Child(q, i, n, r, e) = 2 * i + 1
    BY <1>3 DEF Child
  <2> QED BY <1>1, <1>2, <2>1, <2>2, <2>3, BeforeOrder
<1>4. CASE ~(2 * i < n /\ Less(q, 2 * i + 1, 2 * i, r, e))
  <2>1. Child(q, i, n, r, e) = 2 * i
    BY <1>4 DEF Child
  <2>2. CASE k = 2 * i
    BY <1>2, <2>1, <2>2, BeforeOrder
  <2>3. CASE k = 2 * i + 1
    BY <1>4, <2>1, <2>3, LessIsBefore
  <2> QED BY <1>1, <2>2, <2>3
<1> QED BY <1>3, <1>4

LEMMA SunkOrdered ==
    ASSUME NEW r, NEW e, Keys(r, e), NEW q \in Seq(Obj), NEW n \in 0 .. Len(q),
           NEW i \in 1 .. n, 2 * i <= n, OrderedBut(q, n, i, r, e),
           NEW c \in 1 .. n, c = Child(q, i, n, r, e), c \div 2 = i, i < c,
           Less(q, c, i, r, e)
    PROVE  /\ OrderedBut(Swap(q, i, c), n, c, r, e)
           /\ ~Less(Swap(q, i, c), c, c \div 2, r, e)
<1> DEFINE s == Swap(q, i, c)
<1>1. /\ s[i] = q[c] /\ s[c] = q[i]
      /\ \A k \in 1 .. n : k # i /\ k # c => s[k] = q[k]
  <2>1. s = Swap(q, i, c)
    OBVIOUS
  <2> HIDE DEF s
  <2> QED BY ONLY <2>1, SwapWithin, q \in Seq(Obj), n \in 0 .. Len(q), i \in 1 .. n, c \in 1 .. n
<1>2. \A k \in 1 .. n : q[k] \in Obj
  OBVIOUS
<1>3. Before(q[c], q[i], r, e)
  BY LessIsBefore
<1>4. \A k \in 2 .. n : k # i /\ k \div 2 # i => ~Before(q[k], q[k \div 2], r, e)
  BY LessIsBefore DEF OrderedBut
<1>5. \A k \in 2 .. n : k \div 2 = i /\ i > 1 => ~Before(q[k], q[i \div 2], r, e)
  BY LessIsBefore DEF OrderedBut, OrderedBelow
<1>6. \A k \in 2 .. n : k \div 2 = i => ~Before(q[k], q[c], r, e)
  BY LesserChild
<1> HIDE DEF s
<1>7. ASSUME NEW k \in 2 .. n, k # c, k \div 2 # c
      PROVE  ~Before(s[k], s[k \div 2], r, e)
  <2>0. k \div 2 \in 1 .. n /\ k \div 2 < k /\ k \in 1 .. n /\ c \in 2 .. n
    BY Halves
  <2>1. CASE k = i
    BY <2>0, <2>1, <1>1, <1>5, <1>7
  <2>2. CASE k \div 2 = i
    BY <2>0, <2>2, <1>1, <1>6, <1>7
  <2>3. CASE k # i /\ k \div 2 # i
    BY <2>0, <2>3, <1>1, <1>4, <1>7
  <2> QED BY <2>1, <2>2, <2>3
<1>8. ASSUME NEW k \in 2 .. n, k \div 2 = c
      PROVE  ~Before(s[k], s[i], r, e)
  <2>1. k \in 1 .. n /\ k # i /\ k # c /\ k \div 2 # i
    BY <1>8, Halves
  <2> QED BY <1>1, <1>4, <1>8, <2>1
<1>9. ~Before(s[c], s[i], r, e)
  BY <1>1, <1>2, <1>3, BeforeOrder
<1> QED BY <1>7, <1>8, <1>9, LessIsBefore DEF OrderedBut, OrderedBelow, s

\* The element at i sinks as far as it must, or stays and may have to rise.
LEMMA DownOrders ==
    ASSUME NEW r, NEW e, Keys(r, e), NEW q, NEW q0, NEW n \in Nat, n <= Len(q),
           Permuted(q, q0, n), NEW i \in Nat \ {0}, OrderedBut(q, n, i, r, e),
           NEW d, d = Down(q, i, n, r, e)
    PROVE  /\ Permuted(d, q0, n)
           /\ d # q => Ordered(d, n, r, e)
           /\ d = q => OrderedButUp(d, n, i, r, e)
<1> DEFINE Inv == {s \in Sinking(n) :
                     /\ Permuted(s[1], q0, n) /\ OrderedBut(s[1], n, s[2], r, e)
                     /\ s[2] = i => s[1] = q
                     /\ s[2] # i => /\ s[2] \in 2 .. n /\ i < s[2]
                                    /\ ~Less(s[1], s[2], s[2] \div 2, r, e)}
<1>1. Len(q) = Len(q0) /\ Len(q0) \in Nat
  BY DEF Permuted
<1>2. <<q, i>> \in Inv
  BY DEF Sinking, Permuted
<1>3. ASSUME NEW s \in Inv, Sinks(s[1], s[2], n, r, e)
      PROVE  Sunk(s, n, r, e) \in Inv
  <2> DEFINE c == Child(s[1], s[2], n, r, e)
  <2>1. /\ Permuted(s[1], q0, n) /\ s[1] \in Seq(Obj) /\ s[2] \in Nat \ {0}
        /\ n \in 0 .. Len(s[1]) /\ OrderedBut(s[1], n, s[2], r, e)
        /\ Less(s[1], c, s[2], r, e) /\ 2 * s[2] <= n /\ i <= s[2]
    BY <1>1, <1>3 DEF Permuted, Sinks, Sinking
  <2>2. /\ Sunk(s, n, r, e) \in Sinking(n)
        /\ Sunk(s, n, r, e) = <<Swap(s[1], s[2], c), c>>
        /\ s[2] \in 1 .. n /\ c \in 1 .. n /\ s[2] < c /\ c \div 2 = s[2]
    BY <1>3, SunkTurn
  <2> HIDE DEF c
  <2>3. /\ OrderedBut(Swap(s[1], s[2], c), n, c, r, e)
        /\ ~Less(Swap(s[1], s[2], c), c, c \div 2, r, e)
    BY <2>1, <2>2, SunkOrdered DEF c
  <2>4. Permuted(Swap(s[1], s[2], c), q0, n)
    BY <2>1, <2>2, SwapPermuted
  <2> QED BY <2>1, <2>2, <2>3, <2>4
<1>4. Inv \in SUBSET Sinking(n)
  OBVIOUS
<1>5. PICK s \in Inv : ~Sinks(s[1], s[2], n, r, e) /\ d = s[1]
  <2> HIDE DEF Inv
  <2> QED BY <1>2, <1>3, <1>4, DownLoop
<1>6. s[2] \in Nat \ {0} /\ OrderedBut(d, n, s[2], r, e) /\ Permuted(d, q0, n)
  BY <1>5 DEF Sinking
<1>7. ASSUME NEW k \in 2 .. n, k \div 2 = s[2]
      PROVE  ~Less(d, k, s[2], r, e)
  <2>1. /\ k \in {2 * s[2], 2 * s[2] + 1} /\ 2 * s[2] <= n /\ s[2] \in 1 .. n
        /\ n \in 0 .. Len(d) /\ d \in Seq(Obj)
    <3>1. Len(d) = Len(q) /\ d \in Seq(Obj)
      BY <1>1, <1>6 DEF Permuted
    <3>2. s[2] \in Nat
      BY <1>6
    <3> HIDE DEF Inv
    <3> QED BY <1>1, <1>7, <3>1, <3>2
  <2> DEFINE c == Child(d, s[2], n, r, e)
  <2>2. ~Before(d[c], d[s[2]], r, e)
    BY <1>5, <2>1, LessIsBefore DEF Sinks
  <2>3. ~Before(d[k], d[c], r, e)
    BY <1>7, <2>1, LesserChild
  <2>4. d[k] \in Obj /\ d[s[2]] \in Obj /\ d[c] \in Obj
    BY <2>1 DEF Child
  <2>5. ~Before(d[k], d[s[2]], r, e)
    BY <2>2, <2>3, <2>4, BeforeOrder
  <2> QED BY <2>5, LessIsBefore
<1>8. OrderedButUp(d, n, s[2], r, e)
  BY <1>6, <1>7 DEF OrderedBut, OrderedButUp
<1>9. CASE s[2] = i
  BY <1>5, <1>6, <1>8, <1>9
<1>10. CASE s[2] # i
  <2>1. ~Less(d, s[2], s[2] \div 2, r, e)
    BY <1>5, <1>10
  <2>2. Ordered(d, n, r, e)
    BY <1>8, <2>1 DEF OrderedButUp, Ordered
  <2>3. d = q => OrderedButUp(d, n, i, r, e)
    BY <2>2 DEF Ordered, OrderedBut, OrderedButUp
  <2> QED BY <1>6, <2>2, <2>3
<1> QED BY <1>9, <1>10

LEMMA SettleOrders ==
    ASSUME NEW r, NEW e, Keys(r, e), NEW q \in Seq(Obj), Distinct(q),
           NEW n \in 0 .. Len(q), NEW i \in 1 .. n, OrderedBut(q, n, i, r, e)
    PROVE  /\ Permuted(Settle(q, i, n, r, e), q, n)
           /\ Ordered(Settle(q, i, n, r, e), n, r, e)
<1> DEFINE d == Down(q, i, n, r, e)
<1>1. Permuted(q, q, n) /\ n \in Nat /\ n <= Len(q)
  BY DEF Permuted
<1>2. /\ Permuted(d, q, n)
      /\ d # q => Ordered(d, n, r, e)
      /\ d = q => OrderedButUp(q, n, i, r, e)
  BY <1>1, DownOrders
<1>3. d = q => /\ Permuted(Up(q, i, r, e), q, n)
               /\ Ordered(Up(q, i, r, e), n, r, e)
  BY <1>1, <1>2, UpOrders
<1> QED BY <1>2, <1>3 DEF Settle

LEMMA SettleType ==
    ASSUME NEW r, NEW e, NEW q \in Seq(Obj), NEW n \in 0 .. Len(q), NEW i \in 1 .. n
    PROVE  /\ Settle(q, i, n, r, e) \in Seq(Obj)
           /\ Len(Settle(q, i, n, r, e)) = Len(q)
BY UpType, DownType DEF Settle

-----------------------------------------------------------------------------
\* The operations of container/heap, for a heap that holds the polling points of S.
Heap(q, S, r, e) == /\ q \in Seq(Obj) /\ Distinct(q) /\ ToSet(q) = S
                    /\ Ordered(q, Len(q), r, e)

LEMMA ToSetIsAmong == \A q \in Seq(Obj) : ToSet(q) = Among(q, Len(q))
BY DEF ToSet, Among

\* Priorities and times of the polling points that are not in the array do not count.
LEMMA OrderedKeys ==
    ASSUME NEW q, NEW n \in Nat, NEW r, NEW e, NEW r1, NEW e1,
           \A k \in 1 .. n : r1[q[k]] = r[q[k]] /\ e1[q[k]] = e[q[k]],
           Ordered(q, n, r, e)
    PROVE  Ordered(q, n, r1, e1)
<1> SUFFICES ASSUME NEW k \in 2 .. n
             PROVE  ~Less(q, k, k \div 2, r1, e1)
  BY DEF Ordered
<1>1. k \in 1 .. n /\ k \div 2 \in 1 .. n
  BY Halves
<1>2. ~Less(q, k, k \div 2, r, e)
  BY DEF Ordered
<1> QED BY <1>1, <1>2 DEF Less

LEMMA PushHeap ==
    ASSUME NEW r, NEW e, Keys(r, e), NEW q, NEW S, Heap(q, S, r, e),
           NEW o \in Obj, o \notin S
    PROVE  Heap(HeapPush(q, o, r, e), S \cup {o}, r, e)
<1> DEFINE a == Append(q, o)
           n == Len(q) + 1
           u == Up(a, n, r, e)
<1>1. q \in Seq(Obj) /\ Len(q) \in Nat /\ n \in Nat \ {0}
  BY DEF Heap
<1>2. /\ a \in Seq(Obj) /\ Len(a) = n /\ a[n] = o
      /\ \A k \in 1 .. Len(q) : a[k] = q[k]
  BY <1>1
<1> HIDE DEF a
<1>3. \A k \in 1 .. Len(q) : q[k] # o
  BY <1>1 DEF Heap, ToSet
<1>4. Distinct(a)
  BY <1>1, <1>2, <1>3 DEF Distinct, Heap
<1>5. Permuted(a, a, n) /\ n <= Len(a) /\ n \in 1 .. n
  BY <1>1, <1>2, <1>4 DEF Permuted
<1>6. OrderedButUp(a, n, n, r, e)
  <2>1. ASSUME NEW k \in 2 .. n, k # n PROVE ~Less(a, k, k \div 2, r, e)
    <3>1. k \in 2 .. Len(q) /\ k \in 1 .. Len(q) /\ k \div 2 \in 1 .. Len(q)
      BY <1>1, <2>1, Halves
    <3>2. ~Less(q, k, k \div 2, r, e)
      BY <3>1 DEF Heap, Ordered
    <3> QED BY <3>1, <3>2, <1>2 DEF Less
  <2>2. \A k \in 2 .. n : k \div 2 # n
    BY <1>1, Halves
  <2> QED BY <2>1, <2>2 DEF OrderedButUp, OrderedBelow
<1>7. Permuted(u, a, n) /\ Ordered(u, n, r, e)
  BY <1>1, <1>5, <1>6, UpOrders
<1>8. u \in Seq(Obj) /\ Len(u) = n /\ Distinct(u) /\ Among(u, n) = Among(a, n)
  BY <1>2, <1>7 DEF Permuted
<1>9. Among(a, n) = S \cup {o}
  BY <1>1, <1>2 DEF Among, Heap, ToSet
<1>10. HeapPush(q, o, r, e) = u
  BY DEF HeapPush, a
<1> QED BY <1>7, <1>8, <1>9, <1>10, ToSetIsAmong DEF Heap

\* The array without its last element, the one at i having been put there.
LEMMA FrontHeap ==
    ASSUME NEW r, NEW e, NEW q \in Seq(Obj), Distinct(q), NEW i \in 1 .. Len(q),
           NEW t, Permuted(t, Swap(q, i, Len(q)), Len(q) - 1),
           Ordered(t, Len(q) - 1, r, e)
    PROVE  Heap(Front(t), ToSet(q) \ {q[i]}, r, e)
<1> DEFINE n == Len(q) - 1
           s == Swap(q, i, Len(q))
           f == Front(t)
<1>1. n \in Nat /\ Len(q) = n + 1 /\ Len(q) \in 1 .. Len(q)
  OBVIOUS
<1>2. /\ s \in Seq(Obj) /\ Len(s) = Len(q) /\ s[i] = q[Len(q)]
      /\ \A k \in 1 .. Len(q) : k # i /\ k # Len(q) => s[k] = q[k]
  BY <1>1, SwapElements
<1> HIDE DEF s
<1>3. /\ t \in Seq(Obj) /\ Len(t) = n + 1 /\ Distinct(t) /\ Among(t, n) = Among(s, n)
  BY <1>1, <1>2 DEF Permuted, s
<1>4. f \in Seq(Obj) /\ Len(f) = n /\ \A k \in 1 .. n : f[k] = t[k]
  BY <1>1, <1>3 DEF Front
<1> HIDE DEF f, n
<1>5. Distinct(f)
  BY <1>1, <1>3, <1>4 DEF Distinct
<1>6. Ordered(f, n, r, e)
  <2> SUFFICES ASSUME NEW k \in 2 .. n PROVE ~Less(f, k, k \div 2, r, e)
    BY DEF Ordered
  <2>1. k \in 1 .. n /\ k \div 2 \in 1 .. n
    BY <1>1, Halves
  <2>2. ~Less(t, k, k \div 2, r, e)
    BY DEF Ordered, n
  <2> QED BY <1>4, <2>1, <2>2 DEF Less
<1>7. Among(f, n) = Among(t, n)
  BY <1>4 DEF Among
<1>8. Among(s, n) = ToSet(q) \ {q[i]}
  <2>1. ASSUME NEW k \in 1 .. n PROVE s[k] \in ToSet(q) \ {q[i]}
    <3>1. k \in 1 .. Len(q) /\ k # Len(q) /\ Len(q) \in 1 .. Len(q)
      BY <1>1
    <3>2. CASE k = i
      <4>1. q[Len(q)] # q[i]
        BY <3>1, <3>2 DEF Distinct
      <4> QED BY <1>2, <3>1, <3>2, <4>1 DEF ToSet
    <3>3. CASE k # i
      <4>1. s[k] = q[k] /\ q[k] # q[i]
        BY <1>2, <3>1, <3>3 DEF Distinct
      <4> QED BY <3>1, <4>1 DEF ToSet
    <3> QED BY <3>2, <3>3
  <2>2. ASSUME NEW k \in 1 .. Len(q), q[k] # q[i] PROVE q[k] \in Among(s, n)
    <3>1. CASE k = Len(q)
      <4>1. i \in 1 .. n
        BY <1>1, <2>2, <3>1
      <4> QED BY <1>2, <3>1, <4>1 DEF Among
    <3>2. CASE k # Len(q)
      <4>1. k \in 1 .. n /\ k # i
        BY <1>1, <2>2, <3>2
      <4> QED BY <1>2, <3>2, <4>1 DEF Among
    <3> QED BY <3>1, <3>2
  <2> QED BY <2>1, <2>2 DEF Among, ToSet
<1>9. ToSet(f) = ToSet(q) \ {q[i]}
  BY <1>3, <1>4, <1>7, <1>8, ToSetIsAmong
<1> QED BY <1>4, <1>5, <1>6, <1>9 DEF Heap, f, n

\* Within the other elements, only the one put at i may be out of order.
LEMMA SwapLeaves ==
    ASSUME NEW r, NEW e, Keys(r, e), NEW q \in Seq(Obj), Ordered(q, Len(q), r, e),
           NEW i \in 1 .. Len(q)
    PROVE  OrderedBut(Swap(q, i, Len(q)), Len(q) - 1, i, r, e)
<1> DEFINE n == Len(q) - 1
           s == Swap(q, i, Len(q))
<1>1. n \in Nat /\ Len(q) = n + 1 /\ Len(q) \in 1 .. Len(q)
  OBVIOUS
<1>2. \A k \in 1 .. n : k # i => s[k] = q[k]
  <2>1. \A k \in 1 .. n : k \in 1 .. Len(q) /\ k # Len(q)
    <3> HIDE DEF s, n
    <3> QED BY <1>1
  <2>2. \A k \in 1 .. Len(q) : k # i /\ k # Len(q) => s[k] = q[k]
    BY <1>1, SwapElements
  <2> QED BY <2>1, <2>2
<1>3. \A k \in 1 .. n : q[k] \in Obj
  OBVIOUS
<1>4. \A k \in 2 .. n : ~Before(q[k], q[k \div 2], r, e)
  BY LessIsBefore DEF Ordered
<1> HIDE DEF s, n
<1>5. ASSUME NEW k \in 2 .. n, k # i, k \div 2 # i
      PROVE  ~Before(s[k], s[k \div 2], r, e)
  <2>1. k \in 1 .. n /\ k \div 2 \in 1 .. n
    BY <1>1, Halves
  <2> QED BY <1>2, <1>4, <1>5, <2>1
<1>6. ASSUME NEW k \in 2 .. n, k \div 2 = i, i > 1
      PROVE  ~Before(s[k], s[i \div 2], r, e)
  <2>1. /\ k \in 1 .. n /\ k # i /\ i \in 2 .. n /\ i \in 1 .. n
        /\ i \div 2 \in 1 .. n /\ i \div 2 # i
    BY <1>1, <1>6, Halves
  <2>2. ~Before(q[k], q[i], r, e) /\ ~Before(q[i], q[i \div 2], r, e)
    BY <1>4, <1>6, <2>1
  <2>3. ~Before(q[k], q[i \div 2], r, e)
    BY <1>3, <2>1, <2>2, BeforeOrder
  <2> QED BY <1>2, <2>1, <2>3
<1> QED BY <1>5, <1>6, LessIsBefore DEF OrderedBut, OrderedBelow, s, n

LEMMA PopHeap ==
    ASSUME NEW r, NEW e, Keys(r, e), NEW q, NEW S, Heap(q, S, r, e), q # << >>
    PROVE  Heap(Front(HeapPop(q, r, e)), S \ {q[1]}, r, e)
<1> DEFINE n == Len(q) - 1
           s == Swap(q, 1, Len(q))
           d == Down(s, 1, n, r, e)
<1>1. /\ q \in Seq(Obj) /\ Distinct(q) /\ Ordered(q, Len(q), r, e) /\ S = ToSet(q)
      /\ n \in Nat /\ Len(q) = n + 1 /\ 1 \in 1 .. Len(q) /\ Len(q) \in 1 .. Len(q)
  BY DEF Heap
<1>2. s \in Seq(Obj) /\ Len(s) = n + 1 /\ Distinct(s)
  <2>1. Permuted(q, q, Len(q))
    BY <1>1 DEF Permuted
  <2>2. Permuted(s, q, Len(q))
    BY <1>1, <2>1, SwapPermuted
  <2> QED BY <1>1, <2>2 DEF Permuted
<1>3. OrderedBut(s, n, 1, r, e)
  BY <1>1, SwapLeaves
<1>4. Permuted(s, s, n)
  BY <1>1, <1>2 DEF Permuted
<1>5. /\ Permuted(d, s, n)
      /\ d # s => Ordered(d, n, r, e)
      /\ d = s => OrderedButUp(d, n, 1, r, e)
  <2> HIDE DEF s, n
  <2>1. n <= Len(s) /\ 1 \in Nat \ {0}
    BY <1>1, <1>2
  <2> QED BY <1>1, <1>3, <1>4, <2>1, DownOrders
<1>6. Ordered(d, n, r, e)
  <2>1. OrderedButUp(d, n, 1, r, e) => Ordered(d, n, r, e)
    BY DEF OrderedButUp, Ordered
  <2> QED BY <1>5, <2>1
<1>7. Heap(Front(d), ToSet(q) \ {q[1]}, r, e)
  BY <1>1, <1>5, <1>6, FrontHeap
<1> QED BY <1>1, <1>7 DEF HeapPop

LEMMA RemoveHeap ==
    ASSUME NEW r, NEW e, Keys(r, e), NEW q, NEW S, Heap(q, S, r, e),
           NEW i \in 1 .. Len(q)
    PROVE  Heap(HeapRemove(q, i, r, e), S \ {q[i]}, r, e)
<1> DEFINE n == Len(q) - 1
           s == Swap(q, i, Len(q))
           t == IF i = Len(q) THEN q ELSE Settle(s, i, n, r, e)
<1>1. /\ q \in Seq(Obj) /\ Distinct(q) /\ Ordered(q, Len(q), r, e) /\ S = ToSet(q)
      /\ n \in Nat /\ Len(q) = n + 1 /\ Len(q) \in 1 .. Len(q) /\ i \in 1 .. Len(q)
  BY DEF Heap
<1>2. s \in Seq(Obj) /\ Len(s) = n + 1 /\ Distinct(s)
  <2>1. Permuted(q, q, Len(q))
    BY <1>1 DEF Permuted
  <2>2. Permuted(s, q, Len(q))
    BY <1>1, <2>1, SwapPermuted
  <2> QED BY <1>1, <2>2 DEF Permuted
<1>3. Permuted(t, s, n) /\ Ordered(t, n, r, e)
  <2>1. CASE i = Len(q)
    <3>1. s = q
      BY <1>1, <2>1 DEF Swap
    <3>2. Permuted(q, q, n)
      BY <1>1 DEF Permuted
    <3>3. Ordered(q, n, r, e)
      BY <1>1 DEF Ordered
    <3> QED BY <2>1, <3>1, <3>2, <3>3
  <2>2. CASE i # Len(q)
    <3>1. OrderedBut(s, n, i, r, e)
      BY <1>1, SwapLeaves
    <3> HIDE DEF s, n, t
    <3>2. i \in 1 .. n /\ n \in 0 .. Len(s)
      BY <1>1, <1>2, <2>2
    <3> QED BY <1>2, <2>2, <3>1, <3>2, SettleOrders DEF t
  <2> QED BY <2>1, <2>2
<1>4. Heap(Front(t), ToSet(q) \ {q[i]}, r, e)
  <2> HIDE DEF t
  <2> QED BY <1>1, <1>3, FrontHeap
<1> QED BY <1>1, <1>4 DEF HeapRemove

\* The key of the element at i may have changed.
LEMMA FixHeap ==
    ASSUME NEW r, NEW e, NEW r1, Keys(r, e), Keys(r1, e), NEW q, NEW S,
           Heap(q, S, r, e), NEW i \in 1 .. Len(q),
           \A o \in Obj : o # q[i] => r1[o] = r[o]
    PROVE  Heap(HeapFix(q, i, r1, e), S, r1, e)
<1> DEFINE n == Len(q)
           h == HeapFix(q, i, r1, e)
<1>1. /\ q \in Seq(Obj) /\ Distinct(q) /\ S = ToSet(q) /\ n \in Nat
      /\ n \in 0 .. Len(q) /\ i \in 1 .. n /\ \A k \in 1 .. n : q[k] \in Obj
  BY DEF Heap
<1>2. \A k \in 2 .. n : ~Before(q[k], q[k \div 2], r, e)
  BY LessIsBefore DEF Ordered, Heap
<1>3. \A k, l \in 1 .. n : k # i /\ l # i =>
          (Before(q[k], q[l], r1, e) <=> Before(q[k], q[l], r, e))
  <2>1. \A k \in 1 .. n : k # i => q[k] # q[i] /\ r1[q[k]] = r[q[k]]
    BY <1>1 DEF Distinct
  <2> QED BY <2>1 DEF Before
<1> HIDE DEF n
<1>4. ASSUME NEW k \in 2 .. n, k # i, k \div 2 # i
      PROVE  ~Before(q[k], q[k \div 2], r1, e)
  <2>1. k \in 1 .. n /\ k \div 2 \in 1 .. n
    BY <1>1, Halves
  <2> QED BY <1>2, <1>3, <1>4, <2>1
<1>5. ASSUME NEW k \in 2 .. n, k \div 2 = i, i > 1
      PROVE  ~Before(q[k], q[i \div 2], r1, e)
  <2>1. /\ k \in 1 .. n /\ k # i /\ i \in 2 .. n /\ i \in 1 .. n
        /\ i \div 2 \in 1 .. n /\ i \div 2 # i
    BY <1>1, <1>5, Halves
  <2>2. ~Before(q[k], q[i], r, e) /\ ~Before(q[i], q[i \div 2], r, e)
    BY <1>2, <1>5, <2>1
  <2>3. ~Before(q[k], q[i \div 2], r, e)
    BY <1>1, <2>1, <2>2, BeforeOrder
  <2> QED BY <1>3, <2>1, <2>3
<1>6. OrderedBut(q, n, i, r1, e)
  BY <1>4, <1>5, LessIsBefore DEF OrderedBut, OrderedBelow
<1>7. Permuted(h, q, n) /\ Ordered(h, n, r1, e)
  BY <1>1, <1>6, SettleOrders DEF HeapFix, n
<1>8. h \in Seq(Obj) /\ Len(h) = n /\ Distinct(h) /\ Among(h, n) = Among(q, n)
  BY <1>7 DEF Permuted, n
<1> QED BY <1>1, <1>7, <1>8, ToSetIsAmong DEF Heap, n

\* Nothing in a heap precedes its root.
LEMMA RootFirst ==
    ASSUME NEW r, NEW e, Keys(r, e), NEW q \in Seq(Obj), Ordered(q, Len(q), r, e),
           NEW x \in ToSet(q)
    PROVE  ~Before(x, q[1], r, e)
<1> DEFINE S == {k \in Nat : k \in 1 .. Len(q) => ~Before(q[k], q[1], r, e)}
<1>1. ASSUME NEW n \in Nat, \A k \in Nat : k < n => k \in S
      PROVE  n \in S
  <2> SUFFICES ASSUME n \in 1 .. Len(q) PROVE ~Before(q[n], q[1], r, e)
    OBVIOUS
  <2>1. q[n] \in Obj /\ q[1] \in Obj
    OBVIOUS
  <2>2. CASE n = 1
    BY <2>1, <2>2, BeforeOrder
  <2>3. CASE n # 1
    <3>1. n \in 2 .. Len(q) /\ n \div 2 \in 1 .. Len(q) /\ n \div 2 < n
      BY <2>3, Halves
    <3>2. ~Before(q[n], q[n \div 2], r, e)
      BY <3>1, LessIsBefore DEF Ordered
    <3>3. n \div 2 \in S
      BY <1>1, <3>1
    <3>4. ~Before(q[n \div 2], q[1], r, e) /\ q[n \div 2] \in Obj
      BY <3>1, <3>3
    <3> QED BY <2>1, <3>2, <3>4, BeforeOrder
  <2> QED BY <2>2, <2>3
<1>2. Nat \subseteq S
  <2> HIDE DEF S
  <2> QED BY <1>1, SetInduction
<1>3. PICK k \in 1 .. Len(q) : x = q[k]
  BY DEF ToSet
<1> QED BY <1>2, <1>3

-----------------------------------------------------------------------------
\* The searches.
LEMMA IndexFound ==
    ASSUME NEW q \in Seq(Obj), NEW u, NEW i, i = IndexOf(q, u)
    PROVE  /\ i = 0 => \A k \in 1 .. Len(q) : UUID[q[k]] # u
           /\ i # 0 => i \in 1 .. Len(q) /\ UUID[q[i]] = u
<1> DEFINE I == {k \in 1 .. Len(q) : UUID[q[k]] = u}
<1>1. i = IF I # {} THEN Min(I) ELSE 0
  BY DEF IndexOf, SelectInSeq
<1>2. I # {} => Min(I) \in I
  <2>1. I \in SUBSET Nat
    OBVIOUS
  <2> HIDE DEF I
  <2> QED BY <2>1, MinIsMember
<1> QED BY <1>1, <1>2

LEMMA IndexOfDeviceFound ==
    ASSUME NEW q \in Seq(Obj), NEW d, NEW i, i = IndexOfDevice(q, d)
    PROVE  /\ i = 0 => \A k \in 1 .. Len(q) : Device[q[k]] # d
           /\ i # 0 => i \in 1 .. Len(q) /\ Device[q[i]] = d
<1> DEFINE I == {k \in 1 .. Len(q) : Device[q[k]] = d}
<1>1. i = IF I # {} THEN Min(I) ELSE 0
  BY DEF IndexOfDevice, SelectInSeq
<1>2. I # {} => Min(I) \in I
  <2>1. I \in SUBSET Nat
    OBVIOUS
  <2> HIDE DEF I
  <2> QED BY <2>1, MinIsMember
<1> QED BY <1>1, <1>2

LEMMA RemoveType ==
    ASSUME NEW r, NEW e, NEW q \in Seq(Obj), NEW i \in 1 .. Len(q)
    PROVE  /\ HeapRemove(q, i, r, e) \in Seq(Obj)
           /\ Len(HeapRemove(q, i, r, e)) = Len(q) - 1
<1> DEFINE n == Len(q)
           s == Swap(q, i, n)
           t == IF i = n THEN q ELSE Settle(s, i, n - 1, r, e)
<1>1. n \in Nat \ {0} /\ i \in 1 .. n /\ n \in 1 .. Len(q)
  OBVIOUS
<1>2. s \in Seq(Obj) /\ Len(s) = n
  BY <1>1, SwapElements
<1>3. t \in Seq(Obj) /\ Len(t) = n
  <2> HIDE DEF n, s
  <2>1. i # n => i \in 1 .. (n - 1) /\ n - 1 \in 0 .. Len(s)
    BY <1>1, <1>2
  <2> QED BY <1>2, <2>1, SettleType DEF n
<1>4. Front(t) \in Seq(Obj) /\ Len(Front(t)) = n - 1
  <2> HIDE DEF t, n
  <2> QED BY <1>1, <1>3 DEF Front
<1> QED BY <1>4 DEF HeapRemove

\* Every polling point of the device is removed, and no other.
LEMMA RemoveAllHeap ==
    ASSUME NEW r, NEW e, Keys(r, e), NEW q, NEW S, Heap(q, S, r, e), NEW d
    PROVE  Heap(RemoveAll(q, d, r, e), {x \in S : Device[x] # d}, r, e)
<1> DEFINE X == Seq(Obj)
           go == {s \in X : IndexOfDevice(s, d) # 0}
           next == [s \in X |-> HeapRemove(s, IndexOfDevice(s, d), r, e)]
           out == [s \in X |-> s]
           measure == [s \in X |-> Len(s)]
           loop == CHOOSE g : g = [s \in X |->
               IF IndexOfDevice(s, d) = 0 THEN s
               ELSE g[HeapRemove(s, IndexOfDevice(s, d), r, e)]]
           Inv == {s \in X : /\ Heap(s, ToSet(s), r, e) /\ ToSet(s) \subseteq S
                             /\ {x \in S : Device[x] # d} \subseteq ToSet(s)}
<1>1. ASSUME NEW s \in X \cap go
      PROVE  /\ IndexOfDevice(s, d) \in 1 .. Len(s)
             /\ Device[s[IndexOfDevice(s, d)]] = d
             /\ next[s] \in X /\ Len(next[s]) = Len(s) - 1
             /\ next[s] = HeapRemove(s, IndexOfDevice(s, d), r, e)
  BY IndexOfDeviceFound, RemoveType
<1>2. \E g : Loops(g, X, go, next, out)
  <2> HIDE DEF go, next, out
  <2> QED BY <1>1, LoopDefined
<1>3. \A g : Loops(g, X, go, next, out) <=> g = [s \in X |->
               IF IndexOfDevice(s, d) = 0 THEN s
               ELSE g[HeapRemove(s, IndexOfDevice(s, d), r, e)]]
  BY DEF Loops
<1>4. Loops(loop, X, go, next, out)
  <2> HIDE DEF go, next, out
  <2> QED BY <1>2, <1>3
<1>5. RemoveAll(q, d, r, e) = loop[q]
  BY DEF RemoveAll
<1>6. measure \in [X -> Nat]
  OBVIOUS
<1>7. ASSUME NEW s \in Inv \cap go
      PROVE  next[s] \in Inv /\ measure[next[s]] < measure[s]
  <2> DEFINE i == IndexOfDevice(s, d)
  <2>1. s \in X \cap go /\ Len(s) \in Nat
    OBVIOUS
  <2>2. /\ i \in 1 .. Len(s) /\ Device[s[i]] = d
        /\ next[s] \in X /\ Len(next[s]) = Len(s) - 1
        /\ next[s] = HeapRemove(s, i, r, e)
    BY <2>1, <1>1
  <2> HIDE DEF i, go, next
  <2>3. Heap(next[s], ToSet(s) \ {s[i]}, r, e)
    BY <2>2, RemoveHeap
  <2>4. ToSet(next[s]) = ToSet(s) \ {s[i]}
    BY <2>3 DEF Heap
  <2>5. next[s] \in Inv
    BY <2>2, <2>3, <2>4
  <2> QED BY <2>1, <2>2, <2>5
<1>8. q \in Inv
  BY DEF Heap
<1>9. PICK s \in Inv \ go : loop[q] = out[s]
  <2>1. Inv \in SUBSET X
    OBVIOUS
  <2> HIDE DEF go, next, out, measure, loop, Inv
  <2> QED BY <1>4, <1>6, <1>7, <1>8, <2>1, LoopInvariant
<1>10. ToSet(s) = {x \in S : Device[x] # d}
  <2>1. \A k \in 1 .. Len(s) : Device[s[k]] # d
    BY <1>9, IndexOfDeviceFound
  <2> QED BY <1>9, <2>1 DEF ToSet
<1> QED BY <1>5, <1>9, <1>10

-----------------------------------------------------------------------------
\* The inductive invariant: the array is a heap of polling points no two of
\* which have one UUID, and the keys are numbers.
Single(S) == \A x, y \in S : UUID[x] = UUID[y] => x = y

HeapInv == /\ Keys(rank, entry) /\ clock \in Nat
           /\ Heap(priorityQueue, ToSet(priorityQueue), rank, entry)
           /\ Single(ToSet(priorityQueue))

LEMMA HeapInvInit == Init => HeapInv
<1> SUFFICES ASSUME Init PROVE HeapInv
  OBVIOUS
<1>1. << >> \in Seq(Obj) /\ Len(<< >>) = 0 /\ ToSet(<< >>) = {}
  BY DEF ToSet
<1> QED BY <1>1 DEF Init, HeapInv, Keys, Heap, Distinct, Ordered, Single

\* What each operation makes of the array, and the step of UrgencyOrder it is.
LEMMA AddStep ==
    ASSUME HeapInv, NEW o \in Obj, AddPollingPoint(o)
    PROVE  HeapInv' /\ Order!Add(o)
<1> DEFINE q == priorityQueue
           S == ToSet(q)
<1>1. PICK p \in Rank : rank' = [rank EXCEPT ![o] = p]
  BY DEF AddPollingPoint
<1>2. entry' = [entry EXCEPT ![o] = clock]
  BY DEF AddPollingPoint
<1>3. /\ Keys(rank, entry) /\ Keys(rank', entry') /\ clock \in Nat
      /\ q \in Seq(Obj) /\ Heap(q, S, rank, entry) /\ Single(S)
  BY <1>1, <1>2 DEF HeapInv, Keys, Heap
<1>4. \A x \in S : UUID[x] # UUID[o]
  BY <1>3, IndexFound DEF AddPollingPoint, ToSet
<1>5. Heap(q, S, rank', entry')
  <2>1. \A k \in 1 .. Len(q) : q[k] # o /\ q[k] \in Obj
    <3>1. \A k \in 1 .. Len(q) : q[k] \in S /\ q[k] \in Obj
      BY <1>3 DEF ToSet
    <3> QED BY <1>4, <3>1
  <2>2. \A k \in 1 .. Len(q) : rank'[q[k]] = rank[q[k]] /\ entry'[q[k]] = entry[q[k]]
    BY <1>1, <1>2, <1>3, <2>1 DEF Keys
  <2>3. Len(q) \in Nat
    BY <1>3
  <2> QED BY <1>3, <2>2, <2>3, OrderedKeys DEF Heap
<1>6. Heap(priorityQueue', S \cup {o}, rank', entry')
  <2>1. o \notin S
    BY <1>4
  <2>2. priorityQueue' = HeapPush(q, o, rank', entry')
    BY DEF AddPollingPoint
  <2> HIDE DEF q, S
  <2> QED BY <1>3, <1>5, <2>1, <2>2, PushHeap
<1>7. ToSet(priorityQueue') = S \cup {o}
  BY <1>6 DEF Heap
<1>8. Single(S \cup {o})
  BY <1>3, <1>4 DEF Single
<1>9. clock' = clock /\ popped' = popped
  BY DEF AddPollingPoint
<1>10. HeapInv'
  BY <1>3, <1>6, <1>7, <1>8, <1>9 DEF HeapInv
<1> QED BY <1>1, <1>2, <1>4, <1>7, <1>9, <1>10 DEF Order!Add

LEMMA GetNextStep ==
    ASSUME HeapInv, GetNextPollingPoint
    PROVE  HeapInv' /\ Order!GiveOut
<1> DEFINE q == priorityQueue
           S == ToSet(q)
<1>1. /\ Keys(rank, entry) /\ clock \in Nat /\ q \in Seq(Obj) /\ q # << >>
      /\ Heap(q, S, rank, entry) /\ Single(S) /\ Ordered(q, Len(q), rank, entry)
  BY DEF HeapInv, Heap, GetNextPollingPoint
<1>2. /\ UNCHANGED <<rank, entry, clock>> /\ popped' = q[1]
      /\ priorityQueue' = Front(HeapPop(q, rank, entry))
  BY DEF GetNextPollingPoint
<1>3. Heap(priorityQueue', S \ {q[1]}, rank, entry)
  BY <1>1, <1>2, PopHeap
<1>4. ToSet(priorityQueue') = S \ {q[1]}
  BY <1>3 DEF Heap
<1>5. HeapInv'
  BY <1>1, <1>2, <1>3, <1>4 DEF HeapInv, Single
<1>6. q[1] \in S /\ S \subseteq Obj
  BY <1>1 DEF ToSet
<1>7. \A x \in S : Order!Precedes(q[1], x)
  <2> SUFFICES ASSUME NEW x \in S PROVE Order!Precedes(q[1], x)
    OBVIOUS
  <2>1. ~Before(x, q[1], rank, entry)
    BY <1>1, RootFirst
  <2>2. /\ rank[x] \in Nat /\ rank[q[1]] \in Nat
        /\ entry[x] \in Nat /\ entry[q[1]] \in Nat
    BY <1>1, <1>6, HeapAssumption DEF Keys
  <2> QED BY <2>1, <2>2 DEF Before, Order!Precedes
<1> HIDE DEF q
<1> QED BY <1>2, <1>4, <1>5, <1>6, <1>7 DEF Order!GiveOut, q

LEMMA RemoveStep ==
    ASSUME HeapInv, NEW o \in Obj, RemovePollingPointByPointUUID(UUID[o])
    PROVE  HeapInv' /\ Order!Withdraw({x \in Obj : UUID[x] = UUID[o]})
<1> DEFINE q == priorityQueue
           S == ToSet(q)
           i == IndexOf(q, UUID[o])
<1>1. /\ Keys(rank, entry) /\ clock \in Nat /\ q \in Seq(Obj)
      /\ Heap(q, S, rank, entry) /\ Single(S)
  BY DEF HeapInv, Heap
<1>2. /\ UNCHANGED <<rank, entry, clock>> /\ popped' = None
      /\ priorityQueue' = HeapRemove(q, i, rank, entry) /\ i # 0
  BY DEF RemovePollingPointByPointUUID
<1>3. i \in 1 .. Len(q) /\ UUID[q[i]] = UUID[o]
  BY <1>1, <1>2, IndexFound
<1> HIDE DEF i
<1>4. Heap(priorityQueue', S \ {q[i]}, rank, entry)
  BY <1>1, <1>2, <1>3, RemoveHeap
<1>5. ToSet(priorityQueue') = S \ {q[i]}
  BY <1>4 DEF Heap
<1>6. HeapInv'
  BY <1>1, <1>2, <1>4, <1>5 DEF HeapInv, Single
<1>7. S \ {q[i]} = S \ {x \in Obj : UUID[x] = UUID[o]}
  <2>1. q[i] \in S /\ S \subseteq Obj
    BY <1>1, <1>3 DEF ToSet
  <2>2. \A x \in S : UUID[x] = UUID[o] <=> x = q[i]
    BY <1>1, <1>3, <2>1 DEF Single
  <2> QED BY <2>1, <2>2
<1> QED BY <1>2, <1>5, <1>6, <1>7 DEF Order!Withdraw

LEMMA RemoveDeviceStep ==
    ASSUME HeapInv, NEW o \in Obj, RemovePollingPointByDeviceUUID(Device[o])
    PROVE  HeapInv' /\ Order!Withdraw({x \in Obj : Device[x] = Device[o]})
<1> DEFINE q == priorityQueue
           S == ToSet(q)
           T == {x \in S : Device[x] # Device[o]}
<1>1. /\ Keys(rank, entry) /\ clock \in Nat /\ q \in Seq(Obj)
      /\ Heap(q, S, rank, entry) /\ Single(S) /\ S \subseteq Obj
  BY DEF HeapInv, Heap, ToSet
<1>2. /\ UNCHANGED <<rank, entry, clock>> /\ popped' = None
      /\ priorityQueue' = RemoveAll(q, Device[o], rank, entry)
  BY DEF RemovePollingPointByDeviceUUID
<1>3. Heap(priorityQueue', T, rank, entry)
  BY <1>1, <1>2, RemoveAllHeap
<1>4. ToSet(priorityQueue') = T
  BY <1>3 DEF Heap
<1>5. HeapInv'
  BY <1>1, <1>2, <1>3, <1>4 DEF HeapInv, Single
<1>6. T = S \ {x \in Obj : Device[x] = Device[o]}
  BY <1>1
<1> QED BY <1>2, <1>4, <1>5, <1>6 DEF Order!Withdraw

LEMMA UpdateStep ==
    ASSUME HeapInv, NEW o \in Obj, UpdatePollingPointByPointUUID(UUID[o])
    PROVE  HeapInv' /\ \E x \in Obj : Order!Promote(x)
<1> DEFINE q == priorityQueue
           S == ToSet(q)
           i == IndexOf(q, UUID[o])
<1>1. /\ Keys(rank, entry) /\ clock \in Nat /\ q \in Seq(Obj)
      /\ Heap(q, S, rank, entry) /\ Single(S)
  BY DEF HeapInv, Heap
<1>2. /\ UNCHANGED <<entry, clock, popped>> /\ i # 0
      /\ priorityQueue' = HeapFix(q, i, rank', entry)
  BY DEF UpdatePollingPointByPointUUID
<1>3. PICK p \in Rank : rank' = [rank EXCEPT ![q[i]] = p]
  BY DEF UpdatePollingPointByPointUUID
<1>4. i \in 1 .. Len(q)
  BY <1>1, <1>2, IndexFound
<1> HIDE DEF i
<1>5. q[i] \in Obj /\ q[i] \in S
  BY <1>1, <1>4 DEF ToSet
<1>6. Keys(rank', entry) /\ \A x \in Obj : x # q[i] => rank'[x] = rank[x]
  BY <1>1, <1>3, <1>5 DEF Keys
<1>7. Heap(priorityQueue', S, rank', entry)
  BY <1>1, <1>2, <1>4, <1>6, FixHeap
<1>8. ToSet(priorityQueue') = S
  BY <1>7 DEF Heap
<1>9. HeapInv'
  BY <1>1, <1>2, <1>6, <1>7, <1>8 DEF HeapInv
<1>10. Order!Promote(q[i])
  BY <1>2, <1>3, <1>5, <1>8 DEF Order!Promote
<1> QED BY <1>5, <1>9, <1>10

LEMMA EmptyStep ==
    ASSUME HeapInv, EmptyQueue
    PROVE  HeapInv' /\ Order!Withdraw(Obj)
<1>1. << >> \in Seq(Obj) /\ Len(<< >>) = 0 /\ ToSet(<< >>) = {}
  BY DEF ToSet
<1>2. HeapInv'
  BY <1>1 DEF EmptyQueue, HeapInv, Keys, Heap, Distinct, Ordered, Single
<1>3. ToSet(priorityQueue) \subseteq Obj
  BY DEF HeapInv, Heap, ToSet
<1> QED BY <1>1, <1>2, <1>3 DEF EmptyQueue, Order!Withdraw

LEMMA HeapStep ==
    ASSUME HeapInv, [Next]_vars
    PROVE  HeapInv' /\ [Order!Next]_(Order!vars)
<1>1. CASE UNCHANGED vars
  BY <1>1 DEF vars, Order!vars, HeapInv
<1>2. CASE Tick
  BY <1>2 DEF Tick, HeapInv, Order!Next, Order!Tick
<1>3. CASE GetNextPollingPoint
  BY <1>3, GetNextStep DEF Order!Next
<1>4. CASE EmptyQueue
  BY <1>4, EmptyStep DEF Order!Next
<1>5. CASE \E o \in Obj : AddPollingPoint(o)
  BY <1>5, AddStep DEF Order!Next
<1>6. CASE \E o \in Obj : RemovePollingPointByPointUUID(UUID[o])
  BY <1>6, RemoveStep DEF Order!Next
<1>7. CASE \E o \in Obj : UpdatePollingPointByPointUUID(UUID[o])
  BY <1>7, UpdateStep DEF Order!Next
<1>8. CASE \E o \in Obj : RemovePollingPointByDeviceUUID(Device[o])
  BY <1>8, RemoveDeviceStep DEF Order!Next
<1> QED BY <1>1, <1>2, <1>3, <1>4, <1>5, <1>6, <1>7, <1>8 DEF Next

\* The array is a heap after every call, so a removal from the middle or a change
\* of a key leaves no polling point before one it should follow.
THEOREM HeapSafe == Spec => []HeapOrdered
<1>1. HeapInv => HeapOrdered
  BY DEF HeapInv, Heap, Ordered, HeapOrdered
<1>2. HeapInv /\ [Next]_vars => HeapInv'
  BY HeapStep
<1> QED BY <1>1, <1>2, HeapInvInit, PTL DEF Spec

\* The array implements the promise of the queue: what GetNextPollingPoint gives
\* out is the most urgent one that waits, and calls take away what they name only.
THEOREM HeapIsUrgent == Spec => Urgent
<1>1. HeapInv /\ [Next]_vars => HeapInv'
  BY HeapStep
<1>2. HeapInv /\ [Next]_vars => [Order!Next]_(Order!vars)
  BY HeapStep
<1>3. Init => Order!Init
  BY DEF Init, Order!Init, ToSet
<1> QED BY <1>1, <1>2, <1>3, HeapInvInit, PTL DEF Spec, Urgent, Order!Spec
=============================================================================
