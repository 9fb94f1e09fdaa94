----------------------- MODULE ModuleLifecycleProofs -----------------------
(***************************************************************************)
(* The networks of the module: what holds whatever the number of callers,  *)
(* and what holds when calls do not overlap.                               *)
(***************************************************************************)
EXTENDS ModuleLifecycle, FiniteSetTheorems, Loops

-----------------------------------------------------------------------------
\* The loop of deleteNetwork.
LEMMA TurnType ==
    ASSUME NEW n, NEW r \in Slices, Turns(r)
    PROVE  /\ Turn(n, r) \in Slices /\ Len(Turn(n, r).slice) = Len(r.slice)
           /\ r.k \in 1 .. Len(r.slice)
<1>1. /\ r \in [slice : Seq(Id), len : Nat, k : Nat \ {0}, safe : BOOLEAN]
      /\ r.len <= Len(r.slice) /\ r.k <= Len(r.slice) /\ r.k \in Nat \ {0}
      /\ r.slice \in Seq(Id) /\ r.len \in Nat
  BY DEF Slices, Turns
<1>2. CASE managers[r.slice[r.k]].net # n
  BY <1>1, <1>2 DEF Turn, Slices
<1>3. CASE managers[r.slice[r.k]].net = n /\ r.k > r.len
  <2>1. Turn(n, r) = [r EXCEPT !.safe = FALSE]
    BY <1>3 DEF Turn
  <2>2. /\ Turn(n, r) \in [slice : Seq(Id), len : Nat, k : Nat \ {0}, safe : BOOLEAN]
        /\ Turn(n, r).slice = r.slice /\ Turn(n, r).len = r.len
    BY <1>1, <2>1
  <2> QED BY <1>1, <2>2 DEF Slices
<1>4. CASE managers[r.slice[r.k]].net = n /\ ~(r.k > r.len)
  <2> DEFINE s == [r.slice EXCEPT ![r.k] = r.slice[r.len]]
  <2>1. r.len \in 1 .. Len(r.slice) /\ r.len - 1 \in Nat /\ r.k + 1 \in Nat \ {0}
    BY <1>1, <1>4
  <2>2. s \in Seq(Id) /\ Len(s) = Len(r.slice)
    BY <1>1, <2>1
  <2>3. Turn(n, r) = [r EXCEPT !.slice = s, !.len = r.len - 1, !.k = r.k + 1]
    BY <1>1, <1>4 DEF Turn
  <2> HIDE DEF s
  <2>4. /\ Turn(n, r) \in [slice : Seq(Id), len : Nat, k : Nat \ {0}, safe : BOOLEAN]
        /\ Turn(n, r).slice = s /\ Turn(n, r).len = r.len - 1
    BY <1>1, <2>1, <2>2, <2>3
  <2> QED BY <1>1, <2>1, <2>2, <2>4 DEF Slices
<1> QED BY <1>1, <1>2, <1>3, <1>4

Whole == [slice |-> list, len |-> Len(list), k |-> 1, safe |-> TRUE]

LEMMA RemovedLoop ==
    ASSUME NEW n, NEW Inv \in SUBSET Slices,
           \A r \in Inv : Turns(r) => Turn(n, r) \in Inv,
           Whole \in Inv
    PROVE  Removed(n) \in Inv /\ ~Turns(Removed(n))
<1> DEFINE go == {r \in Slices : Turns(r)}
           next == [r \in Slices |-> Turn(n, r)]
           out == [r \in Slices |-> r]
           left(r) == IF r.k <= Len(r.slice) THEN Len(r.slice) - r.k + 1 ELSE 0
           measure == [r \in Slices |-> left(r) + (IF r.safe THEN 1 ELSE 0)]
           loop == CHOOSE g : g = [r \in Slices |-> IF Turns(r) THEN g[Turn(n, r)] ELSE r]
<1>1. \A r \in Slices \cap go : next[r] \in Slices
  BY TurnType
<1>2. \E g : Loops(g, Slices, go, next, out)
  <2> HIDE DEF go, next, out
  <2> QED BY <1>1, LoopDefined
<1>3. \A g : Loops(g, Slices, go, next, out)
             <=> g = [r \in Slices |-> IF Turns(r) THEN g[Turn(n, r)] ELSE r]
  BY DEF Loops
<1>4. Loops(loop, Slices, go, next, out)
  <2> HIDE DEF go, next, out
  <2> QED BY <1>2, <1>3
<1>5. Removed(n) = loop[Whole]
  BY DEF Removed, Whole
<1>6. measure \in [Slices -> Nat]
  <2> SUFFICES ASSUME NEW r \in Slices PROVE left(r) \in Nat
    OBVIOUS
  <2>1. Len(r.slice) \in Nat /\ r.k \in Nat
    BY DEF Slices
  <2> QED BY <2>1
<1>7. ASSUME NEW r \in Inv \cap go
      PROVE  next[r] \in Inv /\ measure[next[r]] < measure[r]
  <2> DEFINE t == Turn(n, r)
  <2>1. /\ r \in Slices /\ Turns(r) /\ t \in Inv /\ t \in Slices /\ next[r] = t
        /\ Len(t.slice) = Len(r.slice) /\ r.k \in 1 .. Len(r.slice)
        /\ Len(r.slice) \in Nat /\ r.safe = TRUE
    BY TurnType DEF Turns, Slices
  <2>2. \/ t.k = r.k + 1 /\ t.safe = TRUE
        \/ t.k = r.k /\ t.safe = FALSE
    BY <2>1 DEF Turn, Slices
  <2>3. measure[r] = left(r) + 1 /\ measure[t] = left(t) + (IF t.safe THEN 1 ELSE 0)
    BY <2>1
  <2> QED BY <2>1, <2>2, <2>3
<1>8. \E r \in Inv \ go : loop[Whole] = out[r]
  <2> HIDE DEF go, next, out, measure, loop
  <2> QED BY <1>4, <1>6, <1>7, LoopInvariant
<1> QED BY <1>5, <1>8

\* The fields of a slice after a turn of the loop.
Steps(n, r, t) ==
    \/ /\ managers[r.slice[r.k]].net # n
       /\ t.slice = r.slice /\ t.len = r.len /\ t.k = r.k + 1 /\ t.safe = r.safe
    \/ /\ managers[r.slice[r.k]].net = n /\ r.k > r.len
       /\ t.slice = r.slice /\ t.len = r.len /\ t.k = r.k /\ t.safe = FALSE
    \/ /\ managers[r.slice[r.k]].net = n /\ r.k <= r.len
       /\ t.slice = [r.slice EXCEPT ![r.k] = r.slice[r.len]]
       /\ t.len = r.len - 1 /\ t.k = r.k + 1 /\ t.safe = r.safe

LEMMA TurnFields ==
    ASSUME NEW n, NEW r \in Slices
    PROVE  Steps(n, r, Turn(n, r))
<1> DEFINE t == Turn(n, r)
<1>1. r \in [slice : Seq(Id), len : Nat, k : Nat \ {0}, safe : BOOLEAN]
  BY DEF Slices
<1>2. CASE managers[r.slice[r.k]].net # n
  <2>1. t = [r EXCEPT !.k = r.k + 1]
    BY <1>2 DEF Turn
  <2> QED BY <1>1, <1>2, <2>1 DEF Steps
<1>3. CASE managers[r.slice[r.k]].net = n /\ r.k > r.len
  <2>1. t = [r EXCEPT !.safe = FALSE]
    BY <1>3 DEF Turn
  <2> QED BY <1>1, <1>3, <2>1 DEF Steps
<1>4. CASE managers[r.slice[r.k]].net = n /\ ~(r.k > r.len)
  <2>1. t = [r EXCEPT !.slice = [r.slice EXCEPT ![r.k] = r.slice[r.len]],
                      !.len = r.len - 1, !.k = r.k + 1]
    BY <1>4 DEF Turn
  <2>2. r.k <= r.len
    BY <1>1, <1>4
  <2> QED BY <1>1, <1>4, <2>1, <2>2 DEF Steps
<1> QED BY <1>2, <1>3, <1>4

Injects(s, l) == \A i, j \in 1 .. l : s[i] = s[j] => i = j

\* What stays are managers of the list, each once, with all of the other networks.
LEMMA RemovedKeeps ==
    ASSUME NEW n, list \in Seq(Id), IsInjective(list), NEW r, r = Removed(n)
    PROVE  /\ r.slice \in Seq(Id) /\ r.len \in Nat /\ r.len <= Len(r.slice)
           /\ Injects(r.slice, r.len)
           /\ \A j \in 1 .. r.len : r.slice[j] \in Range(list)
           /\ \A i \in Range(list) :
                managers[i].net # n => \E j \in 1 .. r.len : r.slice[j] = i
<1> DEFINE Within(q) == \A j \in 1 .. Len(q.slice) : q.slice[j] \in Range(list)
           Covers(q) == \A i \in Range(list) :
                managers[i].net # n => \E j \in 1 .. q.len : q.slice[j] = i
           Inv == {q \in Slices : /\ Injects(q.slice, q.len) /\ Within(q) /\ Covers(q)}
<1>1. Whole \in Inv
  <2>1. Whole \in Slices
    BY DEF Whole, Slices
  <2>2. Whole.slice = list /\ Whole.len = Len(list)
    BY DEF Whole
  <2>3. DOMAIN list = 1 .. Len(list)
    OBVIOUS
  <2> QED BY <2>1, <2>2, <2>3 DEF IsInjective, Injects, Range
<1>2. ASSUME NEW q \in Inv, Turns(q)
      PROVE  Turn(n, q) \in Inv
  <2> DEFINE t == Turn(n, q)
  <2>1. /\ q \in Slices /\ t \in Slices /\ Len(t.slice) = Len(q.slice)
        /\ q.k \in 1 .. Len(q.slice) /\ q.slice \in Seq(Id) /\ q.len \in Nat
        /\ q.len <= Len(q.slice)
    BY <1>2, TurnType DEF Slices
  <2>2. Injects(q.slice, q.len) /\ Within(q) /\ Covers(q)
    OBVIOUS
  <2> HIDE DEF t
  <2>3. CASE t.slice = q.slice /\ t.len = q.len
    BY <2>1, <2>2, <2>3 DEF t
  <2>4. CASE /\ managers[q.slice[q.k]].net = n /\ q.k <= q.len
             /\ t.slice = [q.slice EXCEPT ![q.k] = q.slice[q.len]]
             /\ t.len = q.len - 1
    <3>1. /\ q.len \in 1 .. Len(q.slice) /\ t.slice[q.k] = q.slice[q.len]
          /\ \A j \in 1 .. Len(q.slice) : j # q.k => t.slice[j] = q.slice[j]
      BY <2>1, <2>4
    <3>2. \A j \in 1 .. t.len : j \in 1 .. q.len /\ j # q.len /\ j \in 1 .. Len(q.slice)
      BY <2>1, <2>4, <3>1
    <3>3. Injects(t.slice, t.len)
      <4> SUFFICES ASSUME NEW i \in 1 .. t.len, NEW j \in 1 .. t.len,
                          t.slice[i] = t.slice[j]
                   PROVE  i = j
        BY DEF Injects
      <4>1. /\ i \in 1 .. q.len /\ i # q.len /\ i \in 1 .. Len(q.slice)
            /\ j \in 1 .. q.len /\ j # q.len /\ j \in 1 .. Len(q.slice)
            /\ q.len \in 1 .. q.len
        BY <2>1, <3>1, <3>2
      <4>2. \A k, l \in 1 .. q.len : q.slice[k] = q.slice[l] => k = l
        BY <2>2 DEF Injects
      <4> QED BY <3>1, <4>1, <4>2
    <3>4. Within(t)
      BY <2>1, <2>2, <3>1
    <3>5. Covers(t)
      <4> SUFFICES ASSUME NEW i \in Range(list), managers[i].net # n
                   PROVE  \E j \in 1 .. t.len : t.slice[j] = i
        OBVIOUS
      <4>1. PICK j \in 1 .. q.len : q.slice[j] = i
        BY <2>2
      <4>2. j # q.k /\ j \in 1 .. Len(q.slice)
        BY <2>1, <2>4, <4>1
      <4>3. CASE j = q.len
        <5>1. q.k \in 1 .. t.len
          BY <2>1, <2>4, <4>2, <4>3
        <5> QED BY <3>1, <4>1, <4>3, <5>1
      <4>4. CASE j # q.len
        <5>1. j \in 1 .. t.len
          BY <2>1, <2>4, <4>1, <4>4
        <5> QED BY <3>1, <4>1, <4>2, <5>1
      <4> QED BY <4>3, <4>4
    <3> QED BY <2>1, <3>3, <3>4, <3>5 DEF t
  <2>5. \/ t.slice = q.slice /\ t.len = q.len
        \/ /\ managers[q.slice[q.k]].net = n /\ q.k <= q.len
           /\ t.slice = [q.slice EXCEPT ![q.k] = q.slice[q.len]]
           /\ t.len = q.len - 1
    <3>1. Steps(n, q, t)
      BY <2>1, TurnFields DEF t
    <3> QED BY <3>1 DEF Steps
  <2> QED BY <2>3, <2>4, <2>5 DEF t
<1>3. Inv \in SUBSET Slices
  OBVIOUS
<1>4. r \in Inv
  <2> HIDE DEF Inv
  <2> QED BY <1>1, <1>2, <1>3, RemovedLoop
<1>5. r \in Slices
  BY <1>4
<1>6. r.slice \in Seq(Id) /\ r.len \in Nat /\ r.len <= Len(r.slice)
  BY <1>5 DEF Slices
<1>7. \A j \in 1 .. r.len : j \in 1 .. Len(r.slice)
  BY <1>6
<1> QED BY <1>4, <1>6, <1>7

\* With no more than one manager of the network, none stays and the loop is safe.
LEMMA RemovedClears ==
    ASSUME NEW n, list \in Seq(Id),
           \A j, k \in Managing(n) : j = k, NEW r, r = Removed(n)
    PROVE  /\ r.safe
           /\ \A j \in 1 .. r.len : managers[r.slice[j]].net # n
<1> DEFINE Same(q, j) == managers[q.slice[j]].net = n
           Seeks(q) == /\ q.slice = list /\ q.len = Len(list)
                       /\ \A j \in 1 .. Len(q.slice) : j < q.k => ~Same(q, j)
           Done(q) == \A j \in 1 .. Len(q.slice) : j >= q.k \/ j <= q.len => ~Same(q, j)
           Inv == {q \in Slices : q.safe = TRUE /\ (Seeks(q) \/ Done(q))}
<1>1. Whole \in Inv
  <2>1. Whole \in Slices
    BY DEF Whole, Slices
  <2>2. /\ Whole.slice = list /\ Whole.len = Len(list) /\ Whole.safe = TRUE
        /\ Whole.k = 1
    BY DEF Whole
  <2> QED BY <2>1, <2>2
<1>2. ASSUME NEW q \in Inv, Turns(q)
      PROVE  Turn(n, q) \in Inv
  <2> DEFINE t == Turn(n, q)
  <2>1. /\ q \in Slices /\ t \in Slices /\ Len(t.slice) = Len(q.slice)
        /\ q.k \in 1 .. Len(q.slice) /\ q.slice \in Seq(Id) /\ q.len \in Nat
        /\ q.len <= Len(q.slice) /\ q.safe = TRUE /\ Len(q.slice) \in Nat
    BY <1>2, TurnType DEF Slices
  <2>0. Steps(n, q, t)
    BY <2>1, TurnFields
  <2> HIDE DEF t
  <2>2. CASE ~Same(q, q.k)
    <3>1. /\ t.slice = q.slice /\ t.len = q.len /\ t.k = q.k + 1 /\ t.safe = TRUE
      BY <2>0, <2>1, <2>2 DEF Steps
    <3>2. \A j \in 1 .. Len(q.slice) : j < t.k => j < q.k \/ j = q.k
      BY <2>1, <3>1
    <3>3. \A j \in 1 .. Len(q.slice) : j >= t.k => j >= q.k
      BY <2>1, <3>1
    <3>4. Seeks(q) => Seeks(t)
      BY <2>1, <2>2, <3>1, <3>2
    <3>5. Done(q) => Done(t)
      BY <2>1, <3>1, <3>3
    <3> QED BY <2>1, <3>1, <3>4, <3>5 DEF t
  <2>3. CASE Same(q, q.k)
    <3>1. Seeks(q)
      BY <2>1, <2>3
    <3>2. /\ t.slice = [q.slice EXCEPT ![q.k] = q.slice[q.len]]
          /\ t.len = q.len - 1 /\ t.k = q.k + 1 /\ t.safe = TRUE
      <4>1. q.k <= q.len
        BY <2>1, <3>1
      <4> QED BY <2>0, <2>1, <2>3, <4>1 DEF Steps
    <3>3. /\ q.slice = list /\ q.len = Len(q.slice) /\ q.len \in 1 .. Len(q.slice)
          /\ t.slice[q.k] = q.slice[q.len]
          /\ \A j \in 1 .. Len(q.slice) : j # q.k => t.slice[j] = q.slice[j]
      BY <2>1, <3>1, <3>2
    <3>4. \A j \in 1 .. Len(q.slice) : j # q.k => ~Same(q, j)
      <4>1. DOMAIN list = 1 .. Len(q.slice)
        BY <3>3
      <4> QED BY <2>1, <2>3, <3>3, <4>1 DEF Managing
    <3>5. Done(t)
      <4> SUFFICES ASSUME NEW j \in 1 .. Len(q.slice), j >= t.k \/ j <= t.len
                   PROVE  ~Same(t, j)
        BY <2>1
      <4>1. CASE j # q.k
        BY <3>3, <3>4, <4>1
      <4>2. CASE j = q.k
        <5>1. q.len # q.k
          BY <2>1, <3>2, <4>2
        <5> QED BY <3>3, <3>4, <4>2, <5>1
      <4> QED BY <4>1, <4>2
    <3> QED BY <2>1, <3>2, <3>5 DEF t
  <2> QED BY <2>2, <2>3
<1>3. Inv \in SUBSET Slices
  OBVIOUS
<1>4. r \in Inv /\ ~Turns(r)
  <2> HIDE DEF Inv
  <2> QED BY <1>1, <1>2, <1>3, RemovedLoop
<1>5. /\ r.safe = TRUE /\ r.len \in Nat /\ r.len <= Len(r.slice) /\ Len(r.slice) \in Nat
      /\ r.k \in Nat /\ r.k > Len(r.slice)
  BY <1>4 DEF Slices, Turns
<1>6. \A j \in 1 .. r.len : j \in 1 .. Len(r.slice) /\ j < r.k /\ j <= r.len
  BY <1>5
<1> QED BY <1>4, <1>5, <1>6

-----------------------------------------------------------------------------
\* The inductive invariant, for any number of callers: TypeOK and what the callers have
\* still to do; the manager that a caller starts is not forgotten.
Starting == {"rates", "rebuild", "start"}
Call == [op : {"none", "enable", "init", "update", "save", "delete"} \cup Starting,
         nets : Seq(Net), on : BOOLEAN, man : Id \cup {NoManager}]

Known == /\ managers \in [DOMAIN managers -> Manager] /\ DOMAIN managers \subseteq Id
         /\ \A i \in DOMAIN managers : managers[i].check => managers[i].on
         /\ list \in Seq(DOMAIN managers) /\ IsInjective(list)

Sound(call, mans) ==
    /\ call \in Call
    /\ call.op \notin {"none", "enable"} => call.nets # << >>
    /\ call.op \in Starting => call.man \in mans

Asked == /\ calls = [c \in Caller |-> calls[c]]
         /\ \A c \in Caller : Sound(calls[c], DOMAIN managers)

LInv == Known /\ Asked /\ (clients # {} => made)

LEMMA InvIsTyped == LInv => TypeOK
BY DEF LInv, Known, TypeOK

LEMMA ListedIsKnown ==
    ASSUME Known
    PROVE  /\ list \in Seq(Id) /\ Range(list) \subseteq DOMAIN managers
           /\ DOMAIN list = 1 .. Len(list)
           /\ \A k \in DOMAIN list : list[k] \in Range(list)
BY DEF Known, Range

LEMMA TodoIsSound ==
    ASSUME NEW op \in {"enable", "init", "update", "delete"},
           NEW nets \in Seq(Net), NEW on \in BOOLEAN, NEW mans,
           op # "enable" => nets # << >>
    PROVE  Sound(Todo(op, nets, on, NoManager), mans)
<1> DEFINE todo == Todo(op, nets, on, NoManager)
<1>1. todo.op = op /\ todo.nets = nets /\ todo \in Call
  BY DEF Todo, Call
<1>2. op \notin Starting /\ op # "none"
  BY DEF Starting
<1> HIDE DEF todo
<1>3. Sound(todo, mans)
  BY <1>1, <1>2 DEF Sound
<1> QED BY <1>3 DEF todo

LEMMA NothingIsSound == ASSUME NEW mans PROVE Sound(Nothing, mans)
<1>1. << >> \in Seq(Net)
  OBVIOUS
<1>2. Nothing \in Call /\ Nothing.op = "none"
  BY <1>1 DEF Nothing, Todo, Call
<1> QED BY <1>2 DEF Sound, Starting

LEMMA InitiatingIsSound ==
    ASSUME NEW nets \in Seq(Net), NEW mans
    PROVE  Sound(Initiating(nets), mans)
BY NothingIsSound, TodoIsSound DEF Initiating

\* A caller goes on to something it may have to do, and no manager is forgotten.
LEMMA GoesAsked ==
    ASSUME Asked, NEW c \in Caller, NEW todo, Sound(todo, DOMAIN managers'), Goes(c, todo),
           DOMAIN managers' = DOMAIN managers
    PROVE  Asked'
BY DEF Asked, Goes

LEMMA OneNet == ASSUME NEW n \in Net PROVE <<n>> \in Seq(Net) /\ <<n>> # << >>
OBVIOUS

\* The sequence of the networks names each of them once.
LEMMA NetsInSequence ==
    ASSUME NEW S \in SUBSET Net
    PROVE  /\ SetToSeq(S) \in Seq(S) /\ IsInjective(SetToSeq(S))
           /\ SetToSeq(S) \in Seq(Net)
<1> DEFINE n == Cardinality(S)
           f == SetToSeq(S)
<1>1. IsFiniteSet(S)
  BY LifecycleAssumption, FS_Subset
<1>2. n \in Nat /\ ExistsBijection(1 .. n, S)
  BY <1>1, FS_CardinalityType, FS_CountingElements
<1>3. \E g \in [1 .. n -> S] : IsInjective(g)
  BY <1>2 DEF ExistsBijection, Bijection, Injection, IsInjective
<1>4. f \in [1 .. n -> S] /\ IsInjective(f)
  BY <1>3 DEF SetToSeq
<1> HIDE DEF f, n
<1>5. f \in Seq(S)
  BY <1>2, <1>4
<1> QED BY <1>4, <1>5 DEF f

\* Managers that are stopped or retired keep their networks.
SameNets(m) == /\ m \in [DOMAIN managers -> Manager]
               /\ \A i \in DOMAIN managers : /\ m[i].net = managers[i].net
                                             /\ m[i].check => m[i].on

LEMMA StoppedManagers ==
    ASSUME Known, NEW ids, NEW m \in Stopped(ids)
    PROVE  /\ SameNets(m)
           /\ \A i \in DOMAIN managers :
                /\ i \in ids => ~m[i].on /\ (m[i].held => managers[i].check)
                /\ i \notin ids => m[i] = managers[i]
<1> DEFINE no == FALSE
<1>0. no \in BOOLEAN /\ ~no
  OBVIOUS
<1>1. PICK again \in SUBSET {i \in ids \cap DOMAIN managers : managers[i].check} :
        m = [i \in DOMAIN managers |->
               IF i \in ids THEN [managers[i] EXCEPT !.on = no, !.check = no, !.held = i \in again]
               ELSE managers[i]]
  BY DEF Stopped
<1> HIDE DEF no
<1>2. ASSUME NEW i \in DOMAIN managers
      PROVE  /\ m[i] \in Manager /\ m[i].net = managers[i].net /\ (m[i].check => m[i].on)
             /\ i \in ids => ~m[i].on /\ (m[i].held => managers[i].check)
             /\ i \notin ids => m[i] = managers[i]
  <2>1. managers[i] \in Manager /\ (managers[i].check => managers[i].on)
    BY DEF Known
  <2>2. CASE i \notin ids
    BY <1>1, <2>1, <2>2
  <2>3. CASE i \in ids
    <3> DEFINE b == i \in again
    <3>1. m[i] = [managers[i] EXCEPT !.on = no, !.check = no, !.held = b]
      BY <1>1, <2>3, Zenon
    <3>4. b \in BOOLEAN
      OBVIOUS
    <3>2. b => managers[i].check
      BY <1>1
    <3> HIDE DEF b
    <3>3. m[i] \in Manager /\ m[i].net = managers[i].net /\ m[i].on = no
          /\ m[i].check = no /\ m[i].held = b
      BY <1>0, <2>1, <3>1, <3>4 DEF Manager
    <3> QED BY <1>0, <2>3, <3>2, <3>3
  <2> QED BY <2>2, <2>3
<1>3. DOMAIN m = DOMAIN managers /\ m = [i \in DOMAIN managers |-> m[i]]
  BY <1>1
<1> QED BY <1>2, <1>3 DEF SameNets

LEMMA UncontextedManagers ==
    ASSUME NEW m, SameNets(m), NEW ctx \in {"lost", "done"}
    PROVE  /\ SameNets(Uncontexted(m, ctx))
           /\ \A i \in DOMAIN managers : /\ Uncontexted(m, ctx)[i].on = m[i].on
                                         /\ Uncontexted(m, ctx)[i].held = m[i].held
<1> DEFINE u == Uncontexted(m, ctx)
<1>1. ASSUME NEW i \in DOMAIN managers
      PROVE  /\ u[i] \in Manager /\ u[i].net = m[i].net /\ u[i].check = m[i].check
             /\ u[i].on = m[i].on /\ u[i].held = m[i].held
  <2> DEFINE x == IF m[i].ctx = "current" THEN ctx ELSE m[i].ctx
  <2>1. m[i] \in Manager /\ i \in DOMAIN m
    BY DEF SameNets
  <2>2. x \in {"current", "lost", "done"}
    BY <2>1 DEF Manager
  <2>3. u[i] = [m[i] EXCEPT !.ctx = x]
    BY <2>1 DEF Uncontexted
  <2> HIDE DEF x, u
  <2> QED BY <2>1, <2>2, <2>3 DEF Manager
<1>2. DOMAIN u = DOMAIN managers /\ u = [i \in DOMAIN managers |-> u[i]]
  BY DEF Uncontexted, SameNets
<1> HIDE DEF u
<1> QED BY <1>1, <1>2 DEF SameNets, u

LEMMA SameNetsKnown ==
    ASSUME Known, SameNets(managers'), list' \in Seq(DOMAIN managers), IsInjective(list')
    PROVE  Known' /\ DOMAIN managers' = DOMAIN managers
BY DEF Known, SameNets

LEMMA UnchangedSame == ASSUME Known PROVE SameNets(managers)
BY DEF Known, SameNets

\* One manager changes.
LEMMA OneChanges ==
    ASSUME Known, NEW i \in DOMAIN managers, NEW new \in Manager,
           managers' = [managers EXCEPT ![i] = new],
           new.net = managers[i].net, new.check => new.on
    PROVE  /\ SameNets(managers') /\ managers'[i] = new
           /\ \A j \in DOMAIN managers : j # i => managers'[j] = managers[j]
<1>1. managers \in [DOMAIN managers -> Manager]
  BY DEF Known
<1>2. /\ managers'[i] = new /\ \A j \in DOMAIN managers : j # i => managers'[j] = managers[j]
      /\ managers' \in [DOMAIN managers -> Manager]
  BY <1>1
<1> QED BY <1>2 DEF Known, SameNets

-----------------------------------------------------------------------------
LEMMA InitInv == Init => LInv
<1> SUFFICES ASSUME Init PROVE LInv
  OBVIOUS
<1>1. /\ DOMAIN managers = {} /\ list \in Seq({}) /\ DOMAIN list = {}
      /\ managers \in [{} -> Manager]
  BY DEF Init
<1>2. Known
  BY <1>1 DEF Known, IsInjective
<1>3. Asked
  BY NothingIsSound DEF Init, Asked
<1> QED BY <1>2, <1>3 DEF Init, LInv

LEMMA EnableInv ==
    ASSUME LInv, NEW c \in Caller, Enable(c)
    PROVE  LInv'
<1>1. SetToSeq(Existing) \in Seq(Net)
  BY NetsInSequence DEF Existing
<1>2. Sound(Todo("enable", SetToSeq(Existing), TRUE, NoManager), DOMAIN managers)
  BY <1>1, TodoIsSound
<1>3. Asked'
  BY <1>2, GoesAsked DEF LInv, Enable
<1> QED BY <1>3 DEF LInv, Enable, Known

\* Enable and Disable stop the managers of the list and forget them.
LEMMA RetiredManagers ==
    ASSUME LInv, NEW ctx \in {"lost", "done"}, NEW mans \in Stopped(Range(list)),
           managers' = Uncontexted(mans, ctx), list' = << >>
    PROVE  /\ Known' /\ SameNets(managers') /\ DOMAIN managers' = DOMAIN managers
           /\ \A i \in DOMAIN managers :
                /\ managers'[i].on => managers[i].on /\ i \notin Range(list)
                /\ managers'[i].held => IF i \in Range(list) THEN managers[i].check
                                        ELSE managers[i].held
<1>1. /\ SameNets(mans)
      /\ \A i \in DOMAIN managers :
           /\ i \in Range(list) => ~mans[i].on /\ (mans[i].held => managers[i].check)
           /\ i \notin Range(list) => mans[i] = managers[i]
  BY StoppedManagers DEF LInv
<1>2. /\ SameNets(managers')
      /\ \A i \in DOMAIN managers : managers'[i].on = mans[i].on /\ managers'[i].held = mans[i].held
  BY <1>1, UncontextedManagers
<1>3. IsInjective(list') /\ list' \in Seq(DOMAIN managers)
  BY DEF IsInjective
<1>4. Known' /\ DOMAIN managers' = DOMAIN managers
  BY <1>2, <1>3, SameNetsKnown DEF LInv
<1> QED BY <1>1, <1>2, <1>4

LEMMA EnableModuleInv ==
    ASSUME LInv, NEW c \in Caller, EnableModule(c)
    PROVE  LInv'
<1>1. Known' /\ DOMAIN managers' = DOMAIN managers
  BY RetiredManagers DEF EnableModule, EnableWith
<1>2. calls[c].nets \in Seq(Net) /\ Goes(c, Initiating(calls[c].nets))
  BY DEF LInv, Asked, Sound, Call, EnableModule, EnableWith
<1>3. Asked'
  BY <1>1, <1>2, InitiatingIsSound, GoesAsked DEF LInv
<1> QED BY <1>1, <1>3 DEF LInv, EnableModule, EnableWith

LEMMA DisableInv ==
    ASSUME LInv, NEW c \in Caller, Disable(c)
    PROVE  LInv'
<1>1. Known' /\ DOMAIN managers' = DOMAIN managers
  BY RetiredManagers DEF Disable, DisableStopping
<1>2. Asked'
  BY <1>1 DEF LInv, Asked, Disable, DisableStopping
<1> QED BY <1>1, <1>2 DEF LInv, Disable, DisableStopping

\* The manager that initiatePolling makes, besides those that are kept.
LEMMA NewManager ==
    ASSUME LInv, NEW c \in Caller, InitiatePolling(c)
    PROVE  \E i \in Free :
             /\ i \in Id /\ i \notin DOMAIN managers \ Garbage
             /\ managers' \in [(DOMAIN managers \ Garbage) \cup {i} -> Manager]
             /\ managers'[i].net = Head(calls[c].nets)
             /\ ~managers'[i].on /\ ~managers'[i].held /\ ~managers'[i].check
             /\ \A j \in DOMAIN managers \ Garbage : managers'[j] = managers[j]
             /\ list' = Append(list, i)
             /\ Goes(c, [calls[c] EXCEPT !.op = "rates", !.man = i])
<1> DEFINE kept == DOMAIN managers \ Garbage
           no == FALSE
<1>0. no \in BOOLEAN /\ ~no
  OBVIOUS
<1>1. PICK i \in Free :
        /\ managers' = [j \in kept \cup {i} |->
              IF j = i THEN [net |-> Head(calls[c].nets), on |-> no, held |-> no,
                             check |-> no, loop |-> "none",
                             ctx |-> IF context = "live" THEN "current" ELSE "done"]
              ELSE managers[j]]
        /\ list' = Append(list, i)
        /\ Goes(c, [calls[c] EXCEPT !.op = "rates", !.man = i])
  BY DEF InitiatePolling
<1> HIDE DEF no
<1>2. Head(calls[c].nets) \in Net
  BY DEF LInv, Asked, Sound, Call, InitiatePolling, At
<1>3. i \in Id /\ i \notin kept
  BY DEF Free
<1>4. \A j \in kept : managers[j] \in Manager /\ managers'[j] = managers[j]
  BY <1>1, <1>3 DEF LInv, Known
<1>5. /\ managers'[i] \in Manager /\ managers'[i].net = Head(calls[c].nets)
      /\ ~managers'[i].on /\ ~managers'[i].held /\ ~managers'[i].check
  BY <1>0, <1>1, <1>2 DEF Manager
<1>6. managers' \in [kept \cup {i} -> Manager]
  <2>1. managers' = [j \in kept \cup {i} |-> managers'[j]]
    BY <1>1
  <2> HIDE DEF kept
  <2> QED BY <1>4, <1>5, <2>1
<1> QED BY <1>1, <1>3, <1>4, <1>5, <1>6

\* The list with the new manager at its end.
LEMMA NewIsListed ==
    ASSUME LInv, NEW i, i \notin DOMAIN managers \ Garbage, list' = Append(list, i)
    PROVE  /\ Range(list) \subseteq DOMAIN managers \ Garbage
           /\ list' \in Seq((DOMAIN managers \ Garbage) \cup {i}) /\ IsInjective(list')
           /\ Range(list') = Range(list) \cup {i}
           /\ DOMAIN list = 1 .. Len(list) /\ Len(list) \in Nat
           /\ DOMAIN list' = 1 .. (Len(list) + 1) /\ list'[Len(list) + 1] = i
           /\ \A k \in DOMAIN list : list'[k] = list[k]
<1> DEFINE kept == DOMAIN managers \ Garbage
<1>7. Range(list) \subseteq kept
  BY ListedIsKnown DEF LInv, Garbage
<1>8. list \in Seq(kept)
  BY <1>7, ListedIsKnown DEF LInv
<1>9. i \notin kept
  OBVIOUS
<1> HIDE DEF kept
<1>10. list \in Seq(kept \cup {i})
  BY <1>8
<1>2. /\ list' \in Seq(kept \cup {i}) /\ Len(list') = Len(list) + 1 /\ Len(list) \in Nat
      /\ DOMAIN list' = 1 .. (Len(list) + 1) /\ DOMAIN list = 1 .. Len(list)
      /\ list'[Len(list) + 1] = i /\ \A k \in 1 .. Len(list) : list'[k] = list[k]
  BY <1>10
<1>3. \A k \in 1 .. Len(list) : list[k] \in kept
  BY <1>8
<1>4. \A k \in DOMAIN list' : k \in 1 .. Len(list) \/ k = Len(list) + 1
  BY <1>2
<1>5. IsInjective(list')
  BY <1>2, <1>3, <1>4, <1>9 DEF IsInjective, LInv, Known
<1>6. Range(list') = Range(list) \cup {i}
  <2>1. \A k \in DOMAIN list : k \in DOMAIN list' /\ list'[k] = list[k]
    BY <1>2
  <2>2. Len(list) + 1 \in DOMAIN list'
    BY <1>2
  <2> QED BY <1>2, <1>4, <2>1, <2>2 DEF Range
<1> QED BY <1>2, <1>5, <1>6, <1>7 DEF kept

LEMMA InitiatePollingInv ==
    ASSUME LInv, NEW c \in Caller, InitiatePolling(c)
    PROVE  LInv'
<1> DEFINE kept == DOMAIN managers \ Garbage
<1>1. PICK i \in Free :
             /\ i \in Id /\ i \notin kept
             /\ managers' \in [kept \cup {i} -> Manager]
             /\ managers'[i].net = Head(calls[c].nets)
             /\ ~managers'[i].on /\ ~managers'[i].held /\ ~managers'[i].check
             /\ \A j \in kept : managers'[j] = managers[j]
             /\ list' = Append(list, i)
             /\ Goes(c, [calls[c] EXCEPT !.op = "rates", !.man = i])
  BY NewManager
<1>2. list' \in Seq(kept \cup {i}) /\ IsInjective(list')
  BY <1>1, NewIsListed
<1>3. kept \subseteq Id /\ DOMAIN managers' = kept \cup {i}
      /\ \A j \in kept : managers[j].check => managers[j].on
  BY <1>1 DEF LInv, Known
<1>4. Known'
  BY <1>1, <1>2, <1>3 DEF Known
<1>5. \A d \in Caller : d # c => Sound(calls[d], kept)
  <2> SUFFICES ASSUME NEW d \in Caller, d # c, calls[d].op \in Starting
               PROVE  calls[d].man \in kept
    BY DEF LInv, Asked, Sound
  <2> QED BY DEF LInv, Asked, Sound, Garbage
<1>6. Sound([calls[c] EXCEPT !.op = "rates", !.man = i], DOMAIN managers')
  <2> DEFINE todo == [calls[c] EXCEPT !.op = "rates", !.man = i]
  <2>1. calls[c] \in Call /\ calls[c].nets # << >>
    BY DEF LInv, Asked, Sound, InitiatePolling, At
  <2>2. todo \in Call /\ todo.op = "rates" /\ todo.man = i /\ todo.nets = calls[c].nets
    BY <1>1, <2>1 DEF Call, Starting
  <2> HIDE DEF todo
  <2>3. Sound(todo, DOMAIN managers')
    BY <1>3, <2>1, <2>2 DEF Sound, Starting
  <2> QED BY <2>3 DEF todo
<1>7. Asked'
  <2>1. \A d \in Caller : d # c => Sound(calls[d], DOMAIN managers')
    BY <1>3, <1>5 DEF Sound
  <2> QED BY <1>1, <1>6, <2>1 DEF Asked, LInv, Goes
<1> QED BY <1>4, <1>7 DEF LInv, InitiatePolling

\* What a caller has at hand while it starts a manager.
LEMMA StartingManager ==
    ASSUME LInv, NEW c \in Caller, calls[c].op \in Starting
    PROVE  /\ calls[c].man \in DOMAIN managers /\ managers[calls[c].man] \in Manager
           /\ calls[c] \in Call /\ calls[c].nets # << >>
<1>1. Sound(calls[c], DOMAIN managers) /\ managers \in [DOMAIN managers -> Manager]
  BY DEF LInv, Asked, Known
<1>2. /\ calls[c].man \in DOMAIN managers /\ calls[c] \in Call
      /\ calls[c].op \notin {"none", "enable"} => calls[c].nets # << >>
  BY <1>1 DEF Sound
<1>3. calls[c].op \notin {"none", "enable"}
  BY DEF Starting
<1> QED BY <1>1, <1>2, <1>3

LEMMA NextStage ==
    ASSUME LInv, NEW c \in Caller, calls[c] \in Call, calls[c].nets # << >>,
           NEW op \in {"rebuild", "start"}, calls[c].man \in DOMAIN managers
    PROVE  Sound([calls[c] EXCEPT !.op = op], DOMAIN managers)
<1> DEFINE todo == [calls[c] EXCEPT !.op = op]
<1>1. todo \in Call /\ todo.op = op /\ todo.nets = calls[c].nets /\ todo.man = calls[c].man
  BY DEF Call, Starting
<1> HIDE DEF todo
<1>2. Sound(todo, DOMAIN managers)
  BY <1>1 DEF Sound, Starting
<1> QED BY <1>2 DEF todo

\* Once the updated network is to be saved.
LEMMA SaveStage ==
    ASSUME NEW call \in Call, call.nets # << >>, NEW man \in Id \cup {NoManager}, NEW mans
    PROVE  Sound([call EXCEPT !.op = "save", !.man = man], mans)
<1> DEFINE todo == [call EXCEPT !.op = "save", !.man = man]
<1>1. todo \in Call /\ todo.op = "save" /\ todo.nets = call.nets
  BY DEF Call
<1> HIDE DEF todo
<1>2. Sound(todo, mans)
  BY <1>1 DEF Sound, Starting
<1> QED BY <1>2 DEF todo

LEMMA SetRatesInv ==
    ASSUME LInv, NEW c \in Caller, SetRates(c)
    PROVE  /\ LInv' /\ SameNets(managers') /\ list' = list /\ db' = db
           /\ DOMAIN managers' = DOMAIN managers
           /\ \A i \in DOMAIN managers :
                /\ managers'[i].on => managers[i].on
                /\ managers'[i].held => managers[i].held \/ i = calls[c].man
           /\ calls'[c] = calls[c] \/ calls'[c] = [calls[c] EXCEPT !.op = "rebuild"]
<1> DEFINE man == calls[c].man
<1>1. /\ man \in DOMAIN managers /\ calls[c] \in Call /\ calls[c].nets # << >>
  BY StartingManager DEF SetRates, At, Starting
<1>2. CASE UNCHANGED <<managers, calls>>
  BY <1>2, UnchangedSame DEF SetRates, LInv, Known, Asked
<1>3. CASE managers' \in Stopped({man}) /\ Goes(c, [calls[c] EXCEPT !.op = "rebuild"])
  <2>1. /\ SameNets(managers')
        /\ \A i \in DOMAIN managers :
             /\ i \in {man} => ~managers'[i].on /\ (managers'[i].held => managers[i].check)
             /\ i \notin {man} => managers'[i] = managers[i]
    BY <1>3, StoppedManagers DEF LInv
  <2>2. Known' /\ DOMAIN managers' = DOMAIN managers
    BY <2>1, SameNetsKnown DEF LInv, Known, SetRates
  <2>3. Sound([calls[c] EXCEPT !.op = "rebuild"], DOMAIN managers)
    BY <1>1, NextStage
  <2>4. Asked'
    BY <1>3, <2>2, <2>3, GoesAsked DEF LInv
  <2>5. calls'[c] = [calls[c] EXCEPT !.op = "rebuild"]
    BY <1>3 DEF Goes, LInv, Asked
  <2> QED BY <2>1, <2>2, <2>4, <2>5 DEF LInv, SetRates
<1> QED BY <1>2, <1>3 DEF SetRates

LEMMA RebuildInv ==
    ASSUME LInv, NEW c \in Caller, Rebuild(c)
    PROVE  /\ LInv' /\ SameNets(managers') /\ list' = list /\ db' = db
           /\ DOMAIN managers' = DOMAIN managers
           /\ \A i \in DOMAIN managers :
                /\ managers'[i].on => managers[i].on
                /\ managers'[i].held => managers[i].held \/ i = calls[c].man
           /\ calls'[c] = [calls[c] EXCEPT !.op = "start"]
<1> DEFINE man == calls[c].man
<1>1. /\ man \in DOMAIN managers /\ managers[man] \in Manager
      /\ calls[c] \in Call /\ calls[c].nets # << >>
  BY StartingManager DEF Rebuild, At, Starting
<1>2. PICK filled \in BOOLEAN :
        managers' = [managers EXCEPT ![man].held = managers[man].held \/ filled]
  BY DEF Rebuild
<1> DEFINE b == managers[man].held \/ filled
           new == [managers[man] EXCEPT !.held = b]
<1>3. b \in BOOLEAN
  BY <1>1 DEF Manager
<1>4. managers' = [managers EXCEPT ![man] = new]
  BY <1>1, <1>2
<1> HIDE DEF b
<1>5. new \in Manager /\ new.net = managers[man].net /\ new.on = managers[man].on
      /\ new.check = managers[man].check
  BY <1>1, <1>3 DEF Manager
<1> HIDE DEF new, man
<1>6. new.check => new.on
  BY <1>1, <1>5 DEF LInv, Known
<1>7. /\ SameNets(managers') /\ managers'[man] = new
      /\ \A j \in DOMAIN managers : j # man => managers'[j] = managers[j]
  BY <1>1, <1>4, <1>5, <1>6, OneChanges DEF LInv
<1>8. list' = list /\ db' = db /\ clients' = clients /\ made' = made
      /\ Goes(c, [calls[c] EXCEPT !.op = "start"])
  BY DEF Rebuild
<1>9. Known' /\ DOMAIN managers' = DOMAIN managers
  BY <1>7, <1>8, SameNetsKnown DEF LInv, Known
<1>10. Asked'
  <2>1. Sound([calls[c] EXCEPT !.op = "start"], DOMAIN managers)
    BY <1>1, NextStage DEF man
  <2> QED BY <1>8, <1>9, <2>1, GoesAsked DEF LInv
<1>11. calls'[c] = [calls[c] EXCEPT !.op = "start"]
  BY <1>8 DEF Goes, LInv, Asked
<1> QED BY <1>5, <1>7, <1>8, <1>9, <1>10, <1>11 DEF LInv, man

LEMMA StartPollingInv ==
    ASSUME LInv, NEW c \in Caller, StartPolling(c)
    PROVE  /\ LInv' /\ SameNets(managers') /\ list' = list /\ db' = db
           /\ DOMAIN managers' = DOMAIN managers
           /\ \A i \in DOMAIN managers :
                /\ managers'[i].on => managers[i].on \/ i = calls[c].man
                /\ managers'[i].held => managers[i].held
           /\ \/ calls'[c] = Initiating(Tail(calls[c].nets))
              \/ calls'[c] = [calls[c] EXCEPT !.op = "save", !.man = NoManager]
<1> DEFINE man == calls[c].man
           yes == TRUE
<1>0. yes \in BOOLEAN /\ yes
  OBVIOUS
<1>1. /\ man \in DOMAIN managers /\ managers[man] \in Manager
      /\ calls[c] \in Call /\ calls[c].nets # << >> /\ calls[c].nets \in Seq(Net)
  BY StartingManager DEF StartPolling, At, Starting, Call
<1>2. PICK lost \in BOOLEAN :
        managers' = [managers EXCEPT ![man].on = yes,
                       ![man].held = managers[man].held /\ ~lost,
                       ![man].loop = IF managers[man].loop = "none" THEN "idle"
                                     ELSE managers[man].loop]
  BY DEF StartPolling
<1> DEFINE b == managers[man].held /\ ~lost
           l == IF managers[man].loop = "none" THEN "idle" ELSE managers[man].loop
           new == [managers[man] EXCEPT !.on = yes, !.held = b, !.loop = l]
<1>3. /\ b \in BOOLEAN /\ (b => managers[man].held)
      /\ l \in {"none", "idle", "asked", "drawn", "connect", "ended"}
  BY <1>1 DEF Manager
<1>4. managers' = [managers EXCEPT ![man] = new]
  BY <1>1, <1>2
<1> HIDE DEF b, l, yes
<1>5. new \in Manager /\ new.net = managers[man].net /\ new.on /\ new.held = b
  BY <1>0, <1>1, <1>3 DEF Manager
<1> HIDE DEF new, man
<1>6. /\ SameNets(managers') /\ managers'[man] = new
      /\ \A j \in DOMAIN managers : j # man => managers'[j] = managers[j]
  BY <1>1, <1>4, <1>5, OneChanges DEF LInv
<1>7. /\ list' = list /\ db' = db /\ clients' = clients /\ made' = made
      /\ \/ Goes(c, Initiating(Tail(calls[c].nets)))
         \/ Goes(c, [calls[c] EXCEPT !.op = "save", !.man = NoManager])
  BY DEF StartPolling
<1>8. Known' /\ DOMAIN managers' = DOMAIN managers
  BY <1>6, <1>7, SameNetsKnown DEF LInv, Known
<1>9. Asked'
  <2>1. Tail(calls[c].nets) \in Seq(Net)
    BY <1>1
  <2>2. Sound(Initiating(Tail(calls[c].nets)), DOMAIN managers')
    BY <2>1, InitiatingIsSound
  <2>3. Sound([calls[c] EXCEPT !.op = "save", !.man = NoManager], DOMAIN managers')
    BY <1>1, SaveStage
  <2> QED BY <1>7, <1>8, <2>2, <2>3, GoesAsked DEF LInv
<1>10. \/ calls'[c] = Initiating(Tail(calls[c].nets))
       \/ calls'[c] = [calls[c] EXCEPT !.op = "save", !.man = NoManager]
  BY <1>7 DEF Goes, LInv, Asked
<1> QED BY <1>3, <1>5, <1>6, <1>7, <1>8, <1>9, <1>10 DEF LInv, man

LEMMA AddNetworkInv ==
    ASSUME LInv, NEW c \in Caller, NEW n \in Net, NEW on \in BOOLEAN, AddNetwork(c, n, on)
    PROVE  LInv'
<1>1. Asked'
  <2>1. CASE on
    BY <2>1, OneNet, InitiatingIsSound, GoesAsked DEF LInv, AddNetwork
  <2>2. CASE ~on
    BY <2>2, NothingIsSound, GoesAsked DEF LInv, AddNetwork
  <2> QED BY <2>1, <2>2
<1> QED BY <1>1 DEF LInv, AddNetwork, Known

LEMMA UpdateNetworkInv ==
    ASSUME LInv, NEW c \in Caller, NEW n \in Net, NEW on \in BOOLEAN, UpdateNetwork(c, n, on)
    PROVE  LInv'
<1>1. Sound(Todo("update", <<n>>, on, NoManager), DOMAIN managers')
  BY OneNet, TodoIsSound
<1>2. Asked'
  BY <1>1, GoesAsked DEF LInv, UpdateNetwork
<1> QED BY <1>2 DEF LInv, UpdateNetwork, Known

LEMMA FirstIsListed ==
    ASSUME Known, NEW n, Managing(n) # {}
    PROVE  FirstManager(n) \in Range(list) /\ managers[FirstManager(n)].net = n
<1>1. Managing(n) \in SUBSET Nat
  BY ListedIsKnown DEF Managing
<1>2. Min(Managing(n)) \in Managing(n)
  BY <1>1, MinIsMember
<1>3. FirstManager(n) = list[Min(Managing(n))]
  BY DEF FirstManager, Min
<1> QED BY <1>2, <1>3 DEF Managing, Range

LEMMA ApplyUpdateInv ==
    ASSUME LInv, NEW c \in Caller, ApplyUpdate(c)
    PROVE  /\ LInv' /\ SameNets(managers') /\ list' = list /\ db' = db
           /\ DOMAIN managers' = DOMAIN managers
           /\ \A i \in DOMAIN managers :
                /\ managers'[i].on => managers[i].on
                /\ managers'[i].held => managers[i].held \/ i \in Range(list)
           /\ \/ calls'[c] = Nothing
              \/ calls'[c] = [calls[c] EXCEPT !.op = "save"]
              \/ \E man \in Range(list) :
                    calls'[c] = [calls[c] EXCEPT !.op = "rates", !.man = man]
<1> DEFINE n == Head(calls[c].nets)
           i == FirstManager(n)
           save == [calls[c] EXCEPT !.op = "save"]
           rates == [calls[c] EXCEPT !.op = "rates", !.man = i]
<1>1. /\ list' = list /\ db' = db /\ clients' = clients /\ made' = made
      /\ calls[c].op = "update" /\ calls[c] \in Call /\ calls[c].nets # << >>
  BY DEF ApplyUpdate, ApplyStarting, At, LInv, Asked, Sound
<1>2. CASE Managing(n) = {}
  <2>1. Goes(c, Nothing) /\ managers' = managers
    BY <1>2 DEF ApplyUpdate, ApplyStarting
  <2>2. Asked' /\ calls'[c] = Nothing
    BY <2>1, NothingIsSound, GoesAsked DEF LInv, Goes, Asked
  <2> QED BY <1>1, <2>1, <2>2, UnchangedSame DEF LInv, Known
<1>3. CASE Managing(n) # {}
  <2>1. i \in Range(list) /\ i \in DOMAIN managers /\ i \in Id
    BY <1>3, FirstIsListed, ListedIsKnown DEF LInv, Known
  <2>2. /\ managers' \in Stopped({i}) \/ managers' \in Stopped({})
        /\ Goes(c, save) \/ Goes(c, rates)
    <3>1. \/ managers' \in Stopped({i}) /\ Goes(c, save)
          \/ \E restart \in BOOLEAN :
                /\ managers' \in Stopped(IF restart THEN {i} ELSE {})
                /\ Goes(c, rates) \/ Goes(c, save)
      BY <1>3 DEF ApplyUpdate, ApplyStarting
    <3> HIDE DEF i, save, rates
    <3> QED BY <3>1
  <2>3. /\ save \in Call /\ save.op = "save" /\ save.nets = calls[c].nets
        /\ rates \in Call /\ rates.op = "rates" /\ rates.nets = calls[c].nets /\ rates.man = i
    BY <1>1, <2>1 DEF Call, Starting
  <2> HIDE DEF i, save, rates
  <2>4. Sound(save, DOMAIN managers) /\ Sound(rates, DOMAIN managers)
    BY <1>1, <2>1, <2>3 DEF Sound, Starting
  <2>5. PICK ids \in SUBSET {i} : managers' \in Stopped(ids)
    BY <2>2
  <2>6. /\ SameNets(managers')
        /\ \A j \in DOMAIN managers :
             /\ j \in ids => ~managers'[j].on /\ (managers'[j].held => managers[j].check)
             /\ j \notin ids => managers'[j] = managers[j]
    BY <2>5, StoppedManagers DEF LInv
  <2>7. Known' /\ DOMAIN managers' = DOMAIN managers
    BY <1>1, <2>6, SameNetsKnown DEF LInv, Known
  <2>8. Asked'
    BY <2>2, <2>4, <2>7, GoesAsked DEF LInv
  <2>9. calls'[c] = save \/ calls'[c] = rates
    BY <2>2 DEF Goes, LInv, Asked
  <2>10. LInv'
    BY <1>1, <2>7, <2>8 DEF LInv
  <2>11. \/ calls'[c] = [calls[c] EXCEPT !.op = "save"]
         \/ \E man \in Range(list) :
               calls'[c] = [calls[c] EXCEPT !.op = "rates", !.man = man]
    BY <2>1, <2>9 DEF save, rates
  <2> QED BY <1>1, <2>1, <2>6, <2>7, <2>10, <2>11
<1> QED BY <1>2, <1>3

LEMMA SaveNetworkInv ==
    ASSUME LInv, NEW c \in Caller, SaveNetwork(c) \/ DeleteAtHost(c)
    PROVE  LInv'
<1>1. Asked'
  BY NothingIsSound, GoesAsked DEF LInv, SaveNetwork, DeleteAtHost
<1> QED BY <1>1 DEF LInv, SaveNetwork, DeleteAtHost, Known

LEMMA DeleteNetworkList ==
    ASSUME LInv, NEW c \in Caller, NEW n \in Net, DeleteNetwork(c, n)
    PROVE  /\ list' \in Seq(DOMAIN managers) /\ IsInjective(list')
           /\ Range(list') \subseteq Range(list)
           /\ \A i \in Range(list) : managers[i].net # n => i \in Range(list')
           /\ \A k \in DOMAIN list' : k \in 1 .. Removed(n).len
                                      /\ list'[k] = Removed(n).slice[k]
<1> DEFINE r == Removed(n)
<1>1. /\ r.slice \in Seq(Id) /\ r.len \in Nat /\ r.len <= Len(r.slice)
      /\ Injects(r.slice, r.len)
      /\ \A j \in 1 .. r.len : r.slice[j] \in Range(list)
      /\ \A i \in Range(list) :
           managers[i].net # n => \E j \in 1 .. r.len : r.slice[j] = i
  <2>1. list \in Seq(Id) /\ IsInjective(list)
    BY ListedIsKnown DEF LInv, Known
  <2> QED BY <2>1, RemovedKeeps
<1>2. list' = SubSeq(r.slice, 1, r.len)
  BY DEF DeleteNetwork, DeleteLeaving
<1> HIDE DEF r
<1>3. /\ Len(list') = r.len /\ DOMAIN list' = 1 .. r.len
      /\ list' = [k \in 1 .. r.len |-> list'[k]]
      /\ \A k \in 1 .. r.len : list'[k] = r.slice[k]
  BY <1>1, <1>2
<1>4. \A k \in 1 .. r.len : list'[k] \in Range(list) /\ list'[k] \in DOMAIN managers
  BY <1>1, <1>3, ListedIsKnown DEF LInv
<1>5. list' \in Seq(DOMAIN managers)
  BY <1>1, <1>3, <1>4
<1>6. IsInjective(list')
  BY <1>1, <1>3 DEF IsInjective, Injects
<1>7. /\ Range(list') \subseteq Range(list)
      /\ \A i \in Range(list) : managers[i].net # n => i \in Range(list')
  <2>1. \A x : x \in Range(list') <=> \E k \in 1 .. r.len : x = list'[k]
    BY <1>3 DEF Range
  <2> QED BY <2>1, <1>1, <1>3, <1>4
<1> QED BY <1>3, <1>5, <1>6, <1>7 DEF r

LEMMA DeleteNetworkInv ==
    ASSUME LInv, NEW c \in Caller, NEW n \in Net, DeleteNetwork(c, n)
    PROVE  /\ LInv' /\ SameNets(managers') /\ DOMAIN managers' = DOMAIN managers
           /\ \A i \in DOMAIN managers :
                IF i \in Range(list) /\ managers[i].net = n
                THEN ~managers'[i].on /\ (managers'[i].held => managers[i].check)
                ELSE managers'[i] = managers[i]
<1> DEFINE ids == {list[k] : k \in Managing(n)}
<1>1. managers' \in Stopped(ids)
  BY DEF DeleteNetwork, DeleteLeaving
<1>2. \A i : i \in ids <=> i \in Range(list) /\ managers[i].net = n
  BY DEF Managing, Range
<1> HIDE DEF ids
<1>3. /\ SameNets(managers')
      /\ \A i \in DOMAIN managers :
           /\ i \in ids => ~managers'[i].on /\ (managers'[i].held => managers[i].check)
           /\ i \notin ids => managers'[i] = managers[i]
  BY <1>1, StoppedManagers DEF LInv
<1>4. Known' /\ DOMAIN managers' = DOMAIN managers
  BY <1>3, DeleteNetworkList, SameNetsKnown DEF LInv
<1>5. Asked'
  <2>1. Sound(Todo("delete", <<n>>, FALSE, NoManager), DOMAIN managers')
    BY OneNet, TodoIsSound
  <2> QED BY <1>4, <2>1, GoesAsked DEF LInv, DeleteNetwork, DeleteLeaving
<1> QED BY <1>2, <1>3, <1>4, <1>5 DEF LInv, DeleteNetwork, DeleteLeaving

\* A loop, or the checker of its manager, changes that manager and nothing of the list.
LEMMA LoopInv ==
    ASSUME LInv, NEW i \in DOMAIN managers, Loop(i)
    PROVE  /\ LInv' /\ UNCHANGED <<list, db, calls>> /\ DOMAIN managers' = DOMAIN managers
           /\ SameNets(managers') /\ managers'[i].on = managers[i].on
           /\ managers'[i].held => \/ managers[i].held \/ managers[i].check
                                   \/ managers[i].loop \in {"drawn", "connect"}
           /\ \A j \in DOMAIN managers : j # i => managers'[j] = managers[j]
<1> DEFINE m == managers[i]
           old == {"none", "idle", "asked", "drawn", "connect", "ended"}
<1>1. m \in Manager /\ managers \in [DOMAIN managers -> Manager] /\ (m.check => m.on)
  BY DEF LInv, Known
<1>2. \E l \in old, h, k \in BOOLEAN :
        /\ managers' = [managers EXCEPT ![i] = [m EXCEPT !.loop = l, !.held = h, !.check = k]]
        /\ k => m.on
        /\ h => m.held \/ m.check \/ m.loop \in {"drawn", "connect"}
  <2>0. m.loop \in old /\ m.held \in BOOLEAN /\ m.check \in BOOLEAN
    BY <1>1 DEF Manager
  <2>1. /\ \A l \in old : [m EXCEPT !.loop = l]
                           = [m EXCEPT !.loop = l, !.held = m.held, !.check = m.check]
        /\ \A l \in old, h \in BOOLEAN :
              [m EXCEPT !.loop = l, !.held = h]
                = [m EXCEPT !.loop = l, !.held = h, !.check = m.check]
        /\ \A k \in BOOLEAN : [m EXCEPT !.check = k]
                               = [m EXCEPT !.loop = m.loop, !.held = m.held, !.check = k]
        /\ \A h, k \in BOOLEAN : [m EXCEPT !.check = k, !.held = h]
                               = [m EXCEPT !.loop = m.loop, !.held = h, !.check = k]
    <3> HIDE DEF old
    <3> QED BY <1>1 DEF Manager
  <2>2. CASE AskNetwork(i) \/ Connect(i) \/ Connected(i) \/ LoopEnds(i)
    <3>1. PICK l \in old : managers' = [managers EXCEPT ![i] = [m EXCEPT !.loop = l]]
      BY <1>1, <2>2 DEF AskNetwork, Connect, Connected, LoopEnds
    <3> HIDE DEF m, old
    <3>2. managers' = [managers EXCEPT ![i] = [m EXCEPT !.loop = l, !.held = m.held,
                                                        !.check = m.check]]
      BY <2>1, <3>1
    <3> QED BY <1>1, <2>0, <3>2, Zenon
  <2>3. CASE Draw(i)
    <3> DEFINE no == FALSE
    <3>0. no \in BOOLEAN /\ ~no
      OBVIOUS
    <3>1. PICK l \in old : managers' = [managers EXCEPT ![i] = [m EXCEPT !.loop = l, !.held = no]]
      <4> DEFINE l == IF m.held THEN "drawn" ELSE "idle"
      <4>1. managers' = [managers EXCEPT ![i] = [m EXCEPT !.held = no, !.loop = l]]
        BY <1>1, <2>3 DEF Draw
      <4>2. l \in old
        OBVIOUS
      <4> HIDE DEF no, l
      <4>3. [m EXCEPT !.held = no, !.loop = l] = [m EXCEPT !.loop = l, !.held = no]
        BY <1>1 DEF Manager
      <4> QED BY <4>1, <4>2, <4>3
    <3> HIDE DEF m, old, no
    <3>2. managers' = [managers EXCEPT ![i] = [m EXCEPT !.loop = l, !.held = no,
                                                        !.check = m.check]]
      BY <2>1, <3>0, <3>1
    <3> QED BY <1>1, <2>0, <3>0, <3>2, Zenon
  <2>4. CASE PollEnds(i)
    <3>1. PICK back \in BOOLEAN :
            managers' = [managers EXCEPT ![i].loop = "idle", ![i].held = managers[i].held \/ back]
      BY <2>4 DEF PollEnds
    <3> DEFINE h == m.held \/ back
    <3>2. h \in BOOLEAN /\ m.loop \in {"drawn", "connect"} /\ "idle" \in old
      BY <2>0, <2>1, <2>4 DEF PollEnds
    <3>3. managers' = [managers EXCEPT ![i] = [m EXCEPT !.loop = "idle", !.held = h]]
      BY <1>1, <3>1
    <3> HIDE DEF m, old, h
    <3>4. managers' = [managers EXCEPT ![i] = [m EXCEPT !.loop = "idle", !.held = h,
                                                        !.check = m.check]]
      BY <2>1, <3>2, <3>3
    <3> QED BY <1>1, <2>0, <3>2, <3>4, Zenon
  <2>5. CASE CheckBegins(i)
    <3> DEFINE yes == TRUE
    <3>0. yes \in BOOLEAN
      OBVIOUS
    <3>1. managers' = [managers EXCEPT ![i] = [m EXCEPT !.check = yes]] /\ m.on
      BY <1>1, <2>5 DEF CheckBegins
    <3> HIDE DEF m, old, yes
    <3> QED BY <1>1, <2>0, <2>1, <3>0, <3>1
  <2>6. CASE CheckEnds(i)
    <3> DEFINE no == FALSE
    <3>0. no \in BOOLEAN /\ ~no
      OBVIOUS
    <3>1. PICK added \in BOOLEAN :
            managers' = [managers EXCEPT ![i].check = no, ![i].held = managers[i].held \/ added]
      BY <2>6 DEF CheckEnds
    <3>2. m.check
      BY <2>6 DEF CheckEnds
    <3> DEFINE h == m.held \/ added
    <3>3. h \in BOOLEAN
      BY <2>0
    <3>4. managers' = [managers EXCEPT ![i] = [m EXCEPT !.check = no, !.held = h]]
      BY <1>1, <3>1
    <3> HIDE DEF m, old, h, no
    <3> QED BY <1>1, <2>0, <2>1, <3>0, <3>2, <3>3, <3>4
  <2> QED BY <2>2, <2>3, <2>4, <2>5, <2>6 DEF Loop, Poll, Check
<1>3. PICK l \in old, h \in BOOLEAN, k \in BOOLEAN :
        /\ managers' = [managers EXCEPT ![i] = [m EXCEPT !.loop = l, !.held = h, !.check = k]]
        /\ k => m.on
        /\ h => m.held \/ m.check \/ m.loop \in {"drawn", "connect"}
  BY <1>2
<1> DEFINE new == [m EXCEPT !.loop = l, !.held = h, !.check = k]
<1>4. new \in Manager /\ new.net = m.net /\ new.on = m.on /\ new.held = h /\ new.check = k
  BY <1>1, <1>3 DEF Manager
<1> HIDE DEF new
<1>5. /\ SameNets(managers') /\ managers'[i] = new
      /\ \A j \in DOMAIN managers : j # i => managers'[j] = managers[j]
  BY <1>1, <1>3, <1>4, OneChanges DEF LInv, new
<1>6. UNCHANGED <<list, db, calls>>
  BY DEF Loop, Poll, Check, AskNetwork, Draw, Connect, Connected, PollEnds, LoopEnds,
         CheckBegins, CheckEnds
<1>7. clients' # {} => made'
  BY DEF Loop, Poll, Check, AskNetwork, Draw, Connect, Connected, PollEnds, LoopEnds,
         CheckBegins, CheckEnds, LInv
<1>8. Known' /\ DOMAIN managers' = DOMAIN managers
  BY <1>5, <1>6, SameNetsKnown DEF LInv, Known
<1>9. Asked'
  BY <1>6, <1>8 DEF LInv, Asked
<1> QED BY <1>3, <1>4, <1>5, <1>6, <1>7, <1>8, <1>9 DEF LInv

LEMMA RestartInv ==
    ASSUME LInv, Restart
    PROVE  LInv'
<1>1. DOMAIN managers' = {} /\ list' \in Seq({}) /\ DOMAIN list' = {}
      /\ managers' \in [{} -> Manager]
  BY DEF Restart
<1>2. Known'
  BY <1>1 DEF Known, IsInjective
<1>3. Asked'
  BY NothingIsSound DEF Restart, Asked
<1> QED BY <1>2, <1>3 DEF LInv, Restart

LEMMA StepInv ==
    ASSUME LInv, [Next]_vars
    PROVE  LInv'
<1>1. CASE UNCHANGED vars
  BY <1>1 DEF vars, LInv, Known, Asked
<1>2. ASSUME NEW c \in Caller, Receive(c) PROVE LInv'
  BY <1>2, EnableInv, DisableInv, AddNetworkInv, UpdateNetworkInv, DeleteNetworkInv
     DEF Receive
<1>3. ASSUME NEW c \in Caller, Serve(c) PROVE LInv'
  BY <1>3, EnableModuleInv, InitiatePollingInv, SetRatesInv, RebuildInv, StartPollingInv,
     ApplyUpdateInv, SaveNetworkInv DEF Serve
<1>4. ASSUME NEW i \in DOMAIN managers, Loop(i) PROVE LInv'
  BY <1>4, LoopInv
<1>5. CASE Restart
  BY <1>5, RestartInv
<1> QED BY <1>1, <1>2, <1>3, <1>4, <1>5 DEF Next

\* However calls overlap: the list names each manager once and only managers that
\* exist, only a manager that is on has a check under way, and the map of clients is
\* made before a client is put into it.
THEOREM LifecycleTyped == Spec => []TypeOK
<1>1. LInv /\ [Next]_vars => LInv'
  BY StepInv
<1> QED BY <1>1, InitInv, InvIsTyped, PTL DEF Spec

-----------------------------------------------------------------------------
\* When calls do not overlap.  The invariant: a manager that is on, or that a call
\* starts, is in the list; the networks of the managers in the list are different and
\* exist; a call that makes managers has still to make them for networks that are
\* different, exist and have none.
OneCaller == \A c, d \in Caller : c = d

OnIsListed == \A i \in DOMAIN managers : managers[i].on => i \in Range(list)
ManagedOnce == \A j, k \in DOMAIN list : managers[list[j]].net = managers[list[k]].net => j = k
ManagedExist == \A k \in DOMAIN list : db[managers[list[k]].net] # "absent"
Unmanaged(n) == \A k \in DOMAIN list : managers[list[k]].net # n

Prepares(nets) == IsInjective(nets) /\ \A n \in Range(nets) : db[n] # "absent"
Ready(nets) == Prepares(nets) /\ \A n \in Range(nets) : Unmanaged(n)
Consistent(call) ==
    /\ call.op = "enable" => Prepares(call.nets)
    /\ call.op = "init" => Ready(call.nets)
    /\ call.op \in Starting => call.man \in Range(list) /\ Ready(Tail(call.nets))
    /\ call.op = "update" => Tail(call.nets) = << >>
    /\ call.op = "delete" => Unmanaged(Head(call.nets))

SInv == /\ OnIsListed /\ ManagedOnce /\ ManagedExist
        /\ \A c \in Caller : Consistent(calls[c])
        /\ db \in [Net -> {"absent", "disabled", "enabled"}]

LEMMA SInvSuffices == SInv => OneManager /\ DeletedIsForgotten
<1> SUFFICES ASSUME SInv PROVE OneManager /\ DeletedIsForgotten
  OBVIOUS
<1>1. OneManager
  BY DEF SInv, ManagedOnce, OneManager, Managing
<1>2. DeletedIsForgotten
  BY DEF SInv, ManagedExist, DeletedIsForgotten, Managing
<1> QED BY <1>1, <1>2

LEMMA NothingConsistent == Consistent(Nothing)
BY DEF Consistent, Nothing, Todo, Starting

LEMMA InitS == Init => SInv
<1> SUFFICES ASSUME Init PROVE SInv
  OBVIOUS
<1>1. DOMAIN list = {} /\ DOMAIN managers = {}
  BY DEF Init
<1> QED BY <1>1, NothingConsistent DEF Init, SInv, OnIsListed, ManagedOnce, ManagedExist

LEMMA ListedNets ==
    ASSUME LInv
    PROVE  \A k \in DOMAIN list : list[k] \in DOMAIN managers /\ managers[list[k]].net \in Net
BY ListedIsKnown DEF LInv, Known, Manager

\* The networks of the listed managers are what the invariant is about.
LEMMA SameListed ==
    ASSUME LInv, SInv, list' = list, DOMAIN managers' = DOMAIN managers, SameNets(managers'),
           \A i \in DOMAIN managers : managers'[i].on => managers[i].on \/ i \in Range(list)
    PROVE  /\ OnIsListed' /\ ManagedOnce' /\ (db' = db => ManagedExist')
           /\ \A n : Unmanaged(n) <=> Unmanaged(n)'
<1>1. \A k \in DOMAIN list : managers'[list[k]].net = managers[list[k]].net
  BY ListedNets DEF SameNets
<1> QED BY <1>1 DEF SInv, OnIsListed, ManagedOnce, ManagedExist, Unmanaged

LEMMA LoopS ==
    ASSUME LInv, SInv, NEW i \in DOMAIN managers, Loop(i)
    PROVE  SInv'
<1>1. /\ UNCHANGED <<list, db, calls>> /\ DOMAIN managers' = DOMAIN managers
      /\ SameNets(managers') /\ managers'[i].on = managers[i].on
      /\ \A j \in DOMAIN managers : j # i => managers'[j] = managers[j]
  BY LoopInv
<1>2. /\ OnIsListed' /\ ManagedOnce' /\ ManagedExist'
      /\ \A n : Unmanaged(n) <=> Unmanaged(n)'
  BY <1>1, SameListed
<1> QED BY <1>1, <1>2 DEF SInv, Consistent, Ready, Prepares

\* The one caller goes on.
LEMMA StartS ==
    ASSUME OneCaller, NEW c \in Caller, NEW todo, Asked, Goes(c, todo)
    PROVE  calls'[c] = todo /\ \A d \in Caller : d = c
BY DEF OneCaller, Goes, Asked

LEMMA EnableS ==
    ASSUME OneCaller, LInv, SInv, NEW c \in Caller, Enable(c)
    PROVE  SInv'
<1> DEFINE nets == SetToSeq(Existing)
<1>1. calls'[c] = Todo("enable", nets, TRUE, NoManager) /\ \A d \in Caller : d = c
  BY StartS DEF LInv, Enable
<1>2. IsInjective(nets) /\ nets \in Seq(Existing)
  BY NetsInSequence DEF Existing
<1>3. UNCHANGED <<db, list, managers>>
  BY DEF Enable
<1>4. \A n \in Range(nets) : db'[n] # "absent"
  BY <1>2, <1>3 DEF Range, Existing
<1>5. Consistent(calls[c])'
  BY <1>1, <1>2, <1>4 DEF Consistent, Prepares, Todo, Starting
<1> QED BY <1>1, <1>3, <1>5 DEF SInv, OnIsListed, ManagedOnce, ManagedExist

LEMMA EnableModuleS ==
    ASSUME OneCaller, LInv, SInv, NEW c \in Caller, EnableModule(c)
    PROVE  SInv'
<1> DEFINE nets == calls[c].nets
<1>1. calls'[c] = Initiating(nets) /\ \A d \in Caller : d = c
  BY StartS DEF LInv, EnableModule, EnableWith
<1>2. IsInjective(nets) /\ \A n \in Range(nets) : db[n] # "absent"
  BY DEF EnableModule, EnableWith, At, SInv, Consistent, Prepares
<1>3. db' = db /\ DOMAIN list' = {} /\ list' = << >>
  BY DEF EnableModule, EnableWith
<1>4. \A n : Unmanaged(n)'
  BY <1>3 DEF Unmanaged
<1>5. Consistent(calls[c])'
  <2>1. CASE nets = << >>
    BY <1>1, <2>1 DEF Initiating, Consistent, Nothing, Todo, Starting
  <2>2. CASE nets # << >>
    BY <1>1, <1>2, <1>3, <1>4, <2>2 DEF Initiating, Todo, Consistent, Ready, Prepares, Starting
  <2> QED BY <2>1, <2>2
<1>6. OnIsListed'
  <2>1. /\ DOMAIN managers' = DOMAIN managers
        /\ \A i \in DOMAIN managers : managers'[i].on => managers[i].on /\ i \notin Range(list)
    BY RetiredManagers DEF EnableModule, EnableWith
  <2> QED BY <2>1 DEF SInv, OnIsListed
<1> QED BY <1>1, <1>3, <1>5, <1>6 DEF SInv, ManagedOnce, ManagedExist

LEMMA DisableS ==
    ASSUME OneCaller, LInv, SInv, NEW c \in Caller, Disable(c)
    PROVE  SInv'
<1>1. /\ UNCHANGED <<db, calls>> /\ DOMAIN list' = {}
      /\ calls[c] = Nothing /\ \A d \in Caller : d = c
  BY DEF Disable, DisableStopping, Start, OneCaller
<1>2. Consistent(calls[c])'
  BY <1>1 DEF Consistent, Nothing, Todo, Starting
<1>3. OnIsListed'
  <2>1. /\ DOMAIN managers' = DOMAIN managers
        /\ \A i \in DOMAIN managers : managers'[i].on => managers[i].on /\ i \notin Range(list)
    BY RetiredManagers DEF Disable, DisableStopping
  <2> QED BY <2>1 DEF SInv, OnIsListed
<1> QED BY <1>1, <1>2, <1>3 DEF SInv, ManagedOnce, ManagedExist

LEMMA TailInjective ==
    ASSUME NEW nets \in Seq(Net), nets # << >>, IsInjective(nets)
    PROVE  /\ IsInjective(Tail(nets)) /\ Head(nets) \notin Range(Tail(nets))
           /\ Range(Tail(nets)) \subseteq Range(nets) /\ Head(nets) \in Range(nets)
<1> DEFINE t == Tail(nets)
<1>1. /\ Len(nets) \in Nat \ {0} /\ DOMAIN nets = 1 .. Len(nets) /\ Head(nets) = nets[1]
      /\ t \in Seq(Net) /\ DOMAIN t = 1 .. (Len(nets) - 1)
      /\ \A k \in 1 .. (Len(nets) - 1) : t[k] = nets[k + 1]
  OBVIOUS
<1> HIDE DEF t
<1>2. \A k \in DOMAIN t : k + 1 \in DOMAIN nets /\ t[k] = nets[k + 1] /\ k + 1 # 1 /\ k \in Nat
  BY <1>1
<1>3. 1 \in DOMAIN nets
  BY <1>1
<1>4. IsInjective(t)
  <2> SUFFICES ASSUME NEW k \in DOMAIN t, NEW l \in DOMAIN t, t[k] = t[l] PROVE k = l
    BY DEF IsInjective
  <2>1. k + 1 = l + 1
    BY <1>2 DEF IsInjective
  <2> QED BY <1>2, <2>1
<1>5. \A k \in DOMAIN t : t[k] # nets[1] /\ t[k] \in Range(nets)
  BY <1>2, <1>3 DEF IsInjective, Range
<1> QED BY <1>1, <1>3, <1>4, <1>5 DEF t, Range

LEMMA InitiatePollingS ==
    ASSUME OneCaller, LInv, SInv, NEW c \in Caller, InitiatePolling(c)
    PROVE  SInv'
<1> DEFINE nets == calls[c].nets
           kept == DOMAIN managers \ Garbage
<1>1. PICK i \in Free :
             /\ i \in Id /\ i \notin kept
             /\ managers' \in [kept \cup {i} -> Manager]
             /\ managers'[i].net = Head(nets)
             /\ ~managers'[i].on /\ ~managers'[i].held /\ ~managers'[i].check
             /\ \A j \in kept : managers'[j] = managers[j]
             /\ list' = Append(list, i)
             /\ Goes(c, [calls[c] EXCEPT !.op = "rates", !.man = i])
  BY NewManager
<1>2. /\ nets \in Seq(Net) /\ nets # << >> /\ calls[c] \in Call /\ db' = db
      /\ calls'[c] = [calls[c] EXCEPT !.op = "rates", !.man = i]
      /\ \A d \in Caller : d = c
  BY <1>1, StartS DEF LInv, Asked, Sound, Call, InitiatePolling, At
<1>3. IsInjective(nets) /\ \A n \in Range(nets) : db[n] # "absent" /\ Unmanaged(n)
  BY DEF InitiatePolling, At, SInv, Consistent, Ready, Prepares
<1>4. /\ IsInjective(Tail(nets)) /\ Head(nets) \notin Range(Tail(nets))
      /\ Range(Tail(nets)) \subseteq Range(nets) /\ Head(nets) \in Range(nets)
  BY <1>2, <1>3, TailInjective
<1>5. /\ Range(list) \subseteq kept /\ Range(list') = Range(list) \cup {i}
      /\ DOMAIN list = 1 .. Len(list) /\ Len(list) \in Nat
      /\ DOMAIN list' = 1 .. (Len(list) + 1) /\ list'[Len(list) + 1] = i
      /\ \A k \in DOMAIN list : list'[k] = list[k]
  BY <1>1, NewIsListed
<1>6. \A k \in DOMAIN list : list[k] \in kept
  BY <1>5 DEF Range
<1>7. \A k \in DOMAIN list' : \/ /\ k \in DOMAIN list
                                 /\ managers'[list'[k]].net = managers[list[k]].net
                              \/ /\ k = Len(list) + 1
                                 /\ managers'[list'[k]].net = Head(nets)
  <2> SUFFICES ASSUME NEW k \in DOMAIN list'
               PROVE  \/ /\ k \in DOMAIN list
                         /\ managers'[list'[k]].net = managers[list[k]].net
                      \/ k = Len(list) + 1 /\ managers'[list'[k]].net = Head(nets)
    OBVIOUS
  <2>1. k \in DOMAIN list \/ k = Len(list) + 1
    BY <1>5
  <2> QED BY <1>1, <1>5, <1>6, <2>1
<1>8. \A k \in DOMAIN list : managers[list[k]].net # Head(nets)
  BY <1>3, <1>4 DEF Unmanaged
<1>9. OnIsListed'
  <2>1. \A j \in DOMAIN managers' : j = i \/ j \in kept
    BY <1>1
  <2> QED BY <1>1, <1>5, <2>1 DEF SInv, OnIsListed
<1> HIDE DEF nets, kept
<1>10. ManagedOnce'
  BY <1>7, <1>8 DEF SInv, ManagedOnce
<1>11. ManagedExist'
  BY <1>2, <1>3, <1>4, <1>7 DEF SInv, ManagedExist
<1>12. \A n \in Range(Tail(nets)) : db'[n] # "absent" /\ Unmanaged(n)'
  BY <1>2, <1>3, <1>4, <1>7 DEF Unmanaged
<1>13. Consistent(calls[c])'
  <2>1. calls'[c].op = "rates" /\ calls'[c].man = i /\ calls'[c].nets = nets
    BY <1>2 DEF Call, nets
  <2> QED BY <1>4, <1>5, <1>12, <2>1 DEF Consistent, Ready, Prepares, Starting
<1> QED BY <1>2, <1>9, <1>10, <1>11, <1>13 DEF SInv

\* The stages of StartPolling before the last.
LEMMA StageS ==
    ASSUME OneCaller, LInv, SInv, NEW c \in Caller, SetRates(c) \/ Rebuild(c)
    PROVE  SInv'
<1>1. /\ SameNets(managers') /\ list' = list /\ db' = db
      /\ DOMAIN managers' = DOMAIN managers
      /\ \A i \in DOMAIN managers : managers'[i].on => managers[i].on
      /\ \/ calls'[c] = calls[c]
         \/ \E op \in {"rebuild", "start"} : calls'[c] = [calls[c] EXCEPT !.op = op]
  BY SetRatesInv, RebuildInv
<1>2. /\ OnIsListed' /\ ManagedOnce' /\ ManagedExist'
      /\ \A n : Unmanaged(n) <=> Unmanaged(n)'
  BY <1>1, SameListed
<1>3. calls[c] \in Call /\ calls[c].op \in Starting /\ \A d \in Caller : d = c
  BY DEF OneCaller, LInv, Asked, Sound, SetRates, Rebuild, At, Starting
<1>4. calls'[c].op \in Starting /\ calls'[c].man = calls[c].man /\ calls'[c].nets = calls[c].nets
  BY <1>1, <1>3 DEF Call, Starting
<1>5. Consistent(calls[c])'
  <2>1. calls[c].man \in Range(list) /\ Ready(Tail(calls[c].nets))
    BY <1>3 DEF SInv, Consistent
  <2>2. Ready(Tail(calls[c].nets))'
    BY <1>1, <1>2, <1>4, <2>1 DEF Ready, Prepares
  <2> QED BY <1>1, <1>4, <2>1, <2>2 DEF Consistent, Starting
<1> QED BY <1>1, <1>2, <1>3, <1>5 DEF SInv

LEMMA StartPollingS ==
    ASSUME OneCaller, LInv, SInv, NEW c \in Caller, StartPolling(c)
    PROVE  SInv'
<1> DEFINE rest == Tail(calls[c].nets)
<1>1. /\ SameNets(managers') /\ list' = list /\ db' = db
      /\ DOMAIN managers' = DOMAIN managers
      /\ \A i \in DOMAIN managers : managers'[i].on => managers[i].on \/ i = calls[c].man
      /\ \/ calls'[c] = Initiating(rest)
         \/ calls'[c] = [calls[c] EXCEPT !.op = "save", !.man = NoManager]
  BY StartPollingInv
<1>2. calls[c].man \in Range(list) /\ Ready(rest) /\ calls[c] \in Call
      /\ \A d \in Caller : d = c
  BY DEF OneCaller, SInv, Consistent, StartPolling, At, Starting, LInv, Asked, Sound
<1>3. /\ OnIsListed' /\ ManagedOnce' /\ ManagedExist'
      /\ \A n : Unmanaged(n) <=> Unmanaged(n)'
  BY <1>1, <1>2, SameListed
<1> HIDE DEF rest
<1>4. Consistent(calls[c])'
  <2>1. CASE calls'[c] = Initiating(rest) /\ rest = << >>
    BY <2>1 DEF Initiating, Consistent, Nothing, Todo, Starting
  <2>2. CASE calls'[c] = Initiating(rest) /\ rest # << >>
    BY <1>1, <1>2, <1>3, <2>2 DEF Initiating, Todo, Consistent, Ready, Prepares, Starting
  <2>3. CASE calls'[c] = [calls[c] EXCEPT !.op = "save", !.man = NoManager]
    <3>1. calls'[c].op = "save"
      BY <1>2, <2>3 DEF Call
    <3> QED BY <3>1 DEF Consistent, Starting
  <2> QED BY <1>1, <2>1, <2>2, <2>3
<1> QED BY <1>1, <1>2, <1>3, <1>4 DEF SInv

LEMMA AddNetworkS ==
    ASSUME OneCaller, LInv, SInv, NEW c \in Caller, NEW n \in Net, NEW on \in BOOLEAN,
           AddNetwork(c, n, on)
    PROVE  SInv'
<1>1. /\ db' = [db EXCEPT ![n] = Status(on)] /\ UNCHANGED <<list, managers>>
      /\ \A k \in DOMAIN list : managers[list[k]].net # n
      /\ \A d \in Caller : d = c
      /\ calls'[c] = (IF on THEN Initiating(<<n>>) ELSE Nothing)
  <2>1. \A k \in DOMAIN list : managers[list[k]].net # n
    BY ListedIsKnown DEF AddNetwork, LInv
  <2> QED BY <2>1, StartS DEF AddNetwork, LInv
<1>2. Status(on) \in {"disabled", "enabled"}
  BY DEF Status
<1>3. db' \in [Net -> {"absent", "disabled", "enabled"}] /\ db'[n] # "absent"
      /\ \A m \in Net : m # n => db'[m] = db[m]
  BY <1>1, <1>2 DEF SInv
<1>4. OnIsListed' /\ ManagedOnce' /\ ManagedExist'
  BY <1>1, <1>3, ListedNets DEF SInv, OnIsListed, ManagedOnce, ManagedExist
<1>5. Consistent(calls[c])'
  <2>1. CASE on
    <3>1. calls'[c] = Todo("init", <<n>>, TRUE, NoManager)
      BY <1>1, <2>1 DEF Initiating
    <3>2. IsInjective(<<n>>) /\ Range(<<n>>) = {n}
      BY DEF IsInjective, Range
    <3> QED BY <1>1, <1>3, <3>1, <3>2 DEF Todo, Consistent, Ready, Prepares, Unmanaged, Starting
  <2>2. CASE ~on
    BY <1>1, <2>2 DEF Consistent, Nothing, Todo, Starting
  <2> QED BY <2>1, <2>2
<1> QED BY <1>1, <1>3, <1>4, <1>5 DEF SInv

LEMMA UpdateNetworkS ==
    ASSUME OneCaller, LInv, SInv, NEW c \in Caller, NEW n \in Net, NEW on \in BOOLEAN,
           UpdateNetwork(c, n, on)
    PROVE  SInv'
<1>1. /\ db' = [db EXCEPT ![n] = Status(on)] /\ UNCHANGED <<list, managers>>
      /\ \A d \in Caller : d = c
      /\ calls'[c] = Todo("update", <<n>>, on, NoManager)
  BY StartS DEF UpdateNetwork, LInv
<1>2. Status(on) \in {"disabled", "enabled"}
  BY DEF Status
<1>3. db' \in [Net -> {"absent", "disabled", "enabled"}] /\ db'[n] # "absent"
      /\ \A m \in Net : m # n => db'[m] = db[m]
  BY <1>1, <1>2 DEF SInv
<1>4. OnIsListed' /\ ManagedOnce' /\ ManagedExist'
  BY <1>1, <1>3, ListedNets DEF SInv, OnIsListed, ManagedOnce, ManagedExist
<1>5. Consistent(calls[c])'
  <2>1. Tail(<<n>>) = << >>
    OBVIOUS
  <2> QED BY <1>1, <2>1 DEF Consistent, Todo, Starting
<1> QED BY <1>1, <1>3, <1>4, <1>5 DEF SInv

LEMMA ApplyUpdateS ==
    ASSUME OneCaller, LInv, SInv, NEW c \in Caller, ApplyUpdate(c)
    PROVE  SInv'
<1>1. /\ SameNets(managers') /\ list' = list /\ db' = db
      /\ DOMAIN managers' = DOMAIN managers
      /\ \A i \in DOMAIN managers : managers'[i].on => managers[i].on
      /\ \/ calls'[c] = Nothing
         \/ calls'[c] = [calls[c] EXCEPT !.op = "save"]
         \/ \E man \in Range(list) :
               calls'[c] = [calls[c] EXCEPT !.op = "rates", !.man = man]
  BY ApplyUpdateInv
<1>2. /\ OnIsListed' /\ ManagedOnce' /\ ManagedExist'
      /\ \A n : Unmanaged(n) <=> Unmanaged(n)'
  BY <1>1, SameListed
<1>3. /\ calls[c] \in Call /\ Tail(calls[c].nets) = << >> /\ \A d \in Caller : d = c
  BY DEF OneCaller, SInv, Consistent, ApplyUpdate, ApplyStarting, At, LInv, Asked, Sound
<1>4. Consistent(calls[c])'
  <2>1. CASE calls'[c] = Nothing
    BY <2>1 DEF Consistent, Nothing, Todo, Starting
  <2>2. CASE calls'[c] = [calls[c] EXCEPT !.op = "save"]
    <3>1. calls'[c].op = "save"
      BY <1>3, <2>2 DEF Call
    <3> QED BY <3>1 DEF Consistent, Starting
  <2>3. CASE \E man \in Range(list) :
                calls'[c] = [calls[c] EXCEPT !.op = "rates", !.man = man]
    <3>1. calls'[c].op = "rates" /\ calls'[c].man \in Range(list)
          /\ calls'[c].nets = calls[c].nets
      BY <1>3, <2>3 DEF Call
    <3>2. DOMAIN << >> = {}
      OBVIOUS
    <3>3. IsInjective(<< >>) /\ Range(<< >>) = {}
      BY <3>2 DEF IsInjective, Range
    <3> QED BY <1>1, <1>3, <3>1, <3>3 DEF Consistent, Ready, Prepares, Starting
  <2> QED BY <1>1, <2>1, <2>2, <2>3
<1> QED BY <1>1, <1>2, <1>3, <1>4 DEF SInv

LEMMA SaveNetworkS ==
    ASSUME OneCaller, LInv, SInv, NEW c \in Caller, SaveNetwork(c)
    PROVE  SInv'
<1>1. /\ UNCHANGED <<list, managers>>
      /\ \A d \in Caller : d = c
      /\ calls'[c] = Nothing
  BY StartS DEF SaveNetwork, LInv
<1>2. /\ db' \in [Net -> {"absent", "disabled", "enabled"}]
      /\ \A n \in Net : db'[n] = "absent" <=> db[n] = "absent"
  BY DEF SaveNetwork, Status, SInv
<1>3. \A k \in DOMAIN list : managers[list[k]].net \in Net
  BY ListedNets
<1>4. OnIsListed' /\ ManagedOnce' /\ ManagedExist'
  BY <1>1, <1>2, <1>3 DEF SInv, OnIsListed, ManagedOnce, ManagedExist
<1>5. Consistent(calls[c])'
  BY <1>1 DEF Consistent, Nothing, Todo, Starting
<1> QED BY <1>1, <1>2, <1>4, <1>5 DEF SInv

LEMMA DeleteAtHostS ==
    ASSUME OneCaller, LInv, SInv, NEW c \in Caller, DeleteAtHost(c)
    PROVE  SInv'
<1> DEFINE n == Head(calls[c].nets)
<1>1. /\ UNCHANGED <<list, managers>>
      /\ \A d \in Caller : d = c
      /\ calls'[c] = Nothing
  BY StartS DEF DeleteAtHost, LInv
<1>2. Unmanaged(n)
  BY DEF DeleteAtHost, At, SInv, Consistent
<1>3. /\ db' \in [Net -> {"absent", "disabled", "enabled"}]
      /\ \A m \in Net : m # n => db'[m] = db[m]
  <2>1. db' = [db EXCEPT ![n] = "absent"] \/ db' = db
    BY DEF DeleteAtHost
  <2> HIDE DEF n
  <2> QED BY <2>1 DEF SInv
<1>4. OnIsListed' /\ ManagedOnce' /\ ManagedExist'
  BY <1>1, <1>2, <1>3, ListedNets DEF SInv, OnIsListed, ManagedOnce, ManagedExist, Unmanaged
<1>5. Consistent(calls[c])'
  BY <1>1 DEF Consistent, Nothing, Todo, Starting
<1> QED BY <1>1, <1>3, <1>4, <1>5 DEF SInv

LEMMA DeleteNetworkS ==
    ASSUME OneCaller, LInv, SInv, NEW c \in Caller, NEW n \in Net, DeleteNetwork(c, n)
    PROVE  SInv' /\ alive'
<1>1. /\ db' = db /\ calls'[c] = Todo("delete", <<n>>, FALSE, NoManager) /\ \A d \in Caller : d = c
      /\ alive' = Removed(n).safe
  BY StartS DEF DeleteNetwork, DeleteLeaving, LInv
<1>2. \A j, k \in Managing(n) : j = k
  BY DEF SInv, ManagedOnce, Managing
<1>3. list \in Seq(Id)
  BY ListedIsKnown DEF LInv
<1>4. /\ Removed(n).safe
      /\ \A j \in 1 .. Removed(n).len : managers[Removed(n).slice[j]].net # n
  BY <1>2, <1>3, RemovedClears
<1>5. /\ IsInjective(list') /\ Range(list') \subseteq Range(list)
      /\ \A k \in DOMAIN list' : managers[list'[k]].net # n
  BY <1>4, DeleteNetworkList
<1>6. /\ DOMAIN managers' = DOMAIN managers
      /\ \A i \in DOMAIN managers : managers'[i].net = managers[i].net
  BY DeleteNetworkInv DEF SameNets
<1>7. \A k \in DOMAIN list' : /\ managers'[list'[k]].net = managers[list'[k]].net
                              /\ \E l \in DOMAIN list : list[l] = list'[k]
  BY <1>5, <1>6, ListedIsKnown DEF LInv, Range
<1>8. ManagedOnce'
  <2> SUFFICES ASSUME NEW j \in DOMAIN list', NEW k \in DOMAIN list',
                      managers'[list'[j]].net = managers'[list'[k]].net
               PROVE  j = k
    BY DEF ManagedOnce
  <2>1. PICK l \in DOMAIN list, m \in DOMAIN list : list[l] = list'[j] /\ list[m] = list'[k]
    BY <1>7
  <2>2. l = m
    BY <1>7, <2>1 DEF SInv, ManagedOnce
  <2> QED BY <1>5, <2>1, <2>2 DEF IsInjective
<1>9. ManagedExist'
  BY <1>1, <1>7 DEF SInv, ManagedExist
<1>10. Consistent(calls[c])'
  <2>1. Head(<<n>>) = n
    OBVIOUS
  <2> QED BY <1>1, <1>5, <1>7, <2>1 DEF Consistent, Todo, Unmanaged, Starting
<1>11. OnIsListed'
  <2>1. \A i \in DOMAIN managers : managers'[i].on =>
           managers[i].on /\ (i \in Range(list) => managers[i].net # n)
    BY DeleteNetworkInv
  <2>2. \A i \in Range(list) : managers[i].net # n => i \in Range(list')
    BY DeleteNetworkList
  <2> QED BY <1>6, <2>1, <2>2 DEF SInv, OnIsListed
<1> QED BY <1>1, <1>4, <1>8, <1>9, <1>10, <1>11 DEF SInv

LEMMA StepS ==
    ASSUME OneCaller, LInv, SInv, [Next]_vars
    PROVE  SInv'
<1>1. CASE UNCHANGED vars
  BY <1>1 DEF vars, SInv, OnIsListed, ManagedOnce, ManagedExist, Consistent, Ready, Prepares,
              Unmanaged
<1>2. ASSUME NEW c \in Caller, Receive(c) PROVE SInv'
  BY <1>2, EnableS, DisableS, AddNetworkS, UpdateNetworkS, DeleteNetworkS DEF Receive
<1>3. ASSUME NEW c \in Caller, Serve(c) PROVE SInv'
  BY <1>3, EnableModuleS, InitiatePollingS, StageS, StartPollingS, ApplyUpdateS,
     SaveNetworkS, DeleteAtHostS DEF Serve
<1>4. ASSUME NEW i \in DOMAIN managers, Loop(i) PROVE SInv'
  BY <1>4, LoopS
<1>5. CASE Restart
  <2>1. /\ db' = db /\ DOMAIN list' = {} /\ DOMAIN managers' = {}
        /\ \A c \in Caller : calls'[c] = Nothing
    BY <1>5 DEF Restart
  <2> QED BY <2>1 DEF SInv, OnIsListed, ManagedOnce, ManagedExist, Consistent, Nothing, Todo,
                      Starting
<1> QED BY <1>1, <1>2, <1>3, <1>4, <1>5 DEF Next

\* When calls do not overlap: however often the module is enabled, disabled and
\* started anew, no network has two managers.
THEOREM OneManagerHolds == ASSUME OneCaller PROVE Spec => []OneManager
<1>1. LInv /\ SInv /\ [Next]_vars => LInv' /\ SInv'
  BY OneCaller, StepInv, StepS
<1> QED BY <1>1, InitInv, InitS, SInvSuffices, PTL DEF Spec

\* When calls do not overlap, deleteNetwork takes the manager of the network from the
\* slice it loops over, whichever place it has there, and no other.
THEOREM DeletedIsForgottenHolds == ASSUME OneCaller PROVE Spec => []DeletedIsForgotten
<1>1. LInv /\ SInv /\ [Next]_vars => LInv' /\ SInv'
  BY OneCaller, StepInv, StepS
<1> QED BY <1>1, InitInv, InitS, SInvSuffices, PTL DEF Spec

\* What gives a manager that is not, or no longer, in the list its point.
LEMMA UnderWay ==
    ASSUME OneCaller, LInv, SInv, Next, NEW i \in DOMAIN managers \cap DOMAIN managers',
           i \notin Range(list'), managers'[i].held
    PROVE  \/ i \notin Range(list) /\ managers[i].held
           \/ managers[i].loop \in {"drawn", "connect"}
           \/ i \in Range(list) /\ managers[i].check
<1> DEFINE Goal == \/ i \notin Range(list) /\ managers[i].held
                   \/ managers[i].loop \in {"drawn", "connect"}
                   \/ i \in Range(list) /\ managers[i].check
<1>1. CASE UNCHANGED <<list, managers>>
  BY <1>1
<1>2. ASSUME NEW c \in Caller, Receive(c) PROVE Goal
  <2>1. CASE Disable(c)
    BY <2>1, RetiredManagers DEF Disable, DisableStopping
  <2>2. CASE \E n \in Net : DeleteNetwork(c, n)
    <3>1. PICK n \in Net : DeleteNetwork(c, n)
      BY <2>2
    <3>2. CASE i \in Range(list) /\ managers[i].net = n
      BY <3>1, <3>2, DeleteNetworkInv
    <3>3. CASE i \in Range(list) /\ managers[i].net # n
      BY <3>1, <3>3, DeleteNetworkList
    <3>4. CASE i \notin Range(list)
      BY <3>1, <3>4, DeleteNetworkInv
    <3> QED BY <3>2, <3>3, <3>4
  <2> QED BY <1>1, <1>2, <2>1, <2>2 DEF Receive, Enable, AddNetwork, UpdateNetwork
<1>3. ASSUME NEW c \in Caller, Serve(c) PROVE Goal
  <2>1. CASE EnableModule(c)
    BY <2>1, RetiredManagers DEF EnableModule, EnableWith
  <2>2. CASE InitiatePolling(c)
    <3>1. PICK j \in Free :
             /\ ~managers'[j].held
             /\ managers' \in [(DOMAIN managers \ Garbage) \cup {j} -> Manager]
             /\ \A k \in DOMAIN managers \ Garbage : managers'[k] = managers[k]
             /\ j \notin DOMAIN managers \ Garbage /\ list' = Append(list, j)
      BY <2>2, NewManager
    <3>2. Range(list') = Range(list) \cup {j}
      BY <3>1, NewIsListed
    <3> QED BY <3>1, <3>2
  <2>3. CASE SetRates(c) \/ Rebuild(c) \/ StartPolling(c)
    <3>1. calls[c].man \in Range(list)
      BY <2>3 DEF SInv, Consistent, SetRates, Rebuild, StartPolling, At, Starting
    <3>2. list' = list /\ (managers[i].held \/ i = calls[c].man)
      BY <2>3, SetRatesInv, RebuildInv, StartPollingInv
    <3> QED BY <3>1, <3>2
  <2>4. CASE ApplyUpdate(c)
    BY <2>4, ApplyUpdateInv
  <2> QED BY <1>1, <1>3, <2>1, <2>2, <2>3, <2>4 DEF Serve, SaveNetwork, DeleteAtHost
<1>4. ASSUME NEW j \in DOMAIN managers, Loop(j) PROVE Goal
  <2>1. list' = list
    BY <1>4, LoopInv
  <2>2. CASE j # i
    BY <1>4, <2>1, <2>2, LoopInv
  <2>3. CASE j = i
    <3>1. \/ managers[i].held \/ managers[i].check
          \/ managers[i].loop \in {"drawn", "connect"}
      BY <1>4, <2>3, LoopInv
    <3>2. managers[i].check => i \in Range(list)
      BY DEF LInv, Known, SInv, OnIsListed
    <3> QED BY <2>1, <3>1, <3>2
  <2> QED BY <2>2, <2>3
<1>5. CASE Restart
  BY <1>5 DEF Restart
<1> QED BY <1>2, <1>3, <1>4, <1>5 DEF Next

\* When calls do not overlap: a manager that has left the list gets its point only
\* from a poll or a check of its queue that was under way when it left.
THEOREM OnlyUnderWayHolds == ASSUME OneCaller PROVE Spec => OnlyUnderWay
<1>1. LInv /\ SInv /\ [Next]_vars => LInv' /\ SInv'
  BY OneCaller, StepInv, StepS
<1>2. LInv /\ SInv /\ [Next]_vars =>
        [\A i \in DOMAIN managers \cap DOMAIN managers' :
            i \notin Range(list') /\ managers'[i].held =>
               \/ i \notin Range(list) /\ managers[i].held
               \/ managers[i].loop \in {"drawn", "connect"}
               \/ i \in Range(list) /\ managers[i].check]_vars
  BY OneCaller, UnderWay
<1> QED BY <1>1, <1>2, InitInv, InitS, PTL DEF Spec, OnlyUnderWay
=============================================================================
