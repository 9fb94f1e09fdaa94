---------------------------- MODULE UrgencyOrder ----------------------------
(***************************************************************************)
(* What the priority queue of a network promises to its callers: it holds  *)
(* at most one polling point of each UUID, and what it gives out next is   *)
(* the most urgent of those that wait - the highest priority, and within   *)
(* it the one that has waited longest, to the second.                      *)
(***************************************************************************)
EXTENDS Naturals

CONSTANTS Obj,     \* polling points
          UUID,    \* [Obj -> their point UUIDs]
          Device,  \* [Obj -> their device UUIDs]
          Rank,    \* priorities, 0 the most urgent
          None     \* no polling point

VARIABLES waiting, \* the polling points in the queue
          rank,    \* [Obj -> Rank]
          entry,   \* [Obj -> the second they entered]
          clock,   \* the current second
          popped   \* the polling point last given out

vars == <<waiting, rank, entry, clock, popped>>

Precedes(x, y) ==
    rank[x] < rank[y] \/ (rank[x] = rank[y] /\ entry[x] <= entry[y])

Init == /\ waiting = {} /\ popped = None /\ clock = 0
        /\ rank \in [Obj -> Rank] /\ entry = [o \in Obj |-> 0]

Tick == clock' = clock + 1 /\ UNCHANGED <<waiting, rank, entry, popped>>

Add(o) ==
    /\ \A x \in waiting : UUID[x] # UUID[o]
    /\ waiting' = waiting \cup {o}
    /\ entry' = [entry EXCEPT ![o] = clock]
    /\ \E r \in Rank : rank' = [rank EXCEPT ![o] = r]
    /\ UNCHANGED <<clock, popped>>

GiveOut ==
    /\ \E o \in waiting : /\ \A x \in waiting : Precedes(o, x)
                          /\ waiting' = waiting \ {o} /\ popped' = o
    /\ UNCHANGED <<rank, entry, clock>>

\* A point, a device or everything is taken out.
Withdraw(S) == /\ waiting' = waiting \ S
               /\ popped' = None /\ UNCHANGED <<rank, entry, clock>>

Promote(o) == /\ o \in waiting
              /\ \E r \in Rank : rank' = [rank EXCEPT ![o] = r]
              /\ UNCHANGED <<waiting, entry, clock, popped>>

Next == \/ Tick \/ GiveOut \/ Withdraw(Obj)
        \/ \E o \in Obj : \/ Add(o) \/ Promote(o)
                          \/ Withdraw({x \in Obj : UUID[x] = UUID[o]})
                          \/ Withdraw({x \in Obj : Device[x] = Device[o]})

Spec == Init /\ [][Next]_vars
=============================================================================
