------------------------------ MODULE PollHeap ------------------------------
(***************************************************************************)
(* The priority queue as it is kept (pollqueue/priority_queue.go): an      *)
(* array handled by Go's container/heap.  It implements UrgencyOrder.      *)
(* Every call holds the queue's mutex, so a call is a step.                *)
(***************************************************************************)
EXTENDS Naturals, Sequences, SequencesExt

CONSTANTS Obj, UUID, Device, Rank, None,
          MaxTime       \* bound: seconds

ASSUME HeapAssumption == /\ Rank \subseteq Nat /\ MaxTime \in Nat
                         /\ DOMAIN UUID = Obj /\ DOMAIN Device = Obj
                         /\ None \notin Obj

VARIABLES priorityQueue, \* the array
          rank, entry,   \* PollPriority and QueueEntryTime of each polling point
          clock, popped

vars == <<priorityQueue, rank, entry, clock, popped>>

-----------------------------------------------------------------------------
\* Mutant of Less: the time of the entry does not count.
LessByPriority(q, i, j, r, e) == r[q[i]] < r[q[j]]

\* Less, for the keys r and e.
Less(q, i, j, r, e) ==
    r[q[i]] < r[q[j]] \/ (r[q[i]] = r[q[j]] /\ e[q[i]] < e[q[j]])

Swap(q, i, j) == [q EXCEPT ![i] = q[j], ![j] = q[i]]

\* container/heap, with indices from 1: the element at j rises past its parents ...
Rises(q, j, r, e) == j > 1 /\ Less(q, j, j \div 2, r, e)
Up(q, j, r, e) ==
    LET up[s \in {t \in Seq(Obj) \X Nat : t[2] <= Len(t[1])}] ==
          IF Rises(s[1], s[2], r, e)
          THEN up[<<Swap(s[1], s[2], s[2] \div 2), s[2] \div 2>>] ELSE s[1]
    IN up[<<q, j>>]

\* ... or sinks below its lesser child, within the first n elements.
Child(q, i, n, r, e) ==
    IF 2 * i < n /\ Less(q, 2 * i + 1, 2 * i, r, e) THEN 2 * i + 1 ELSE 2 * i
Sinks(q, i, n, r, e) == 2 * i <= n /\ Less(q, Child(q, i, n, r, e), i, r, e)
Down(q, i, n, r, e) ==
    LET down[s \in {t \in Seq(Obj) \X (Nat \ {0}) : n <= Len(t[1])}] ==
          IF Sinks(s[1], s[2], n, r, e)
          THEN LET c == Child(s[1], s[2], n, r, e) IN down[<<Swap(s[1], s[2], c), c>>]
          ELSE s[1]
    IN down[<<q, i>>]

HeapPush(q, o, r, e) == Up(Append(q, o), Len(q) + 1, r, e)

\* Sink or, if nothing sinks, rise.
Settle(q, i, n, r, e) ==
    LET down == Down(q, i, n, r, e) IN IF down # q THEN down ELSE Up(q, i, r, e)

HeapFix(q, i, r, e) == Settle(q, i, Len(q), r, e)

HeapPop(q, r, e) == Down(Swap(q, 1, Len(q)), 1, Len(q) - 1, r, e)

\* Mutant of HeapRemove: the gap is closed as in the standby list.
HeapRemoveMovesLast(q, i, r, e) == Front(Swap(q, i, Len(q)))

HeapRemove(q, i, r, e) ==
    LET n == Len(q) IN
    Front(IF i = n THEN q ELSE Settle(Swap(q, i, n), i, n - 1, r, e))

\* The index of the polling point of UUID u, or 0.
IndexOf(q, u) == SelectInSeq(q, LAMBDA o : UUID[o] = u)

-----------------------------------------------------------------------------
Init == /\ priorityQueue = << >> /\ popped = None /\ clock = 0
        /\ rank \in [Obj -> Rank] /\ entry = [o \in Obj |-> 0]

\* The clock of time.Now().Unix().
Tick == /\ clock < MaxTime /\ clock' = clock + 1
        /\ UNCHANGED <<priorityQueue, rank, entry, popped>>

\* A polling point that is not queued enters with a priority set by its caller.
AddPollingPoint(o) ==
    /\ IndexOf(priorityQueue, UUID[o]) = 0
    /\ \E p \in Rank : rank' = [rank EXCEPT ![o] = p]
    /\ entry' = [entry EXCEPT ![o] = clock]
    /\ priorityQueue' = HeapPush(priorityQueue, o, rank', entry')
    /\ UNCHANGED <<clock, popped>>

GetNextPollingPoint ==
    /\ priorityQueue # << >>
    /\ popped' = Head(priorityQueue)
    /\ priorityQueue' = Front(HeapPop(priorityQueue, rank, entry))
    /\ UNCHANGED <<rank, entry, clock>>

RemovePollingPointByPointUUID(u) ==
    LET i == IndexOf(priorityQueue, u) IN
    /\ i # 0
    /\ priorityQueue' = HeapRemove(priorityQueue, i, rank, entry)
    /\ popped' = None /\ UNCHANGED <<rank, entry, clock>>

\* The first one found is removed and the search starts over.
IndexOfDevice(q, d) == SelectInSeq(q, LAMBDA o : Device[o] = d)
RemoveAll(q, d, r, e) ==
    LET removeAll[s \in Seq(Obj)] ==
          IF IndexOfDevice(s, d) = 0 THEN s
          ELSE removeAll[HeapRemove(s, IndexOfDevice(s, d), r, e)]
    IN removeAll[q]

RemovePollingPointByDeviceUUID(d) ==
    /\ priorityQueue' = RemoveAll(priorityQueue, d, rank, entry)
    /\ popped' = None /\ UNCHANGED <<rank, entry, clock>>

UpdatePollingPointByPointUUID(u) ==
    LET i == IndexOf(priorityQueue, u) IN
    /\ i # 0
    /\ \E p \in Rank : rank' = [rank EXCEPT ![priorityQueue[i]] = p]
    /\ priorityQueue' = HeapFix(priorityQueue, i, rank', entry)
    /\ UNCHANGED <<entry, clock, popped>>

EmptyQueue == /\ priorityQueue' = << >>
              /\ popped' = None /\ UNCHANGED <<rank, entry, clock>>

Next == \/ Tick \/ GetNextPollingPoint \/ EmptyQueue
        \/ \E o \in Obj : \/ AddPollingPoint(o)
                          \/ RemovePollingPointByPointUUID(UUID[o])
                          \/ UpdatePollingPointByPointUUID(UUID[o])
                          \/ RemovePollingPointByDeviceUUID(Device[o])

Spec == Init /\ [][Next]_vars
-----------------------------------------------------------------------------
\* The array is a heap after every call - a removal from the middle and a change
\* of a key included (priority_queue.go:97, priority_queue.go:167).
HeapOrdered == \A i \in 2..Len(priorityQueue) :
    ~Less(priorityQueue, i, i \div 2, rank, entry)

\* What the callers rely on: the polling point given out is the most urgent one
\* that waits, no UUID waits twice, and a call takes away what it names only.
Order == INSTANCE UrgencyOrder WITH waiting <- ToSet(priorityQueue)
Urgent == Order!Spec
=============================================================================
