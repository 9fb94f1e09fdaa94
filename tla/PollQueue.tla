------------------------------ MODULE PollQueue ------------------------------
(***************************************************************************)
(* The poll queue of one network (pollqueue/poll_queue.go): the priority   *)
(* queue all polls are drawn from, the standby list, and the unloader with *)
(* the point drawn next and the point that is out for polling; together    *)
(* with the completion of a poll (pollqueue/queue_loader.go).  Pure: each  *)
(* operator maps a queue to the queue after the call, or to the set of the *)
(* outcomes the call can have.                                             *)
(*                                                                         *)
(* The priority queue is a set: container/heap pops some least element     *)
(* (PollHeap has the array), and entry times order equals only to the      *)
(* second, so which of the most urgent points is popped is left open.      *)
(* The standby list counts the entries of each polling point: a removal    *)
(* moves the last entry into the gap, so which of several entries of one   *)
(* UUID is found first is left open.                                       *)
(*                                                                         *)
(* PP are the *PollingPoint objects: two of them may carry one point UUID. *)
(* PointsUpdatedWhilePolling is left out: no code ever inserts into it.    *)
(***************************************************************************)
EXTENDS WriteModes, FiniteSets

CONSTANTS Point,        \* point UUIDs
          Device,       \* device UUIDs
          PP,           \* polling point objects
          FFPointUUID,  \* [PP -> Point]
          FFDeviceUUID, \* [Point -> Device]
          Mode,         \* [Point -> Modes]
          NoPP,         \* nil *PollingPoint
          NoRow,        \* nil *model.Point
          Value         \* what a register can hold or be asked to hold

ASSUME UUIDAssumption == /\ FFPointUUID \in [PP -> Point]
                         /\ FFDeviceUUID \in [Point -> Device]
                         /\ Mode \in [Point -> Modes]
ASSUME NilAssumption == NoPP \notin PP /\ NoValue \notin Value

Priority == {"asap", "high", "normal", "low"}

\* iPriorityNum in Less
PriorityNum(p) == CASE p = "asap" -> 0 [] p = "high" -> 1
                    [] p = "normal" -> 2 [] p = "low" -> 3

\* The part of a point's row that polling reads or writes.
Row == [life : {"absent", "live", "deleted"}, enable : BOOLEAN,
        read : BOOLEAN, write : BOOLEAN, priority : Priority,
        wv : Value \cup {NoValue}, ov : Value \cup {NoValue}]

ASSUME NoRowAssumption == NoRow \notin Row

\* repoll: the polling points whose RepollTimer is set and running.
Queue == [heap : SUBSET PP, standby : [PP -> Nat],
          next : PP \cup {NoPP}, current : PP \cup {NoPP},
          removeCurrent : BOOLEAN, repoll : SUBSET PP,
          priority : [PP -> Priority]]

NewQueue == [heap |-> {}, standby |-> [o \in PP |-> 0], next |-> NoPP,
             current |-> NoPP, removeCurrent |-> FALSE, repoll |-> {},
             priority |-> [o \in PP |-> "normal"]]

Of(o, p) == o # NoPP /\ FFPointUUID[o] = p

InStandby(q, o) == q.standby[o] > 0

-----------------------------------------------------------------------------
\* The polling points heap.Pop may return.
MostUrgent(q) ==
    {o \in q.heap : \A x \in q.heap :
        PriorityNum(q.priority[o]) <= PriorityNum(q.priority[x])}

\* Mutant of SetNextPollPoint: the point is looked at, not popped.
SetNextPollPointPeeks(q) ==
    IF q.next # NoPP \/ q.heap = {} THEN {q}
    ELSE {[q EXCEPT !.next = o, !.repoll = @ \ {o}] : o \in MostUrgent(q)}

\* Mutant of SetNextPollPoint: when none waits, a resting point is taken before its time.
SetNextPollPointEarly(q) ==
    LET some == IF q.heap # {} THEN MostUrgent(q) ELSE {o \in PP : InStandby(q, o)} IN
    IF q.next # NoPP \/ some = {} THEN {q}
    ELSE {[q EXCEPT !.heap = @ \ {o}, !.standby[o] = 0, !.next = o, !.repoll = @ \ {o}] :
             o \in some}

SetNextPollPoint(q) ==
    IF q.next # NoPP \/ q.heap = {} THEN {q}
    ELSE {[q EXCEPT !.heap = @ \ {o}, !.next = o, !.repoll = @ \ {o}] :
             o \in MostUrgent(q)}

\* Mutant of GetNextPollingPoint: a draw from an empty queue changes nothing.
GetNextPollingPointKeeps(q) ==
    IF q.next = NoPP THEN SetNextPollPoint(q)
    ELSE SetNextPollPoint([q EXCEPT !.current = q.next, !.next = NoPP])

\* The polling point returned is q.next.
GetNextPollingPoint(q) ==
    SetNextPollPoint([q EXCEPT !.current = q.next, !.next = NoPP])

\* Mutant of AddToPriorityQueue: no search for the UUID first.
AddToPriorityQueueBlindly(q, o) == [q EXCEPT !.heap = @ \cup {o}]

AddToPriorityQueue(q, o) ==
    IF \E x \in q.heap : FFPointUUID[x] = FFPointUUID[o] THEN q
    ELSE [q EXCEPT !.heap = @ \cup {o}]

\* Mutant of AddToStandbyQueue: the re-poll timer is never armed.
AddToStandbyQueueUntimed(q, o, n, repoll) == [q EXCEPT !.standby[o] = @ + n]

\* The standby list takes n entries of o, with or without a re-poll timer.
AddToStandbyQueue(q, o, n, repoll) ==
    [q EXCEPT !.standby[o] = @ + n,
              !.repoll = IF repoll THEN @ \cup {o} ELSE @]

\* Mutant of RemoveFromStandbyQueue: the timer of what is removed runs on.
RemoveFromStandbyQueueTimed(q, p) ==
    LET found == {o \in PP : InStandby(q, o) /\ FFPointUUID[o] = p} IN
    IF found = {} THEN {[q |-> q, pp |-> NoPP]}
    ELSE {[q  |-> [q EXCEPT !.standby[o] = @ - 1], pp |-> o] : o \in found}

\* The removals return the queue and the polling point removed, or NoPP.
RemoveFromStandbyQueue(q, p) ==
    LET found == {o \in PP : InStandby(q, o) /\ FFPointUUID[o] = p} IN
    IF found = {} THEN {[q |-> q, pp |-> NoPP]}
    ELSE {[q  |-> [q EXCEPT !.standby[o] = @ - 1, !.repoll = @ \ {o}],
           pp |-> o] : o \in found}

RemoveFromHeap(q, o) == [q EXCEPT !.heap = @ \ {o}, !.repoll = @ \ {o}]

RemovePollingPointByPointUUID(q, p) ==
    LET queued == {o \in q.heap : FFPointUUID[o] = p} IN
    IF Of(q.current, p)
      THEN {[q |-> [q EXCEPT !.removeCurrent = TRUE], pp |-> q.current]}
    ELSE IF Of(q.next, p)
      THEN {[q |-> r, pp |-> q.next] :
               r \in SetNextPollPoint([q EXCEPT !.next = NoPP])}
    ELSE IF queued # {}
      THEN {[q |-> RemoveFromHeap(q, o), pp |-> o] : o \in queued}
    ELSE RemoveFromStandbyQueue(q, p)

\* Neither the next nor the current polling point is looked at.
RemovePollingPointByDeviceUUID(q, d) ==
    LET gone == {o \in PP : /\ FFDeviceUUID[FFPointUUID[o]] = d
                            /\ o \in q.heap \/ InStandby(q, o)} IN
    [q EXCEPT !.heap    = @ \ gone,
              !.standby = [o \in PP |-> IF o \in gone THEN 0 ELSE @[o]],
              !.repoll  = @ \ gone]

\* GetPollingPointByPointUUID(p) # nil
IsQueued(q, p) ==
    \/ Of(q.current, p) \/ Of(q.next, p)
    \/ \E o \in PP : FFPointUUID[o] = p /\ (o \in q.heap \/ InStandby(q, o))

\* PriorityQueue.EmptyQueue and StandbyPollingPoints.EmptyQueue.
EmptyLists(q) ==
    [q EXCEPT !.heap = {}, !.standby = [o \in PP |-> 0],
              !.repoll = {o \in @ : o \notin q.heap /\ ~InStandby(q, o)}]

\* removeCurrent is left as it is.
EmptyQueue(q) ==
    [EmptyLists(q) EXCEPT !.next = NoPP, !.current = NoPP,
                          !.repoll = @ \ {q.next, q.current}]

Start(q) ==
    SetNextPollPoint([q EXCEPT !.next = NoPP, !.current = NoPP,
                               !.removeCurrent = FALSE])

-----------------------------------------------------------------------------
\* The completion c of polling point o with the row pt (NoRow: a nil point).
\* "panic": the nil CurrentPollPoint is dereferenced.  "save": the flags are not
\* those of pt, so the row is written back.
PollingPointCompleteNotification(q, o, pt, c) ==
    LET q0 == [q EXCEPT !.repoll = @ \ {o}]
        dropped == [q |-> [q0 EXCEPT !.removeCurrent = FALSE],
                    panic |-> FALSE, save |-> FALSE, row |-> pt] IN
    IF pt = NoRow
      THEN dropped
    ELSE IF q.removeCurrent /\ q.current = NoPP
      THEN [q |-> q0, panic |-> TRUE, save |-> FALSE, row |-> pt]
    ELSE IF q.removeCurrent /\ Of(q.current, FFPointUUID[o])
      THEN dropped
    ELSE
      LET d  == Dispose(Mode[FFPointUUID[o]], pt, c)
          q1 == IF c.resetPriority
                  THEN [q0 EXCEPT !.priority[o] = pt.priority] ELSE q0
          q2 == IF d.queue THEN AddToPriorityQueue(q1, o) ELSE q1
          q3 == AddToStandbyQueue(q2, o, d.standby, d.repoll)
      IN [q     |-> [q3 EXCEPT !.current = NoPP],
          panic |-> FALSE,
          save  |-> d.read # pt.read \/ d.write # pt.write,
          row   |-> [pt EXCEPT !.read = d.read, !.write = d.write]]
=============================================================================
