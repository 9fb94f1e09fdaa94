---------------------------- MODULE LockupTimers ----------------------------
(***************************************************************************)
(* The lockup alert of a network: a timer per polling point, armed by the  *)
(* AddToPriorityQueue of the poll manager before the queue accepts the     *)
(* point, stopped by resetPollingPointTimers (pollqueue/queue_loader.go,   *)
(* pollqueue/poll_point.go), and the alert it raises in the statistics,    *)
(* which StartPolling resets (pollqueue/polling_statistics.go).            *)
(*                                                                         *)
(* The queue is PollQueue's.  Points are read_only, the mode whose flags   *)
(* stay as they are, and of one priority; the rows do not change, and what *)
(* a handler does to the queue is one step of it.                          *)
(***************************************************************************)
EXTENDS PollQueue

CONSTANTS Calls,     \* the calls that occur
          MaxCalls   \* bound: calls

ASSUME LockupAssumption ==
    /\ \A p \in Point : Mode[p] = "read_only"
    /\ Calls \subseteq {"update", "disable", "write", "restart", "check"}
    /\ MaxCalls \in Nat

VARIABLES queue,    \* pm.PollQueue
          firing,   \* polling points whose re-poll callback is about to run
          orphans,  \* polling points with a running re-poll timer they do not refer to
          polling,  \* the polling point in pollSingleNetwork
          stopped,  \* between StopPolling and StartPolling
          lockup,   \* polling points whose LockupAlertTimer runs
          stray,    \* a lockup timer runs that no polling point refers to
          alert,    \* NormalPriorityLockupAlert
          twice,    \* ghost: queued polling points whose point was elsewhere too
          calls

vars == <<queue, firing, orphans, polling, stopped, lockup, stray, alert, twice, calls>>

PointRow == [life |-> "live", enable |-> TRUE, read |-> TRUE, write |-> FALSE,
             priority |-> "normal", wv |-> NoValue, ov |-> NoValue]

Completes(writeSuccess, readSuccess, pointUpdate, retryType) ==
    [writeSuccess |-> writeSuccess, readSuccess |-> readSuccess, pointUpdate |-> pointUpdate,
     resetPriority |-> TRUE, retryType |-> retryType, notRequired |-> FALSE]

Init ==
    /\ queue = NewQueue /\ firing = {} /\ orphans = {} /\ polling = NoPP
    /\ stopped = TRUE
    /\ lockup = {} /\ stray = FALSE /\ alert = FALSE /\ twice = {}
    /\ calls = MaxCalls

Used == {o \in PP : InStandby(queue, o)} \cup queue.heap \cup queue.repoll \cup firing
          \cup orphans \cup {queue.next, queue.current, polling}
New(p) == {o \in PP : FFPointUUID[o] = p} \ Used

-----------------------------------------------------------------------------
\* The timers that are left when the queue becomes q: what leaves the priority queue
\* or the standby list has its timers stopped.
Left(timers, q) ==
    {o \in timers : ~(o \in queue.heap \ q.heap) /\ q.standby[o] >= queue.standby[o]}

\* Mutant of Armed: the timer is armed only when it is not armed yet.
ArmedOnce(timers, o) ==
    /\ lockup' = IF polling = o THEN timers ELSE timers \cup {o}
    /\ stray' = stray

\* AddToPriorityQueue of the poll manager, whether or not the queue takes o: the
\* field refers to the new timer.
Armed(timers, o) ==
    /\ lockup' = timers \cup {o}
    /\ stray' = (stray \/ o \in timers)

\* The completion c adds o to the priority queue.
Taken(q, o, row, c) ==
    /\ row # NoRow
    /\ ~(q.removeCurrent /\ Of(q.current, FFPointUUID[o]))
    /\ Dispose(Mode[FFPointUUID[o]], row, c).queue

\* PollingPointCompleteNotification of o.
Complete(q, o, row, c) ==
    LET n == PollingPointCompleteNotification(q, o, row, c)
        timers == Left(lockup, q) \ {o}
    IN /\ ~n.panic
       /\ queue' = n.q
       /\ IF Taken(q, o, row, c) THEN Armed(timers, o) ELSE lockup' = timers /\ stray' = stray

\* Of a new object, made where garbage was whose timer may still run.
CompleteNew(q, p, c) ==
    /\ New(p) # {}
    /\ LET o == CHOOSE o \in New(p) : TRUE
           n == PollingPointCompleteNotification(q, o, PointRow, c)
           timers == Left(lockup, q)
       IN /\ ~n.panic
          /\ queue' = n.q
          /\ lockup' = (timers \ {o}) \cup (IF Taken(q, o, PointRow, c) THEN {o} ELSE {})
          /\ stray' = (stray \/ o \in timers)

\* A point is next, out - or was, and CurrentPollPoint is stale - or in the standby list.
AlsoElsewhere(p) ==
    \/ \E o \in {queue.next, queue.current, polling} : Of(o, p)
    \/ \E o \in PP : InStandby(queue, o) /\ Of(o, p)

Remembered == twice' = {o \in queue'.heap : o \in twice \/ AlsoElsewhere(FFPointUUID[o])'}
Others == UNCHANGED <<stopped, alert, calls>> /\ Remembered

\* A point is drawn, and the next one leaves the priority queue; the loop goes on while
\* polling is restarted.
Draw ==
    /\ polling = NoPP
    /\ queue' \in GetNextPollingPoint(queue)
    /\ polling' = queue.next
    /\ lockup' = Left(lockup, queue')
    /\ UNCHANGED <<firing, orphans, stray>> /\ Others

Finish ==
    /\ polling # NoPP
    /\ \E row \in {PointRow, NoRow}, ok \in BOOLEAN, retry \in {"normal", "immediate", "delayed"} :
          Complete(queue, polling, row, Completes(FALSE, ok, FALSE, retry))
    /\ polling' = NoPP
    /\ UNCHANGED <<firing, orphans>> /\ Others

RepollFires(o) ==
    /\ o \in (queue.repoll \cup orphans) \ firing
    /\ IF o \in queue.repoll
         THEN queue' = [queue EXCEPT !.repoll = @ \ {o}] /\ orphans' = orphans
         ELSE queue' = queue /\ orphans' = orphans \ {o}
    /\ firing' = firing \cup {o}
    /\ UNCHANGED <<polling, lockup, stray>> /\ Others

\* The callback adds o though o is no longer in the standby list.
RepollCallback(o) ==
    /\ o \in firing
    /\ firing' = firing \ {o}
    /\ orphans' = IF o \in queue.repoll THEN orphans \cup {o} ELSE orphans
    /\ \E r \in RemoveFromStandbyQueue([queue EXCEPT !.repoll = @ \ {o}], FFPointUUID[o]) :
          /\ queue' = AddToPriorityQueue(r.q, o)
          /\ Armed(Left(lockup, r.q), o)
    /\ UNCHANGED polling /\ Others

-----------------------------------------------------------------------------
Call(op) == op \in Calls /\ calls > 0 /\ calls' = calls - 1 /\ ~stopped
Elsewhere == UNCHANGED <<firing, orphans, polling, alert>> /\ Remembered

UpdatePoint(p) ==
    /\ Call("update")
    /\ \E r \in RemovePollingPointByPointUUID(queue, p) :
          CompleteNew(r.q, p, Completes(FALSE, FALSE, TRUE, "normal"))
    /\ UNCHANGED stopped /\ Elsewhere

\* The update that disables the point, and its deletion.
DisablePoint(p) ==
    /\ Call("disable")
    /\ \E r \in RemovePollingPointByPointUUID(queue, p) :
          queue' = r.q /\ lockup' = Left(lockup, r.q)
    /\ UNCHANGED <<stray, stopped>> /\ Elsewhere

WritePoint(p) ==
    /\ Call("write")
    /\ \E r \in RemovePollingPointByPointUUID(queue, p) :
          /\ r.pp # NoPP
          /\ Complete(r.q, r.pp, PointRow, Completes(FALSE, FALSE, TRUE, "immediate"))
    /\ UNCHANGED stopped /\ Elsewhere

\* The queue checker finds the point nowhere.
CheckPoint(p) ==
    /\ "check" \in Calls /\ ~stopped /\ ~IsQueued(queue, p)
    /\ CompleteNew(queue, p, Completes(FALSE, FALSE, TRUE, "normal"))
    /\ UNCHANGED <<stopped, calls>> /\ Elsewhere

\* EmptyQueue resets the polling points that are next and out as well.
Emptied(timers) == Left(timers, EmptyQueue(queue)) \ {queue.next, queue.current}

StopPolling ==
    /\ Call("restart")
    /\ queue' = EmptyQueue(queue)
    /\ lockup' = Emptied(lockup)
    /\ stopped' = TRUE
    /\ UNCHANGED stray /\ Elsewhere

\* RebuildPollingQueue, in one step, and StartPollingStatistics.
StartPolling ==
    /\ stopped /\ \A p \in Point : New(p) # {}
    /\ LET fresh == {CHOOSE o \in New(p) : TRUE : p \in Point}
           q == [EmptyQueue(queue) EXCEPT !.heap = fresh]
       IN \E r \in Start(q) :
             /\ queue' = r
             /\ lockup' = (Emptied(lockup) \ fresh) \cup (fresh \cap r.heap)
             /\ stray' = (stray \/ fresh \cap Emptied(lockup) # {})
    /\ stopped' = FALSE /\ alert' = FALSE
    /\ UNCHANGED <<firing, orphans, polling, calls>> /\ Remembered

\* MakeLockupTimerFunc's function.
LockupExpires ==
    /\ \/ \E o \in lockup : lockup' = lockup \ {o} /\ stray' = stray
       \/ stray /\ stray' = FALSE /\ lockup' = lockup
    /\ alert' = TRUE
    /\ UNCHANGED <<queue, firing, orphans, polling, stopped, twice, calls>>

Next == \/ Draw \/ Finish \/ StopPolling \/ StartPolling \/ LockupExpires
        \/ \E o \in PP : RepollFires(o) \/ RepollCallback(o)
        \/ \E p \in Point : UpdatePoint(p) \/ DisablePoint(p) \/ WritePoint(p) \/ CheckPoint(p)

Spec == Init /\ [][Next]_vars
-----------------------------------------------------------------------------
\* A point that waits in the priority queue, and since it came there nowhere else, is
\* watched or the alert is raised: when polling locks up it cannot go unnoticed
\* (queue_loader.go:250, poll_manager.go:45).  Of a point that is in two places the timer is
\* stopped by whichever place it leaves first.
QueuedIsWatched ==
    alert \/ \A o \in queue.heap \ twice : \E x \in lockup : FFPointUUID[x] = FFPointUUID[o]
=============================================================================
