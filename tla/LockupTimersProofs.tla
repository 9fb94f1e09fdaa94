------------------------- MODULE LockupTimersProofs -------------------------
(***************************************************************************)
(* The lockup alert, for every number of points, polling points and calls. *)
(***************************************************************************)
EXTENDS LockupTimers, PollQueueProofs

-----------------------------------------------------------------------------
\* What waits alone has a timer of its own, or the alert is raised.
Watched == \A o \in queue.heap \ twice :
               ~AlsoElsewhere(FFPointUUID[o]) /\ (alert \/ o \in lockup)

LockupInv == /\ Sound(queue) /\ Watched
             /\ polling \in PP \cup {NoPP} /\ firing \subseteq PP /\ orphans \subseteq PP

-----------------------------------------------------------------------------
(* What waits after an operation of the queue. *)

LEMMA SetNextPollPointHeap ==
  ASSUME NEW q, NEW r \in SetNextPollPoint(q), q \in Queue
  PROVE  r.heap \subseteq q.heap
<1>1. CASE q.next # NoPP \/ q.heap = {}
  BY <1>1 DEF SetNextPollPoint
<1>2. CASE ~(q.next # NoPP \/ q.heap = {})
  <2>1. PICK o \in MostUrgent(q) :
           r = [q EXCEPT !.heap = @ \ {o}, !.next = o, !.repoll = @ \ {o}]
    BY <1>2 DEF SetNextPollPoint
  <2> QED BY <2>1 DEF Queue
<1> QED BY <1>1, <1>2

LEMMA StandbyRemovalHeap ==
  ASSUME NEW q, NEW p, NEW r \in RemoveFromStandbyQueue(q, p), q \in Queue
  PROVE  /\ r.q.heap = q.heap
         /\ r.pp # NoPP => FFPointUUID[r.pp] = p /\ InStandby(q, r.pp)
<1> DEFINE found == {o \in PP : InStandby(q, o) /\ FFPointUUID[o] = p}
<1>1. CASE found = {}
  <2>1. r = [q |-> q, pp |-> NoPP]
    BY <1>1 DEF RemoveFromStandbyQueue
  <2> QED BY <2>1
<1>2. CASE found # {}
  <2>1. PICK o \in found :
           r = [q |-> [q EXCEPT !.standby[o] = @ - 1, !.repoll = @ \ {o}], pp |-> o]
    BY <1>2 DEF RemoveFromStandbyQueue
  <2> QED BY <2>1 DEF Queue
<1> QED BY <1>1, <1>2

LEMMA RemovalHeap ==
  ASSUME NEW q, NEW p, NEW r \in RemovePollingPointByPointUUID(q, p), q \in Queue
  PROVE  /\ r.q.heap \subseteq q.heap
         /\ r.pp # NoPP => /\ FFPointUUID[r.pp] = p
                           /\ r.pp \in r.q.heap => \/ Of(q.current, p) \/ Of(q.next, p)
                                                   \/ InStandby(q, r.pp)
<1>1. CASE Of(q.current, p)
  <2>1. r = [q |-> [q EXCEPT !.removeCurrent = TRUE], pp |-> q.current]
    BY <1>1 DEF RemovePollingPointByPointUUID
  <2> QED BY <1>1, <2>1 DEF Of, Queue
<1>2. CASE ~Of(q.current, p) /\ Of(q.next, p)
  <2>1. PICK s \in SetNextPollPoint([q EXCEPT !.next = NoPP]) : r = [q |-> s, pp |-> q.next]
    BY <1>2 DEF RemovePollingPointByPointUUID
  <2>2. [q EXCEPT !.next = NoPP] \in Queue /\ [q EXCEPT !.next = NoPP].heap = q.heap
    BY DEF Queue
  <2>3. s.heap \subseteq q.heap
    BY <2>2, SetNextPollPointHeap
  <2> QED BY <1>2, <2>1, <2>3 DEF Of
<1> DEFINE queued == {o \in q.heap : FFPointUUID[o] = p}
<1>3. CASE ~Of(q.current, p) /\ ~Of(q.next, p) /\ queued # {}
  <2>1. PICK o \in queued : r = [q |-> RemoveFromHeap(q, o), pp |-> o]
    BY <1>3 DEF RemovePollingPointByPointUUID
  <2> QED BY <2>1 DEF RemoveFromHeap, Queue
<1>4. CASE ~Of(q.current, p) /\ ~Of(q.next, p) /\ queued = {}
  <2>1. r \in RemoveFromStandbyQueue(q, p)
    BY <1>4 DEF RemovePollingPointByPointUUID
  <2> QED BY <2>1, StandbyRemovalHeap
<1> QED BY <1>1, <1>2, <1>3, <1>4

LEMMA NotificationHeap ==
  ASSUME NEW q, q \in Queue, NEW o \in PP, NEW row, NEW c
  PROVE  LET n == PollingPointCompleteNotification(q, o, row, c) IN
         ~n.panic => /\ n.q.heap \subseteq q.heap \cup {o}
                     /\ o \in n.q.heap => o \in q.heap \/ Taken(q, o, row, c)
<1> DEFINE n == PollingPointCompleteNotification(q, o, row, c)
           d == Dispose(Mode[FFPointUUID[o]], row, c)
           q0 == [q EXCEPT !.repoll = @ \ {o}]
           q1 == IF c.resetPriority THEN [q0 EXCEPT !.priority[o] = row.priority] ELSE q0
           q2 == IF d.queue THEN AddToPriorityQueue(q1, o) ELSE q1
           out == q.removeCurrent /\ Of(q.current, FFPointUUID[o])
<1>1. CASE row = NoRow \/ out
  <2>1. n.panic \/ n.q = [q0 EXCEPT !.removeCurrent = FALSE]
    BY <1>1 DEF PollingPointCompleteNotification, Of
  <2> QED BY <2>1 DEF Queue
<1>2. CASE row # NoRow /\ ~out /\ ~n.panic
  <2>1. n.q = [AddToStandbyQueue(q2, o, d.standby, d.repoll) EXCEPT !.current = NoPP]
    <3> HIDE DEF d, q1, q2
    <3>1. ~(q.removeCurrent /\ q.current = NoPP)
      BY <1>2 DEF PollingPointCompleteNotification
    <3> QED BY <1>2, <3>1 DEF PollingPointCompleteNotification, d, q1, q2
  <2>2. q1.heap = q.heap
    BY DEF Queue
  <2>3. /\ q2.heap \subseteq q.heap \cup {o}
        /\ o \in q2.heap => o \in q.heap \/ d.queue
    <3> HIDE DEF q1, d
    <3> QED BY <2>2 DEF AddToPriorityQueue
  <2>4. n.q.heap = q2.heap
    <3> HIDE DEF q2, d
    <3> QED BY <2>1 DEF AddToStandbyQueue
  <2> QED BY <1>2, <2>3, <2>4 DEF Taken
<1> QED BY <1>1, <1>2

-----------------------------------------------------------------------------
\* What waits alone before and after an operation keeps its timer.
LEMMA TimerStays ==
  ASSUME LockupInv, NEW q \in Queue, NEW o \in queue.heap \cap q.heap, o \notin twice
  PROVE  alert \/ o \in Left(lockup, q)
<1>1. o \in PP /\ queue.standby \in [PP -> Nat] /\ q.standby \in [PP -> Nat]
  BY DEF LockupInv, Sound, Queue
<1>2. ~InStandby(queue, o)
  BY <1>1, NilAssumption DEF LockupInv, Watched, AlsoElsewhere, Of
<1>3. queue.standby[o] = 0
  BY <1>1, <1>2 DEF InStandby
<1> QED BY <1>1, <1>3 DEF LockupInv, Watched, Left

LEMMA WatchedAgain ==
  ASSUME Remembered, Sound(queue)', polling' \in PP \cup {NoPP},
         firing' \subseteq PP, orphans' \subseteq PP,
         \A o \in queue'.heap \ twice : alert' \/ o \in lockup'
  PROVE  LockupInv'
BY DEF Remembered, LockupInv, Watched

\* No operation but the addition of o brings anything into the queue.
LEMMA CompleteWatched ==
  ASSUME LockupInv, NEW q, Sound(q), q.heap \subseteq queue.heap,
         NEW o \in PP, o \in q.heap => o \in twice,
         NEW row \in Row \cup {NoRow}, NEW c \in Completion, Complete(q, o, row, c)
  PROVE  /\ Sound(queue')
         /\ \A x \in queue'.heap \ twice : alert \/ x \in lockup'
<1> DEFINE n == PollingPointCompleteNotification(q, o, row, c)
<1>1. ~n.panic /\ queue' = n.q /\ q \in Queue
  BY DEF Complete, Sound
<1>2. Sound(n.q)
  BY NotificationSound
<1>3. /\ n.q.heap \subseteq q.heap \cup {o}
      /\ o \in n.q.heap => o \in q.heap \/ Taken(q, o, row, c)
  BY <1>1, NotificationHeap
<1>4. /\ Left(lockup, q) \ {o} \subseteq lockup'
      /\ Taken(q, o, row, c) => o \in lockup'
  BY DEF Complete, Armed
<1>5. ASSUME NEW x \in queue'.heap \ twice
      PROVE  alert \/ x \in lockup'
  <2>1. CASE x = o
    BY <2>1, <1>1, <1>3, <1>4
  <2>2. CASE x # o
    <3>1. x \in q.heap \cap queue.heap
      BY <2>2, <1>1, <1>3
    <3> QED BY <3>1, <2>2, <1>1, <1>4, TimerStays
  <2> QED BY <2>1, <2>2
<1> QED BY <1>1, <1>2, <1>5

LEMMA CompleteNewWatched ==
  ASSUME LockupInv, NEW q, Sound(q), q.heap \subseteq queue.heap,
         NEW p \in Point, NEW c \in Completion, CompleteNew(q, p, c)
  PROVE  /\ Sound(queue')
         /\ \A x \in queue'.heap \ twice : alert \/ x \in lockup'
<1> DEFINE o == CHOOSE o \in New(p) : TRUE
           n == PollingPointCompleteNotification(q, o, PointRow, c)
<1>1. o \in PP /\ o \notin queue.heap
  BY DEF CompleteNew, New, Used
<1> HIDE DEF o
<1>2. /\ ~n.panic /\ queue' = n.q /\ q \in Queue
      /\ lockup' = (Left(lockup, q) \ {o}) \cup
                     (IF Taken(q, o, PointRow, c) THEN {o} ELSE {})
  BY DEF CompleteNew, Sound, o
<1>3. PointRow \in Row
  BY DEF PointRow, Row, Priority
<1>4. Sound(n.q)
  BY <1>1, <1>3, NotificationSound
<1>5. /\ n.q.heap \subseteq q.heap \cup {o}
      /\ o \in n.q.heap => o \in q.heap \/ Taken(q, o, PointRow, c)
  BY <1>1, <1>2, NotificationHeap
<1>6. ASSUME NEW x \in queue'.heap \ twice
      PROVE  alert \/ x \in lockup'
  <2>1. CASE x = o
    BY <2>1, <1>1, <1>2, <1>5
  <2>2. CASE x # o
    <3>1. x \in q.heap \cap queue.heap
      BY <2>2, <1>2, <1>5
    <3> QED BY <3>1, <2>2, <1>2, TimerStays
  <2> QED BY <2>1, <2>2
<1> QED BY <1>2, <1>4, <1>6

LEMMA CompletesType ==
  ASSUME NEW w \in BOOLEAN, NEW r \in BOOLEAN, NEW u \in BOOLEAN,
         NEW retry \in {"normal", "immediate", "delayed"}
  PROVE  Completes(w, r, u, retry) \in Completion /\ PointRow \in Row
<1>1. Completes(w, r, u, retry) \in Completion
  BY DEF Completes, Completion, Retries
<1>2. PointRow \in Row
  BY DEF PointRow, Row, Priority
<1> QED BY <1>1, <1>2

-----------------------------------------------------------------------------
LEMMA InitWatched == Init => LockupInv
BY NewQueueSound DEF Init, LockupInv, Watched, NewQueue

LEMMA DrawWatched == ASSUME LockupInv, Draw PROVE LockupInv'
<1>1. queue' \in GetNextPollingPoint(queue) /\ queue \in Queue
  BY DEF Draw, LockupInv, Sound
<1>2. Sound(queue')
  BY <1>1, GetNextPollingPointSound DEF LockupInv
<1>3. queue'.heap \subseteq queue.heap
  <2> DEFINE drawn == [queue EXCEPT !.current = queue.next, !.next = NoPP]
  <2>1. drawn \in Queue /\ drawn.heap = queue.heap
    BY <1>1 DEF Queue
  <2> QED BY <1>1, <2>1, SetNextPollPointHeap DEF GetNextPollingPoint
<1>4. \A x \in queue'.heap \ twice : alert' \/ x \in lockup'
  <2>1. lockup' = Left(lockup, queue') /\ alert' = alert /\ queue' \in Queue
    BY <1>2 DEF Draw, Others, Sound
  <2> QED BY <1>3, <2>1, TimerStays
<1>5. polling' \in PP \cup {NoPP} /\ UNCHANGED <<firing, orphans>>
  BY <1>1 DEF Draw, Queue
<1> QED BY <1>2, <1>4, <1>5, WatchedAgain DEF LockupInv, Draw, Others

\* What is out for polling and waits, waits twice: its end stops the timer.
LEMMA FinishWatched == ASSUME LockupInv, Finish PROVE LockupInv'
<1>1. PICK row \in {PointRow, NoRow}, ok \in BOOLEAN,
           retry \in {"normal", "immediate", "delayed"} :
         Complete(queue, polling, row, Completes(FALSE, ok, FALSE, retry))
  BY DEF Finish
<1>2. polling \in PP /\ Sound(queue)
  BY DEF Finish, LockupInv
<1>3. polling \in queue.heap => polling \in twice
  BY <1>2, NilAssumption DEF LockupInv, Watched, AlsoElsewhere, Of
<1>4. Completes(FALSE, ok, FALSE, retry) \in Completion /\ row \in Row \cup {NoRow}
  BY CompletesType
<1>5. /\ Sound(queue')
      /\ \A x \in queue'.heap \ twice : alert \/ x \in lockup'
  BY <1>1, <1>2, <1>3, <1>4, CompleteWatched
<1> QED BY <1>5, WatchedAgain DEF LockupInv, Finish, Others

LEMMA RepollFiresWatched ==
  ASSUME LockupInv, NEW o \in PP, RepollFires(o)
  PROVE  LockupInv'
<1>0. LET q == [queue EXCEPT !.repoll = @ \ {o}] IN Sound(q) /\ q.heap = queue.heap
  BY FewerTimersSound DEF LockupInv, Sound, Queue
<1>1. Sound(queue') /\ queue'.heap = queue.heap
  BY <1>0 DEF RepollFires, LockupInv
<1>2. \A x \in queue'.heap \ twice : alert' \/ x \in lockup'
  BY <1>1 DEF RepollFires, Others, LockupInv, Watched
<1> QED BY <1>1, <1>2, WatchedAgain DEF LockupInv, RepollFires, Others

LEMMA RepollCallbackWatched ==
  ASSUME LockupInv, NEW o \in PP, RepollCallback(o)
  PROVE  LockupInv'
<1> DEFINE p == FFPointUUID[o]
           q0 == [queue EXCEPT !.repoll = @ \ {o}]
<1>1. PICK r \in RemoveFromStandbyQueue(q0, p) :
         /\ queue' = AddToPriorityQueue(r.q, o)
         /\ Armed(Left(lockup, r.q), o)
  BY DEF RepollCallback
<1>2. Sound(q0) /\ q0 \in Queue /\ q0.heap = queue.heap
  BY FewerTimersSound DEF LockupInv, Sound, Queue
<1> HIDE DEF q0
<1>3. Sound(r.q) /\ r.q \in Queue
  BY <1>2, RemoveFromStandbyQueueSound DEF Sound
<1>4. r.q.heap = queue.heap
  BY <1>1, <1>2, StandbyRemovalHeap
<1>5. Sound(queue') /\ queue'.heap \subseteq queue.heap \cup {o}
  BY <1>1, <1>3, <1>4, AddToPriorityQueueSound DEF AddToPriorityQueue, Sound, Queue
<1>6. \A x \in queue'.heap \ twice : alert' \/ x \in lockup'
  <2> SUFFICES ASSUME NEW x \in queue'.heap \ twice, x # o
               PROVE  alert \/ x \in Left(lockup, r.q)
    BY <1>1 DEF Armed, RepollCallback, Others
  <2> QED BY <1>3, <1>4, <1>5, TimerStays
<1> QED BY <1>5, <1>6, WatchedAgain DEF LockupInv, RepollCallback, Others

LEMMA UpdatePointWatched ==
  ASSUME LockupInv, NEW p \in Point, UpdatePoint(p)
  PROVE  LockupInv'
<1>1. PICK r \in RemovePollingPointByPointUUID(queue, p) :
         CompleteNew(r.q, p, Completes(FALSE, FALSE, TRUE, "normal"))
  BY DEF UpdatePoint
<1>2. Sound(r.q) /\ r.q.heap \subseteq queue.heap
  BY RemovePollingPointByPointUUIDSound, RemovalHeap DEF LockupInv, Sound
<1>3. /\ Sound(queue')
      /\ \A x \in queue'.heap \ twice : alert \/ x \in lockup'
  BY <1>1, <1>2, CompletesType, CompleteNewWatched
<1> QED BY <1>3, WatchedAgain DEF LockupInv, UpdatePoint, Elsewhere

LEMMA DisablePointWatched ==
  ASSUME LockupInv, NEW p \in Point, DisablePoint(p)
  PROVE  LockupInv'
<1>1. PICK r \in RemovePollingPointByPointUUID(queue, p) :
         queue' = r.q /\ lockup' = Left(lockup, r.q)
  BY DEF DisablePoint
<1>2. Sound(queue') /\ queue' \in Queue /\ queue'.heap \subseteq queue.heap
  BY <1>1, RemovePollingPointByPointUUIDSound, RemovalHeap DEF LockupInv, Sound
<1>3. \A x \in queue'.heap \ twice : alert \/ x \in lockup'
  BY <1>1, <1>2, TimerStays
<1> QED BY <1>2, <1>3, WatchedAgain DEF LockupInv, DisablePoint, Elsewhere

\* The polling point that is taken out of the queue is added again, with a new timer.
LEMMA WritePointWatched ==
  ASSUME LockupInv, NEW p \in Point, WritePoint(p)
  PROVE  LockupInv'
<1>1. PICK r \in RemovePollingPointByPointUUID(queue, p) :
         /\ r.pp # NoPP
         /\ Complete(r.q, r.pp, PointRow, Completes(FALSE, FALSE, TRUE, "immediate"))
  BY DEF WritePoint
<1>2. /\ Sound(r.q) /\ r.pp \in PP /\ r.q.heap \subseteq queue.heap
      /\ FFPointUUID[r.pp] = p
      /\ r.pp \in r.q.heap => \/ Of(queue.current, p) \/ Of(queue.next, p)
                              \/ InStandby(queue, r.pp)
  BY <1>1, RemovePollingPointByPointUUIDSound, RemovalHeap DEF LockupInv, Sound
<1>3. r.pp \in r.q.heap => r.pp \in twice
  <2>1. CASE Of(queue.current, p) \/ Of(queue.next, p)
    <3>1. AlsoElsewhere(p)
      BY <2>1 DEF AlsoElsewhere
    <3> QED BY <1>2, <3>1 DEF LockupInv, Watched
  <2>2. CASE InStandby(queue, r.pp)
    <3>1. AlsoElsewhere(p)
      BY <1>2, <2>2, NilAssumption DEF AlsoElsewhere, Of
    <3> QED BY <1>2, <3>1 DEF LockupInv, Watched
  <2> QED BY <1>2, <2>1, <2>2
<1>4. /\ Sound(queue')
      /\ \A x \in queue'.heap \ twice : alert \/ x \in lockup'
  BY <1>1, <1>2, <1>3, CompletesType, CompleteWatched
<1> QED BY <1>4, WatchedAgain DEF LockupInv, WritePoint, Elsewhere

LEMMA CheckPointWatched ==
  ASSUME LockupInv, NEW p \in Point, CheckPoint(p)
  PROVE  LockupInv'
<1>1. CompleteNew(queue, p, Completes(FALSE, FALSE, TRUE, "normal"))
  BY DEF CheckPoint
<1>2. /\ Sound(queue')
      /\ \A x \in queue'.heap \ twice : alert \/ x \in lockup'
  BY <1>1, CompletesType, CompleteNewWatched DEF LockupInv
<1> QED BY <1>2, WatchedAgain DEF LockupInv, CheckPoint, Elsewhere

LEMMA StopPollingWatched == ASSUME LockupInv, StopPolling PROVE LockupInv'
<1>1. Sound(queue') /\ queue'.heap = {}
  BY EmptyQueueSound, EmptyQueueFields DEF StopPolling, LockupInv, Sound
<1> QED BY <1>1, WatchedAgain DEF LockupInv, StopPolling, Elsewhere

\* The rebuild queues one new polling point of each point and arms its timer.
LEMMA StartPollingWatched == ASSUME LockupInv, StartPolling PROVE LockupInv'
<1> DEFINE fresh == {CHOOSE o \in New(p) : TRUE : p \in Point}
           q == [EmptyQueue(queue) EXCEPT !.heap = fresh]
<1>1. \A p \in Point : (CHOOSE o \in New(p) : TRUE) \in New(p)
  BY DEF StartPolling
<1>2. /\ fresh \subseteq PP
      /\ \A x, y \in fresh : FFPointUUID[x] = FFPointUUID[y] => x = y
  BY <1>1 DEF New
<1> HIDE DEF fresh
<1>3. Sound(EmptyQueue(queue))
  BY EmptyQueueSound DEF LockupInv
<1>4. Sound(q) /\ q.heap = fresh
  BY <1>2, <1>3 DEF Sound, Queue, Unique, Timed, InStandby
<1> HIDE DEF q
<1>5. PICK r \in Start(q) :
         /\ queue' = r
         /\ lockup' = (Emptied(lockup) \ fresh) \cup (fresh \cap r.heap)
  BY DEF StartPolling, fresh, q
<1>6. Sound(queue')
  BY <1>4, <1>5, StartSound
<1>7. queue'.heap \subseteq fresh
  <2> DEFINE s == [q EXCEPT !.next = NoPP, !.current = NoPP, !.removeCurrent = FALSE]
  <2>1. s \in Queue /\ s.heap = fresh
    BY <1>4 DEF Sound, Queue
  <2> QED BY <1>5, <2>1, SetNextPollPointHeap DEF Start
<1> QED BY <1>5, <1>6, <1>7, WatchedAgain DEF LockupInv, StartPolling

LEMMA LockupExpiresWatched == ASSUME LockupInv, LockupExpires PROVE LockupInv'
BY DEF LockupInv, Watched, AlsoElsewhere, LockupExpires

LEMMA StutterWatched == ASSUME LockupInv, UNCHANGED vars PROVE LockupInv'
BY DEF LockupInv, Watched, AlsoElsewhere, vars

LEMMA NextWatched == ASSUME LockupInv, [Next]_vars PROVE LockupInv'
<1>1. CASE Draw \/ Finish \/ StopPolling \/ StartPolling \/ LockupExpires
  BY <1>1, DrawWatched, FinishWatched, StopPollingWatched, StartPollingWatched,
     LockupExpiresWatched
<1>2. CASE \E o \in PP : RepollFires(o) \/ RepollCallback(o)
  BY <1>2, RepollFiresWatched, RepollCallbackWatched
<1>3. CASE \E p \in Point : UpdatePoint(p) \/ DisablePoint(p) \/ WritePoint(p) \/ CheckPoint(p)
  BY <1>3, UpdatePointWatched, DisablePointWatched, WritePointWatched, CheckPointWatched
<1>4. CASE UNCHANGED vars
  BY <1>4, StutterWatched
<1> QED BY <1>1, <1>2, <1>3, <1>4 DEF Next

\* A point that waits in the priority queue, and nowhere else, is watched by a timer
\* that runs, or the alert is raised, through late callbacks, checks, calls and restarts
\* (queue_loader.go:250).
THEOREM QueuedIsWatchedHolds == Spec => []QueuedIsWatched
<1>1. LockupInv => QueuedIsWatched
  BY DEF LockupInv, Watched, QueuedIsWatched
<1>2. LockupInv /\ [Next]_vars => LockupInv'
  BY NextWatched
<1> QED BY <1>1, <1>2, InitWatched, PTL DEF Spec
=============================================================================
