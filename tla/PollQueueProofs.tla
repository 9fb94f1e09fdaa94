--------------------------- MODULE PollQueueProofs ---------------------------
(***************************************************************************)
(* What the operations of the poll queue preserve: the queue stays a       *)
(* queue, no UUID enters the priority queue twice, and a timer that can    *)
(* still be stopped belongs to an entry of the standby list.               *)
(***************************************************************************)
EXTENDS PollQueue, TLAPS

Unique(q) == \A x, y \in q.heap : FFPointUUID[x] = FFPointUUID[y] => x = y
Timed(q)  == \A o \in q.repoll : InStandby(q, o)
Sound(q)  == q \in Queue /\ Unique(q) /\ Timed(q)

\* A new network's queue is sound.
LEMMA NewQueueSound == Sound(NewQueue)
  BY DEF Sound, Unique, Timed, NewQueue, Queue, Priority, InStandby

\* Popping the next point keeps the queue sound (setNextPollPoint).
LEMMA SetNextPollPointSound ==
  ASSUME NEW q, Sound(q), NEW r \in SetNextPollPoint(q)
  PROVE  Sound(r)
<1>1. CASE q.next # NoPP \/ q.heap = {}
  BY <1>1 DEF SetNextPollPoint
<1>2. CASE ~(q.next # NoPP \/ q.heap = {})
  <2>1. PICK o \in q.heap :
           r = [q EXCEPT !.heap = @ \ {o}, !.next = o, !.repoll = @ \ {o}]
    BY <1>2 DEF SetNextPollPoint, MostUrgent
  <2>2. r \in Queue
    BY <2>1 DEF Sound, Queue
  <2>3. /\ r.heap \subseteq q.heap /\ r.repoll \subseteq q.repoll
        /\ r.standby = q.standby
    BY <2>1 DEF Sound, Queue
  <2> QED BY <2>2, <2>3 DEF Sound, Unique, Timed, InStandby
<1> QED BY <1>1, <1>2

\* Drawing the next point keeps the queue sound (GetNextPollingPoint).
LEMMA GetNextPollingPointSound ==
  ASSUME NEW q, Sound(q), NEW r \in GetNextPollingPoint(q)
  PROVE  Sound(r)
<1> DEFINE drawn == [q EXCEPT !.current = q.next, !.next = NoPP]
<1>1. Sound(drawn)
  BY DEF Sound, Queue, Unique, Timed, InStandby
<1>2. r \in SetNextPollPoint(drawn)
  BY DEF GetNextPollingPoint
<1> HIDE DEF drawn
<1> QED BY <1>1, <1>2, SetNextPollPointSound

\* Start forgets the next and the current point and keeps the queue sound.
LEMMA StartSound ==
  ASSUME NEW q, Sound(q), NEW r \in Start(q)
  PROVE  Sound(r)
<1> DEFINE fresh == [q EXCEPT !.next = NoPP, !.current = NoPP, !.removeCurrent = FALSE]
<1>1. Sound(fresh)
  BY DEF Sound, Queue, Unique, Timed, InStandby
<1>2. r \in SetNextPollPoint(fresh)
  BY DEF Start
<1> HIDE DEF fresh
<1> QED BY <1>1, <1>2, SetNextPollPointSound

\* A stopped timer never hurts: fewer timers leave a sound queue sound.
LEMMA FewerTimersSound ==
  ASSUME NEW q, Sound(q), NEW S
  PROVE  Sound([q EXCEPT !.repoll = @ \ S])
BY DEF Sound, Queue, Unique, Timed, InStandby

\* The flags and priorities have no part in soundness.
LEMMA WithPrioritySound ==
  ASSUME NEW q, Sound(q), NEW o \in PP, NEW p \in Priority
  PROVE  Sound([q EXCEPT !.priority[o] = p])
<1>1. [q EXCEPT !.priority[o] = p] \in Queue
  BY DEF Sound, Queue
<1> QED BY <1>1 DEF Sound, Queue, Unique, Timed, InStandby

\* The search for the UUID before an entry is what keeps a UUID from waiting twice
\* (AddToPriorityQueue).
LEMMA AddToPriorityQueueSound ==
  ASSUME NEW q, Sound(q), NEW o \in PP
  PROVE  Sound(AddToPriorityQueue(q, o))
<1>1. CASE \E x \in q.heap : FFPointUUID[x] = FFPointUUID[o]
  BY <1>1 DEF AddToPriorityQueue
<1>2. CASE ~\E x \in q.heap : FFPointUUID[x] = FFPointUUID[o]
  <2>1. AddToPriorityQueue(q, o) = [q EXCEPT !.heap = @ \cup {o}]
    BY <1>2 DEF AddToPriorityQueue
  <2> QED BY <2>1, <1>2 DEF Sound, Queue, Unique, Timed, InStandby
<1> QED BY <1>1, <1>2

\* A timer is armed only together with an entry of the standby list
\* (AddToStandbyQueueWithRePoll).
LEMMA AddToStandbyQueueSound ==
  ASSUME NEW q, Sound(q), NEW o \in PP, NEW n \in Nat, NEW repoll \in BOOLEAN,
         repoll => n > 0
  PROVE  Sound(AddToStandbyQueue(q, o, n, repoll))
<1> DEFINE r == AddToStandbyQueue(q, o, n, repoll)
<1>1. r \in Queue
  <2>1. q \in Queue
    BY DEF Sound
  <2>2. q.standby \in [PP -> Nat] /\ q.standby[o] + n \in Nat
    BY <2>1 DEF Queue
  <2>3. [q.standby EXCEPT ![o] = @ + n] \in [PP -> Nat]
    BY <2>2
  <2>4. (IF repoll THEN q.repoll \cup {o} ELSE q.repoll) \in SUBSET PP
    BY <2>1 DEF Queue
  <2>5. r = [q EXCEPT !.standby = [q.standby EXCEPT ![o] = @ + n],
                      !.repoll = IF repoll THEN q.repoll \cup {o} ELSE q.repoll]
    BY <2>1 DEF AddToStandbyQueue, Queue
  <2> QED BY <2>1, <2>3, <2>4, <2>5 DEF Queue
<1>2. /\ r.heap = q.heap
      /\ r.repoll \subseteq q.repoll \cup (IF repoll THEN {o} ELSE {})
      /\ r.standby = [q.standby EXCEPT ![o] = @ + n]
  BY DEF AddToStandbyQueue, Sound, Queue
<1>3. Unique(r)
  BY <1>2 DEF Sound, Unique
<1>4. Timed(r)
  <2> SUFFICES ASSUME NEW x \in r.repoll PROVE r.standby[x] > 0
    BY DEF Timed, InStandby
  <2>1. x \in PP /\ q.standby \in [PP -> Nat]
    BY <1>1 DEF Queue, Sound
  <2> QED BY <1>2, <2>1 DEF Sound, Timed, InStandby
<1> QED BY <1>1, <1>3, <1>4 DEF Sound

\* What is removed from the standby list has its timer stopped
\* (StandbyPollQueue.removePollingPoint).
LEMMA RemoveFromStandbyQueueSound ==
  ASSUME NEW q, Sound(q), NEW p, NEW r \in RemoveFromStandbyQueue(q, p)
  PROVE  Sound(r.q) /\ r.pp \in PP \cup {NoPP}
<1> DEFINE found == {o \in PP : InStandby(q, o) /\ FFPointUUID[o] = p}
<1>1. CASE found = {}
  <2>1. r = [q |-> q, pp |-> NoPP]
    BY <1>1 DEF RemoveFromStandbyQueue
  <2> QED BY <2>1
<1>2. CASE found # {}
  <2>1. PICK o \in found :
          r = [q  |-> [q EXCEPT !.standby[o] = @ - 1, !.repoll = @ \ {o}], pp |-> o]
    BY <1>2 DEF RemoveFromStandbyQueue
  <2>2. /\ o \in PP /\ q.standby \in [PP -> Nat] /\ q.standby[o] > 0
        /\ q.standby[o] - 1 \in Nat
    BY DEF Sound, Queue, InStandby
  <2>3. r.q \in Queue
    BY <2>1, <2>2 DEF Sound, Queue
  <2>4. /\ r.q.heap = q.heap /\ r.q.repoll = q.repoll \ {o}
        /\ \A x \in PP : x # o => r.q.standby[x] = q.standby[x]
    BY <2>1, <2>2 DEF Sound, Queue
  <2>5. Timed(r.q)
    BY <2>3, <2>4 DEF Sound, Timed, InStandby, Queue
  <2> QED BY <2>1, <2>2, <2>3, <2>4, <2>5 DEF Sound, Unique
<1> QED BY <1>1, <1>2

\* Whatever place a point is removed from, the queue stays sound, and what is
\* returned is a polling point or nil (RemovePollingPointByPointUUID).
LEMMA RemovePollingPointByPointUUIDSound ==
  ASSUME NEW q, Sound(q), NEW p, NEW r \in RemovePollingPointByPointUUID(q, p)
  PROVE  Sound(r.q) /\ r.pp \in PP \cup {NoPP}
<1> DEFINE queued == {o \in q.heap : FFPointUUID[o] = p}
<1>0. q \in Queue /\ q.current \in PP \cup {NoPP} /\ q.next \in PP \cup {NoPP}
  BY DEF Sound, Queue
<1>1. CASE Of(q.current, p)
  <2>1. r = [q |-> [q EXCEPT !.removeCurrent = TRUE], pp |-> q.current]
    BY <1>1 DEF RemovePollingPointByPointUUID
  <2>2. Sound([q EXCEPT !.removeCurrent = TRUE])
    BY DEF Sound, Queue, Unique, Timed, InStandby
  <2> QED BY <2>1, <2>2, <1>0
<1>2. CASE ~Of(q.current, p) /\ Of(q.next, p)
  <2> DEFINE without == [q EXCEPT !.next = NoPP]
  <2>1. PICK s \in SetNextPollPoint(without) : r = [q |-> s, pp |-> q.next]
    BY <1>2 DEF RemovePollingPointByPointUUID
  <2>2. Sound(without)
    BY DEF Sound, Queue, Unique, Timed, InStandby
  <2> HIDE DEF without
  <2>3. Sound(s)
    BY <2>2, SetNextPollPointSound
  <2> QED BY <2>1, <2>3, <1>0
<1>3. CASE ~Of(q.current, p) /\ ~Of(q.next, p) /\ queued # {}
  <2>1. PICK o \in queued : r = [q |-> RemoveFromHeap(q, o), pp |-> o]
    BY <1>3 DEF RemovePollingPointByPointUUID
  <2>2. Sound(RemoveFromHeap(q, o)) /\ o \in PP
    BY DEF RemoveFromHeap, Sound, Queue, Unique, Timed, InStandby
  <2> QED BY <2>1, <2>2
<1>4. CASE ~Of(q.current, p) /\ ~Of(q.next, p) /\ queued = {}
  <2>1. r \in RemoveFromStandbyQueue(q, p)
    BY <1>4 DEF RemovePollingPointByPointUUID
  <2> QED BY <2>1, RemoveFromStandbyQueueSound
<1> QED BY <1>1, <1>2, <1>3, <1>4

\* Removing all points of a device stops their timers with them
\* (RemovePollingPointByDeviceUUID).
LEMMA RemovePollingPointByDeviceUUIDSound ==
  ASSUME NEW q, Sound(q), NEW d
  PROVE  Sound(RemovePollingPointByDeviceUUID(q, d))
<1> DEFINE gone == {o \in PP : /\ FFDeviceUUID[FFPointUUID[o]] = d
                               /\ o \in q.heap \/ InStandby(q, o)}
           r == RemovePollingPointByDeviceUUID(q, d)
<1>1. r = [q EXCEPT !.heap = @ \ gone,
                    !.standby = [o \in PP |-> IF o \in gone THEN 0 ELSE @[o]],
                    !.repoll = @ \ gone]
  BY DEF RemovePollingPointByDeviceUUID
<1> HIDE DEF gone
<1>2. r \in Queue
  <2>1. [o \in PP |-> IF o \in gone THEN 0 ELSE q.standby[o]] \in [PP -> Nat]
    BY DEF Sound, Queue
  <2> QED BY <1>1, <2>1 DEF Sound, Queue
<1>3. /\ r.heap = q.heap \ gone /\ r.repoll = q.repoll \ gone
      /\ \A x \in PP \ gone : r.standby[x] = q.standby[x]
  BY <1>1 DEF Sound, Queue
<1> QED BY <1>2, <1>3 DEF Sound, Unique, Timed, InStandby, Queue

\* Emptying the two lists leaves no timer that can be stopped (EmptyQueue of both).
LEMMA EmptyListsSound ==
  ASSUME NEW q, Sound(q)
  PROVE  Sound(EmptyLists(q)) /\ EmptyLists(q).repoll = {}
<1> DEFINE r == EmptyLists(q)
<1>1. r \in Queue
  BY DEF EmptyLists, Sound, Queue
<1>2. r.heap = {} /\ r.repoll \subseteq {o \in q.repoll : ~InStandby(q, o)}
  BY DEF EmptyLists, Sound, Queue
<1>3. r.repoll = {}
  BY <1>2 DEF Sound, Timed
<1> QED BY <1>1, <1>2, <1>3 DEF Sound, Unique, Timed

\* What is left when the queue is emptied.
LEMMA EmptyQueueFields ==
  ASSUME NEW q \in Queue
  PROVE  LET r == EmptyQueue(q)
         IN  /\ r.heap = {} /\ r.standby = [o \in PP |-> 0] /\ r.next = NoPP
             /\ r.current = NoPP /\ r.removeCurrent = q.removeCurrent
             /\ r.repoll \subseteq q.repoll /\ r.priority = q.priority
BY DEF EmptyQueue, EmptyLists, Queue

\* Emptying the queue forgets the next and the current point too (EmptyQueue).
LEMMA EmptyQueueSound ==
  ASSUME NEW q, Sound(q)
  PROVE  Sound(EmptyQueue(q))
<1> DEFINE l == EmptyLists(q)
           r == [l EXCEPT !.next = NoPP, !.current = NoPP,
                          !.repoll = @ \ {q.next, q.current}]
<1>1. Sound(l) /\ l.repoll = {} /\ EmptyQueue(q) = r
  BY EmptyListsSound DEF EmptyQueue
<1> HIDE DEF l
<1>2. r \in Queue /\ r.heap = l.heap /\ r.repoll = {}
  BY <1>1 DEF Sound, Queue
<1> QED BY <1>1, <1>2 DEF Sound, Unique, Timed

-----------------------------------------------------------------------------
\* A disposal is what one branch of the switch can leave behind: a timer only with
\* an entry of the standby list, and a write flag only in a mode that writes.
Proper(d, mode) == /\ d \in Disposal
                   /\ d.repoll => d.standby > 0
                   /\ d.write => IsWriteable(mode)

\* Every write mode disposes properly of a point, whatever the poll came to.
LEMMA DisposeProper ==
  ASSUME NEW mode \in Modes, NEW pt \in Row, NEW c \in Completion
  PROVE  Proper(Dispose(mode, pt, c), mode)
<1> USE DEF Proper, Disposal, Modes, ReadModes, WriteModes, IsWriteable, ToQueue,
            ToStandby, ToRepoll, Nowhere
<1>0. /\ pt.read \in BOOLEAN /\ pt.write \in BOOLEAN
      /\ c.writeSuccess \in BOOLEAN /\ c.readSuccess \in BOOLEAN
      /\ c.pointUpdate \in BOOLEAN /\ c.notRequired \in BOOLEAN
  BY DEF Row, Completion
<1>1. CASE mode = "read_once"
  BY <1>0, <1>1 DEF Dispose, ReadOnce
<1>2. CASE mode = "read_only"
  BY <1>0, <1>2 DEF Dispose, ReadOnly
<1>3. CASE mode = "write_once"
  BY <1>0, <1>3 DEF Dispose, WriteOnce
<1>4. CASE mode = "write_once_read_once"
  BY <1>0, <1>4 DEF Dispose, WriteOnceReadOnce
<1>5. CASE mode = "write_always"
  BY <1>0, <1>5 DEF Dispose, WriteAlways
<1>6. CASE mode = "write_once_then_read"
  BY <1>0, <1>6 DEF Dispose, WriteOnceThenRead
<1>7. CASE mode = "write_and_maintain"
  BY <1>0, <1>7 DEF Dispose, WriteAndMaintain
<1> QED BY <1>1, <1>2, <1>3, <1>4, <1>5, <1>6, <1>7

\* A proper disposal carried out leaves the queue sound.
LEMMA DisposalSound ==
  ASSUME NEW q, Sound(q), NEW o \in PP, NEW mode, NEW d, Proper(d, mode)
  PROVE  Sound(AddToStandbyQueue(IF d.queue THEN AddToPriorityQueue(q, o) ELSE q,
                                 o, d.standby, d.repoll))
<1> DEFINE r == IF d.queue THEN AddToPriorityQueue(q, o) ELSE q
<1>1. Sound(r)
  BY AddToPriorityQueueSound
<1>2. /\ d.standby \in Nat /\ d.repoll \in BOOLEAN
      /\ d.repoll => d.standby > 0
  BY DEF Proper, Disposal
<1> HIDE DEF r
<1>3. PICK n \in Nat : n = d.standby
  BY <1>2
<1>4. PICK t \in BOOLEAN : t = d.repoll
  BY <1>2
<1>5. Sound(AddToStandbyQueue(r, o, n, t))
  BY <1>1, <1>2, <1>3, <1>4, AddToStandbyQueueSound
<1> QED BY <1>3, <1>4, <1>5 DEF r

\* The completion of a poll or of an update keeps the queue sound, and a row it asks
\* to be written back requires a write only in a mode that writes.
LEMMA NotificationSound ==
  ASSUME NEW q, Sound(q), NEW o \in PP, NEW pt \in Row \cup {NoRow},
         NEW c \in Completion
  PROVE  LET n == PollingPointCompleteNotification(q, o, pt, c) IN
         /\ Sound(n.q)
         /\ n.save => /\ n.row \in Row
                      /\ n.row.write => IsWriteable(Mode[FFPointUUID[o]])
<1> DEFINE n == PollingPointCompleteNotification(q, o, pt, c)
           q0 == [q EXCEPT !.repoll = @ \ {o}]
           dropped == [q |-> [q0 EXCEPT !.removeCurrent = FALSE],
                       panic |-> FALSE, save |-> FALSE, row |-> pt]
<1>1. Sound(q0) /\ Sound([q0 EXCEPT !.removeCurrent = FALSE])
  BY DEF Sound, Queue, Unique, Timed, InStandby
<1>2. CASE pt = NoRow
  <2>1. n = dropped
    BY <1>2 DEF PollingPointCompleteNotification
  <2> QED BY <1>1, <2>1
<1>3. CASE pt # NoRow /\ q.removeCurrent /\ q.current = NoPP
  <2>1. n = [q |-> q0, panic |-> TRUE, save |-> FALSE, row |-> pt]
    BY <1>3 DEF PollingPointCompleteNotification
  <2> QED BY <1>1, <2>1
<1>4. CASE /\ pt # NoRow /\ ~(q.removeCurrent /\ q.current = NoPP)
           /\ q.removeCurrent /\ Of(q.current, FFPointUUID[o])
  <2>1. n = dropped
    BY <1>4 DEF PollingPointCompleteNotification
  <2> QED BY <1>1, <2>1
<1>5. CASE /\ pt # NoRow /\ ~(q.removeCurrent /\ q.current = NoPP)
           /\ ~(q.removeCurrent /\ Of(q.current, FFPointUUID[o]))
  <2> DEFINE d == Dispose(Mode[FFPointUUID[o]], pt, c)
             q1 == IF c.resetPriority
                     THEN [q0 EXCEPT !.priority[o] = pt.priority] ELSE q0
             q2 == IF d.queue THEN AddToPriorityQueue(q1, o) ELSE q1
             q3 == AddToStandbyQueue(q2, o, d.standby, d.repoll)
  <2>1. n = [q |-> [q3 EXCEPT !.current = NoPP], panic |-> FALSE,
             save |-> d.read # pt.read \/ d.write # pt.write,
             row |-> [pt EXCEPT !.read = d.read, !.write = d.write]]
    BY <1>5 DEF PollingPointCompleteNotification
  <2>2. /\ pt \in Row /\ pt.priority \in Priority
        /\ Mode[FFPointUUID[o]] \in Modes
    BY <1>5, UUIDAssumption DEF Row
  <2>3. Proper(d, Mode[FFPointUUID[o]])
    BY <2>2, DisposeProper
  <2>4. Sound(q1)
    BY <1>1, <2>2, WithPrioritySound
  <2> HIDE DEF q0, q1, d
  <2>6. /\ d.read \in BOOLEAN /\ d.write \in BOOLEAN
        /\ d.write => IsWriteable(Mode[FFPointUUID[o]])
    BY <2>3 DEF Proper, Disposal
  <2>7. Sound(q3)
    BY <2>3, <2>4, DisposalSound
  <2> HIDE DEF q2, q3
  <2>8. Sound([q3 EXCEPT !.current = NoPP])
    BY <2>7 DEF Sound, Queue, Unique, Timed, InStandby
  <2>9. n.row \in Row /\ n.row.write = d.write
    <3>1. n.row = [pt EXCEPT !.read = d.read, !.write = d.write]
      BY <2>1
    <3> HIDE DEF n
    <3>2. PICK r \in BOOLEAN, w \in BOOLEAN : r = d.read /\ w = d.write
      BY <2>6
    <3>3. n.row = [pt EXCEPT !.read = r, !.write = w]
      BY <3>1, <3>2
    <3>4. /\ [pt EXCEPT !.read = r, !.write = w] \in Row
          /\ [pt EXCEPT !.read = r, !.write = w].write = w
      BY <2>2 DEF Row
    <3> QED BY <3>2, <3>3, <3>4
  <2>10. n.q = [q3 EXCEPT !.current = NoPP]
    BY <2>1
  <2> HIDE DEF n
  <2>11. Sound(n.q) /\ (n.save => n.row \in Row /\ (n.row.write =>
                                      IsWriteable(Mode[FFPointUUID[o]])))
    BY <2>6, <2>8, <2>9, <2>10
  <2> QED BY <2>11 DEF n
<1> QED BY <1>2, <1>3, <1>4, <1>5
=============================================================================
