-------------------------- MODULE PollManagerProofs --------------------------
(***************************************************************************)
(* The invariants of the poll manager, for every number of points, polling *)
(* points, calls and restarts, all modes and all faults.                   *)
(* Behind them: no point is in two places at once, and no point that is to *)
(* be polled is in none, the places of the points through every step.  In  *)
(* the end: polling implements the life of the points, PointLifecycle.     *)
(***************************************************************************)
EXTENDS PollProperties, PollQueueProofs

-----------------------------------------------------------------------------
(* The inductive invariant, one part for each variable. *)

RowsOK(rows) == rows \in Rows /\ \A p \in Point : MayWrite(p, rows[p])

\* Before a row is fetched there is none: what the poll had before is not the new
\* point's, and its write flag would say nothing about its mode.
PollOK == /\ poll \in PollState
          /\ poll.pp = NoPP <=> poll.stage = "idle"
          /\ poll.stage \in {"idle", "drawn", "found"} => poll.row = NoRow
          /\ poll.stage \in {"fetched", "responded", "failed"} => poll.row \in Row
          /\ poll.pp # NoPP => MayWrite(Polled, poll.row)

ApiOK     == api \in ApiState /\ RowsOK(api.rows)
CheckerOK == /\ checker \in [rows : Rows, enabled : [Switch -> BOOLEAN]]
             /\ RowsOK(checker.rows)
PendingOK == pending \in [Actors -> Rows] /\ \A a \in Actors : RowsOK(pending[a])
PointsOK  == /\ points \in [Point -> Row]
             /\ \A p \in Point : points[p].write => IsWriteable(Mode[p])
StatusOK  == status \in {"starting", "running", "stopped", "panicked"}
RestOK    == /\ firing \subseteq PP /\ orphans \subseteq PP
             /\ enabled \in [Switch -> BOOLEAN] /\ register \in [Point -> Value]
             /\ calls \in Nat /\ restarts \in Nat

IInv == /\ Sound(queue) /\ PollOK /\ ApiOK /\ CheckerOK /\ PendingOK /\ PointsOK
        /\ StatusOK /\ RestOK

\* The inductive invariant contains the invariants that the runs check.
LEMMA IInvImplies == IInv => TypeOK /\ QueueUnique /\ RepollInStandby /\ OnlyWriteModesWrite
<1> SUFFICES ASSUME IInv PROVE TypeOK /\ QueueUnique /\ RepollInStandby /\ OnlyWriteModesWrite
  OBVIOUS
<1>1. TypeOK
  BY DEF IInv, Sound, PollOK, ApiOK, CheckerOK, PendingOK, PointsOK, StatusOK, RestOK,
         TypeOK
<1>2. QueueUnique /\ RepollInStandby
  BY DEF IInv, Sound, Unique, Timed, QueueUnique, RepollInStandby
<1>3. OnlyWriteModesWrite
  <2>1. \A p \in Point : MayWrite(p, points[p])
    BY DEF IInv, PointsOK, MayWrite
  <2> QED BY <2>1 DEF IInv, PollOK, ApiOK, CheckerOK, PendingOK, RowsOK,
                      OnlyWriteModesWrite
<1> QED BY <1>1, <1>2, <1>3

-----------------------------------------------------------------------------
(* The states that handlers return to. *)

\* Holding no row is proper.
LEMMA NoRowsOK == RowsOK(NoRows)
BY DEF RowsOK, NoRows, Rows, MayWrite

\* The idle handler is one of the handler states, with no row.
LEMMA IdleApiOK == IdleApi \in ApiState /\ RowsOK(IdleApi.rows)
<1>1. (CHOOSE d \in Device : TRUE) \in Device
  BY ManagerAssumption
<1> QED BY <1>1, NoRowsOK DEF IdleApi, ApiState, RowsOK

\* The idle queue checker holds no row.
LEMMA IdleCheckerOK == /\ IdleChecker \in [rows : Rows, enabled : [Switch -> BOOLEAN]]
                       /\ RowsOK(IdleChecker.rows)
BY NoRowsOK DEF IdleChecker, AllEnabled, RowsOK

\* The idle poll is one of the poll states, with no polling point.
LEMMA IdlePollOK ==
  /\ IdlePoll \in PollState /\ IdlePoll.pp = NoPP /\ IdlePoll.stage = "idle"
  /\ IdlePoll.row = NoRow
BY ManagerAssumption DEF IdlePoll, PollState, Retries

\* A row that a handler holds for a point across a blocking call.
LEMMA JobOK ==
  ASSUME NEW stage \in {"added", "updated", "written", "requested", "removed"},
         NEW p \in Point, NEW row \in Row, row.write => IsWriteable(Mode[p])
  PROVE  Job(stage, p, row) \in ApiState /\ RowsOK(Job(stage, p, row).rows)
<1> DEFINE rows == [NoRows EXCEPT ![p] = row]
<1>0. IdleApi \in ApiState /\ IdleApi.rows = NoRows
  BY IdleApiOK DEF IdleApi
<1>1. /\ Job(stage, p, row) = [IdleApi EXCEPT !.stage = stage, !.rows = rows]
      /\ IdleApi.device \in Device
  BY <1>0 DEF Job, ApiState
<1>2. RowsOK(rows)
  BY NoRowsOK DEF RowsOK, Rows, MayWrite, NoRows
<1> HIDE DEF rows
<1> QED BY <1>0, <1>1, <1>2 DEF ApiState, RowsOK

\* A handler that is done with one of its points goes on with fewer rows.
LEMMA DoneOK ==
  ASSUME NEW rows, RowsOK(rows), NEW p \in Point
  PROVE  RowsOK([rows EXCEPT ![p] = NoRow])
BY DEF RowsOK, Rows, MayWrite

\* A point that is still to be handled has a row.
LEMMA TodoRow ==
  ASSUME NEW job, RowsOK(job.rows), NEW p \in Todo(job)
  PROVE  /\ p \in Point /\ job.rows[p] \in Row
         /\ job.rows[p].write => IsWriteable(Mode[p])
BY DEF Todo, RowsOK, Rows, MayWrite

\* The rows that one call to the host returns are rows of the database.
LEMMA RowsOfOK ==
  ASSUME PointsOK, NEW S
  PROVE  RowsOK(RowsOf(S))
BY DEF RowsOf, RowsOK, Rows, MayWrite, PointsOK

\* What the host stores for UpdatePoint is a row that may ask for a write only if the
\* row it was sent may.
LEMMA UpdateRowOK ==
  ASSUME PointsOK, NEW p \in Point, NEW row \in Row, row.write => IsWriteable(Mode[p])
  PROVE  /\ UpdateRow(p, row) \in [Point -> Row]
         /\ \A x \in Point : UpdateRow(p, row)[x].write => IsWriteable(Mode[x])
<1> DEFINE new == [points[p] EXCEPT !.enable = row.enable, !.read = row.read,
                                    !.write = row.write]
<1>1. row.enable \in BOOLEAN /\ row.read \in BOOLEAN /\ row.write \in BOOLEAN
  BY DEF Row
<1>2. new \in Row /\ new.write = row.write
  BY <1>1 DEF PointsOK, Row
<1>3. UpdateRow(p, row) = points \/ UpdateRow(p, row) = [points EXCEPT ![p] = new]
  BY DEF UpdateRow
<1> HIDE DEF new
<1> QED BY <1>2, <1>3 DEF PointsOK

\* NewPollingPoint makes a polling point of the UUID it is given.
LEMMA NewPollingPointOK ==
  ASSUME NEW p \in Point, FreePP(p) # {}
  PROVE  NewPollingPoint(p) \in PP /\ FFPointUUID[NewPollingPoint(p)] = p
<1>1. NewPollingPoint(p) \in FreePP(p)
  BY DEF NewPollingPoint
<1> QED BY <1>1 DEF FreePP

\* An added or updated point is completed with arguments of their types.
LEMMA UpdateCompletionOK == \A p \in Point : UpdateCompletion(p) \in Completion
BY DEF UpdateCompletion, Completion, Retries
-----------------------------------------------------------------------------
(* What the two ways to complete a point leave behind. *)

\* A completion by any of the three leaves a sound queue and proper rows to save.
LEMMA CompleteOK ==
  ASSUME NEW a \in Actors, NEW q, Sound(q), NEW o \in PP,
         NEW row \in Row \cup {NoRow}, NEW c \in Completion,
         PendingOK, StatusOK, Complete(a, q, o, row, c)
  PROVE  Sound(queue') /\ PendingOK' /\ StatusOK'
<1> DEFINE n == PollingPointCompleteNotification(q, o, row, c)
           p == FFPointUUID[o]
<1>1. /\ Sound(n.q)
      /\ n.save => n.row \in Row /\ (n.row.write => IsWriteable(Mode[p]))
  BY NotificationSound
<1>2. /\ queue' = n.q
      /\ status' = IF n.panic THEN "panicked" ELSE status
      /\ pending' = IF n.save THEN [pending EXCEPT ![a][p] = n.row] ELSE pending
  BY DEF Complete
<1>3. p \in Point
  BY UUIDAssumption
<1> HIDE DEF n, p
<1>4. PendingOK'
  <2>1. CASE ~n.save
    BY <2>1, <1>2 DEF PendingOK
  <2>2. CASE n.save
    <3>1. RowsOK([pending[a] EXCEPT ![p] = n.row])
      BY <1>1, <1>3, <2>2 DEF PendingOK, RowsOK, Rows, MayWrite
    <3>2. pending' = [pending EXCEPT ![a] = [pending[a] EXCEPT ![p] = n.row]]
      BY <1>2, <2>2 DEF PendingOK
    <3> QED BY <3>1, <3>2 DEF PendingOK, RowsOK
  <2> QED BY <2>1, <2>2
<1> QED BY <1>1, <1>2, <1>4 DEF StatusOK

\* A new polling point completed as an update leaves the same behind.
LEMMA RequeueOK ==
  ASSUME NEW a \in Actors, NEW q, Sound(q), NEW p \in Point,
         NEW row \in Row \cup {NoRow}, PendingOK, StatusOK, Requeue(a, q, p, row)
  PROVE  Sound(queue') /\ PendingOK' /\ StatusOK'
<1> DEFINE o == NewPollingPoint(p)
           r == WithPriority(q, o, "normal")
<1>1. /\ FreePP(p) # {}
      /\ Complete(a, r, o, row, UpdateCompletion(p))
  BY DEF Requeue
<1>2. o \in PP
  BY <1>1, NewPollingPointOK
<1> HIDE DEF o
<1>3. Sound(r)
  BY <1>2, WithPrioritySound DEF WithPriority, Priority
<1>4. UpdateCompletion(p) \in Completion
  BY UpdateCompletionOK
<1> HIDE DEF r
<1> QED BY <1>1, <1>2, <1>3, <1>4, CompleteOK

-----------------------------------------------------------------------------
(* The inductive invariant holds at the start and after each step. *)

\* A process that starts, with any rows in the database, is proper.
LEMMA InitOK == Init => IInv
<1> SUFFICES ASSUME Init PROVE IInv
  OBVIOUS
<1>1. Sound(queue)
  BY NewQueueSound DEF Init
<1>2. PollOK
  BY IdlePollOK DEF Init, PollOK
<1>3. ApiOK
  <2>1. api = [IdleApi EXCEPT !.stage = "stopped"]
    BY DEF Init
  <2> QED BY <2>1, IdleApiOK DEF ApiOK, ApiState
<1>4. CheckerOK
  BY IdleCheckerOK DEF Init, CheckerOK
<1>5. PendingOK
  BY NoRowsOK DEF Init, PendingOK, RowsOK
<1>6. PointsOK /\ StatusOK /\ RestOK
  BY ManagerAssumption DEF Init, AllEnabled, PointsOK, StatusOK, RestOK
<1> QED BY <1>1, <1>2, <1>3, <1>4, <1>5, <1>6 DEF IInv

\* The write-back of a row, done or failed.
LEMMA SaveOK ==
  ASSUME IInv, NEW a \in Actors, Save(a)
  PROVE  IInv'
<1>1. PICK p \in Point : /\ pending[a][p] # NoRow
                         /\ points' = UpdateRow(p, pending[a][p]) \/ points' = points
  BY DEF Save
<1>2. pending[a][p] \in Row /\ (pending[a][p].write => IsWriteable(Mode[p]))
  BY <1>1 DEF IInv, PendingOK, RowsOK, Rows, MayWrite
<1>3. PointsOK'
  BY <1>1, <1>2, UpdateRowOK DEF IInv, PointsOK
<1>4. PendingOK'
  BY NoRowsOK DEF Save, IInv, PendingOK, RowsOK
<1>5. UNCHANGED <<queue, firing, orphans, poll, api, checker, enabled, register,
                  status, calls, restarts>>
  BY DEF Save
<1>6. PollOK' /\ ApiOK' /\ CheckerOK' /\ StatusOK' /\ RestOK' /\ Sound(queue')
  BY <1>5 DEF IInv, PollOK, ApiOK, CheckerOK, StatusOK, RestOK, Polled
<1> QED BY <1>3, <1>4, <1>6 DEF IInv

\* Drawing the next point: no row is held yet (GetNextPollingPoint).
LEMMA DrawOK ==
  ASSUME IInv, Draw
  PROVE  IInv'
<1>1. Sound(queue')
  BY GetNextPollingPointSound DEF IInv, Draw
<1>2. PollOK'
  <2>1. queue.next \in PP \cup {NoPP}
    BY DEF IInv, Sound, Queue
  <2>2. CASE queue.next = NoPP
    BY <2>2 DEF Draw, IInv, PollOK, Polled
  <2>3. CASE queue.next # NoPP
    <3>1. poll' = [poll EXCEPT !.stage = "drawn", !.pp = queue.next]
      BY <2>3 DEF Draw
    <3>2. poll \in PollState /\ poll.row = NoRow
      BY DEF Draw, IInv, PollOK
    <3>3. poll' \in PollState
      BY <2>1, <3>1, <3>2 DEF PollState
    <3>4. poll'.stage = "drawn" /\ poll'.pp = queue.next /\ poll'.row = NoRow
      BY <3>1, <3>2 DEF PollState
    <3> QED BY <2>3, <3>3, <3>4 DEF PollOK, MayWrite
  <2> QED BY <2>2, <2>3
<1>3. UNCHANGED <<firing, orphans, api, checker, pending, points, enabled, register,
                  status, calls, restarts>>
  BY DEF Draw
<1>4. ApiOK' /\ CheckerOK' /\ PendingOK' /\ PointsOK' /\ StatusOK' /\ RestOK'
  BY <1>3 DEF IInv, ApiOK, CheckerOK, PendingOK, PointsOK, StatusOK, RestOK
<1> QED BY <1>1, <1>2, <1>4 DEF IInv

\* While a point is out, what its poll concerns is a point.
LEMMA PolledOK ==
  ASSUME PollOK, poll.stage # "idle"
  PROVE  poll.pp \in PP /\ poll.pp # NoPP /\ Polled \in Point
<1>1. poll.pp \in PP
  BY DEF PollOK, PollState
<1> QED BY <1>1, UUIDAssumption, NilAssumption DEF Polled

\* A step of the poll that leaves the point out, with a proper row, touches nothing
\* but the registers besides.
LEMMA PollMoves ==
  ASSUME IInv, PollOK', register' \in [Point -> Value], UNCHANGED points, PollUnchanged
  PROVE  IInv'
<1>1. UNCHANGED <<queue, firing, orphans, api, checker, pending, enabled, status, calls,
                  restarts, points>>
  BY DEF PollUnchanged
<1>2. /\ Sound(queue') /\ ApiOK' /\ CheckerOK' /\ PendingOK' /\ PointsOK' /\ StatusOK'
      /\ RestOK'
  BY <1>1 DEF IInv, ApiOK, CheckerOK, PendingOK, PointsOK, StatusOK, RestOK
<1> QED BY <1>2 DEF IInv

\* The device of the drawn point: only the stage of the poll is another.
LEMMA FindDeviceOK ==
  ASSUME IInv, FindDevice
  PROVE  IInv'
<1>1. /\ PollOK /\ poll.stage = "drawn" /\ poll' = [poll EXCEPT !.stage = "found"]
  BY DEF FindDevice, IInv
<1>2. /\ poll' \in PollState /\ poll'.stage = "found" /\ poll'.pp = poll.pp
      /\ poll'.row = poll.row /\ poll.row = NoRow
  BY <1>1 DEF PollOK, PollState
<1>3. PollOK'
  BY <1>1, <1>2 DEF PollOK, MayWrite, Polled
<1>4. UNCHANGED points /\ PollUnchanged /\ register' \in [Point -> Value]
  BY DEF FindDevice, PollUnchanged, IInv, RestOK
<1> QED BY <1>3, <1>4, PollMoves

\* Fetching the drawn point: its row is a row of the database.
LEMMA FetchOkOK ==
  ASSUME IInv, FetchOk
  PROVE  IInv'
<1>1. /\ PollOK /\ poll.stage = "found"
      /\ poll' = [poll EXCEPT !.stage = "fetched", !.row = points[Polled]]
  BY DEF FetchOk, IInv
<1>2. poll.pp \in PP /\ poll.pp # NoPP /\ Polled \in Point
  BY <1>1, PolledOK
<1>3. points[Polled] \in Row /\ (points[Polled].write => IsWriteable(Mode[Polled]))
  BY <1>2 DEF IInv, PointsOK
<1>4. /\ poll' \in PollState /\ poll'.stage = "fetched" /\ poll'.pp = poll.pp
      /\ poll'.row = points[Polled]
  BY <1>1, <1>3 DEF PollOK, PollState
<1>5. PollOK'
  BY <1>2, <1>3, <1>4 DEF PollOK, MayWrite, Polled
<1>6. UNCHANGED points /\ PollUnchanged /\ register' \in [Point -> Value]
  BY DEF FetchOk, PollUnchanged, IInv, RestOK
<1> QED BY <1>5, <1>6, PollMoves

\* A poll that ends with nothing in its hands.
LEMMA IdlePollFits == poll' = IdlePoll => PollOK'
BY IdlePollOK DEF PollOK

\* A poll that ends with a nil point stops the timer and drops nothing else.
LEMMA FetchFailsOK ==
  ASSUME IInv, FetchFails
  PROVE  IInv'
<1>1. Sound(queue')
  <2>1. queue' = [queue EXCEPT !.repoll = @ \ {poll.pp}, !.removeCurrent = FALSE]
    BY DEF FetchFails
  <2> QED BY <2>1 DEF IInv, Sound, Queue, Unique, Timed, InStandby
<1>2. PollOK'
  BY IdlePollFits DEF FetchFails
<1>3. UNCHANGED <<firing, orphans, api, checker, pending, points, enabled, register,
                  status, calls, restarts>>
  BY DEF FetchFails
<1>4. ApiOK' /\ CheckerOK' /\ PendingOK' /\ PointsOK' /\ StatusOK' /\ RestOK'
  BY <1>3 DEF IInv, ApiOK, CheckerOK, PendingOK, PointsOK, StatusOK, RestOK
<1> QED BY <1>1, <1>2, <1>4 DEF IInv

\* The answers of the device and the client, good or bad: the row stays.
LEMMA RespondsOK ==
  ASSUME IInv, ReadDevice \/ WriteDevice \/ WriteNothing \/ DeviceFails \/ ClientFails
  PROVE  IInv'
<1>1. PollOK /\ poll.stage = "fetched" /\ poll.row \in Row /\ PollUnchanged
      /\ UNCHANGED points
  BY DEF IInv, PollOK, ReadDevice, WriteDevice, WriteNothing, DeviceFails, ClientFails
<1>2. poll.pp \in PP /\ Polled \in Point
  BY <1>1, PolledOK
<1>3. /\ register \in [Point -> Value] /\ register[Polled] \in Value
      /\ poll.row.wv # NoValue => Readback[poll.row.wv] \in Value
  BY <1>1, <1>2, ManagerAssumption DEF IInv, RestOK, Row
<1>4. /\ register' \in [Point -> Value]
      /\ poll' \in PollState /\ poll'.pp = poll.pp /\ poll'.row = poll.row
      /\ poll'.stage \in {"responded", "failed"}
  <2>1. CASE ReadDevice
    BY <2>1, <1>1, <1>3 DEF ReadDevice, PollOK, PollState
  <2>2. CASE WriteDevice
    BY <2>2, <1>1, <1>3 DEF WriteDevice, PollOK, PollState
  <2>3. CASE WriteNothing
    BY <2>3, <1>1, <1>3 DEF WriteNothing, PollOK, PollState
  <2>4. CASE DeviceFails
    BY <2>4, <1>1, <1>3 DEF DeviceFails, PollOK, PollState, Retries
  <2>5. CASE ClientFails
    BY <2>5, <1>1, <1>3 DEF ClientFails, PollOK, PollState, Retries
  <2> QED BY <2>1, <2>2, <2>3, <2>4, <2>5
<1>5. PollOK'
  BY <1>1, <1>4 DEF PollOK, Polled
<1> QED BY <1>1, <1>4, <1>5, PollMoves

\* The row that PointWrite returns is the row in the database.
LEMMA RecordOK ==
  ASSUME IInv, Record
  PROVE  IInv'
<1>1. PollOK /\ poll.stage = "responded" /\ poll.value \in Value
  BY DEF IInv, Record, PollOK, PollState
<1>2. poll.pp \in PP /\ poll.pp # NoPP /\ Polled \in Point
  BY <1>1, PolledOK
<1> DEFINE new == [points[Polled] EXCEPT !.ov = poll.value]
<1>3. new \in Row /\ new.write = points[Polled].write
  BY <1>1, <1>2 DEF IInv, PointsOK, Row
<1>4. points' = [points EXCEPT ![Polled] = new]
  BY DEF Record
<1> HIDE DEF new
<1>5. PointsOK' /\ points'[Polled] = new
  BY <1>2, <1>3, <1>4 DEF IInv, PointsOK
<1>6. /\ poll' \in PollState /\ poll'.stage = "recorded" /\ poll'.pp = poll.pp
      /\ poll'.row = new
  BY <1>1, <1>3, <1>5 DEF Record, PollOK, PollState
<1>7. PollOK'
  BY <1>2, <1>3, <1>6 DEF PollOK, MayWrite, Polled, IInv, PointsOK
<1>8. UNCHANGED <<queue, firing, orphans, api, checker, pending, enabled, register,
                  status, calls, restarts>>
  BY DEF Record, PollUnchanged
<1>9. Sound(queue') /\ ApiOK' /\ CheckerOK' /\ PendingOK' /\ StatusOK' /\ RestOK'
  BY <1>8 DEF IInv, ApiOK, CheckerOK, PendingOK, StatusOK, RestOK
<1> QED BY <1>5, <1>7, <1>9 DEF IInv

\* When PointWrite fails the poll goes on with no row (internalPointUpdate).
LEMMA RecordFailsOK ==
  ASSUME IInv, RecordFails
  PROVE  IInv'
<1>1. /\ poll' = [poll EXCEPT !.stage = "recorded", !.row = NoRow]
      /\ poll.stage = "responded" /\ PollOK
  BY DEF RecordFails, IInv
<1>2. /\ poll' \in PollState /\ poll'.stage = "recorded" /\ poll'.pp = poll.pp
      /\ poll'.row = NoRow /\ poll.pp # NoPP
  BY <1>1 DEF PollOK, PollState
<1>3. PollOK'
  BY <1>2 DEF PollOK, MayWrite
<1>4. UNCHANGED points /\ PollUnchanged /\ register' \in [Point -> Value]
  BY DEF RecordFails, IInv, RestOK
<1> QED BY <1>3, <1>4, PollMoves

\* The early return from pollSingleNetwork leaves the poll idle.
LEMMA AbandonOK ==
  ASSUME IInv, Abandon
  PROVE  IInv'
<1>1. PollOK'
  BY IdlePollFits DEF Abandon
<1>2. UNCHANGED points /\ PollUnchanged /\ register' \in [Point -> Value]
  BY DEF Abandon, IInv, RestOK
<1> QED BY <1>1, <1>2, PollMoves

\* The completion of a poll.
LEMMA SinglePollFinishedOK ==
  ASSUME IInv, SinglePollFinished
  PROVE  IInv'
<1> DEFINE c == [writeSuccess |-> poll.writeSuccess, readSuccess |-> poll.readSuccess,
                 pointUpdate |-> FALSE, resetPriority |-> TRUE,
                 retryType |-> poll.retryType, notRequired |-> FALSE]
<1>1. /\ poll.stage # "idle" /\ Complete("poll", queue, poll.pp, poll.row, c)
      /\ poll' = IdlePoll
  BY DEF SinglePollFinished
<1>2. c \in Completion /\ poll.row \in Row \cup {NoRow} /\ "poll" \in Actors
  BY DEF IInv, PollOK, PollState, Completion, Actors
<1> HIDE DEF c
<1>3. poll.pp \in PP
  BY <1>1, PolledOK DEF IInv
<1>4. Sound(queue') /\ PendingOK' /\ StatusOK'
  BY <1>1, <1>2, <1>3, CompleteOK DEF IInv
<1>5. PollOK'
  BY <1>1, IdlePollFits
<1>6. UNCHANGED <<firing, orphans, api, checker, points, enabled, register, calls,
                  restarts>>
  BY DEF SinglePollFinished
<1>7. ApiOK' /\ CheckerOK' /\ PointsOK' /\ RestOK'
  BY <1>6 DEF IInv, ApiOK, CheckerOK, PointsOK, RestOK
<1> QED BY <1>4, <1>5, <1>7 DEF IInv

\* Every step of the poll goroutine.
LEMMA PollStepOK == IInv /\ PollStep => IInv'
BY DrawOK, FindDeviceOK, FetchOkOK, FetchFailsOK, RespondsOK, RecordOK, RecordFailsOK, AbandonOK,
   SinglePollFinishedOK DEF PollStep

-----------------------------------------------------------------------------
(* The timers *)

\* A timer that fires, and its callback, whichever timer it was armed as.
LEMMA TimerStepOK ==
  ASSUME IInv, TimerStep
  PROVE  IInv'
<1>0. PICK o \in PP : RepollFires(o) \/ OrphanFires(o) \/ RepollCallback(o)
  BY DEF TimerStep
<1>1. Sound(queue') /\ firing' \subseteq PP /\ orphans' \subseteq PP
  <2>1. CASE RepollFires(o)
    <3>1. queue' = [queue EXCEPT !.repoll = @ \ {o}]
      BY <2>1 DEF RepollFires
    <3>2. Sound(queue')
      BY <3>1, FewerTimersSound DEF IInv
    <3> QED BY <2>1, <3>2 DEF RepollFires, IInv, RestOK
  <2>2. CASE OrphanFires(o)
    BY <2>2 DEF OrphanFires, IInv, RestOK
  <2>3. CASE RepollCallback(o)
    <3> DEFINE stopped == [queue EXCEPT !.repoll = @ \ {o}]
    <3>1. PICK r \in RemoveFromStandbyQueue(stopped, FFPointUUID[o]) :
             queue' = AddToPriorityQueue(r.q, o)
      BY <2>3 DEF RepollCallback
    <3>2. Sound(stopped)
      BY FewerTimersSound DEF IInv
    <3> HIDE DEF stopped
    <3>3. Sound(r.q)
      BY <3>1, <3>2, RemoveFromStandbyQueueSound
    <3>4. Sound(queue')
      BY <3>1, <3>3, AddToPriorityQueueSound
    <3> QED BY <2>3, <3>4 DEF RepollCallback, IInv, RestOK
  <2> QED BY <1>0, <2>1, <2>2, <2>3
<1>2. UNCHANGED <<poll, api, checker, pending, points, enabled, register, status, calls,
                  restarts>>
  BY <1>0 DEF RepollFires, OrphanFires, RepollCallback, TimerUnchanged
<1>3. /\ PollOK' /\ ApiOK' /\ CheckerOK' /\ PendingOK' /\ PointsOK' /\ StatusOK'
      /\ RestOK'
  BY <1>1, <1>2 DEF IInv, PollOK, Polled, ApiOK, CheckerOK, PendingOK, PointsOK,
                    StatusOK, RestOK
<1> QED BY <1>1, <1>3 DEF IInv

-----------------------------------------------------------------------------
(* The queue checker *)

\* The queue checker, with rows that may be out of date.
LEMMA CheckerStepOK ==
  ASSUME IInv, CheckerStep
  PROVE  IInv'
<1>1. Sound(queue') /\ CheckerOK' /\ PendingOK' /\ StatusOK'
  <2>1. CASE CheckQueue
    <3>1. RowsOK(RowsOf(Point))
      BY RowsOfOK DEF IInv
    <3>2. /\ \/ checker' = [rows |-> RowsOf(Point), enabled |-> enabled]
             \/ checker' = IdleChecker
          /\ queue' = queue \/ queue' = EmptyLists(queue)
          /\ UNCHANGED <<pending, status>>
      BY <2>1 DEF CheckQueue
    <3>3. Sound(queue')
      BY <3>2, EmptyListsSound DEF IInv
    <3>4. CheckerOK'
      BY <3>1, <3>2, IdleCheckerOK DEF IInv, CheckerOK, RestOK, RowsOK
    <3> QED BY <3>2, <3>3, <3>4 DEF IInv, PendingOK, StatusOK
  <2>2. ASSUME NEW p \in Point, CheckPoint(p)
        PROVE  Sound(queue') /\ CheckerOK' /\ PendingOK' /\ StatusOK'
    <3> DEFINE row == checker.rows[p]
               o == NewPollingPoint(p)
               c == [writeSuccess |-> FALSE, readSuccess |-> FALSE,
                     pointUpdate |-> TRUE, resetPriority |-> TRUE,
                     retryType |-> "normal", notRequired |-> FALSE]
    <3>1. p \in Todo(checker) /\ row \in Row
      BY <2>2, TodoRow DEF CheckPoint, IInv, CheckerOK
    <3>2. CheckerOK'
      <4>1. checker' = IdleChecker \/ checker' = Done(checker, p)
        BY <2>2 DEF CheckPoint
      <4>2. RowsOK([checker.rows EXCEPT ![p] = NoRow])
        BY DoneOK DEF IInv, CheckerOK
      <4> QED BY <4>1, <4>2, IdleCheckerOK DEF Done, CheckerOK, IInv, RowsOK
    <3>3. Sound(queue') /\ PendingOK' /\ StatusOK'
      <4>1. CASE ~Enabled(p, checker.enabled)
        <5>1. /\ \/ queue' = RemovePollingPointByDeviceUUID(queue, FFDeviceUUID[p])
                 \/ queue' = queue
              /\ UNCHANGED <<pending, status>>
          BY <4>1, <2>2 DEF CheckPoint
        <5> QED BY <5>1, RemovePollingPointByDeviceUUIDSound
                DEF IInv, PendingOK, StatusOK
      <4>2. CASE Enabled(p, checker.enabled) /\ IsQueued(queue, p) = row.enable
        BY <4>2, <2>2 DEF CheckPoint, IInv, PendingOK, StatusOK
      <4>3. CASE /\ Enabled(p, checker.enabled) /\ ~(IsQueued(queue, p) = row.enable)
                 /\ row.enable
        <5>1. /\ FreePP(p) # {}
              /\ Complete("checker", WithPriority(queue, o, "normal"), o, row, c)
          BY <4>3, <2>2 DEF CheckPoint
        <5>2. o \in PP /\ c \in Completion /\ "checker" \in Actors
          BY <5>1, NewPollingPointOK DEF Completion, Retries, Actors
        <5> HIDE DEF o, c, row
        <5>3. Sound(WithPriority(queue, o, "normal"))
          BY <5>2, WithPrioritySound DEF WithPriority, Priority, IInv
        <5> QED BY <3>1, <5>1, <5>2, <5>3, CompleteOK DEF IInv
      <4>4. CASE /\ Enabled(p, checker.enabled) /\ ~(IsQueued(queue, p) = row.enable)
                 /\ ~row.enable
        <5>1. /\ \E r \in RemovePollingPointByPointUUID(queue, p) : queue' = r.q
              /\ UNCHANGED <<pending, status>>
          BY <4>4, <2>2 DEF CheckPoint
        <5> QED BY <5>1, RemovePollingPointByPointUUIDSound DEF IInv, PendingOK, StatusOK
      <4> QED BY <4>1, <4>2, <4>3, <4>4
    <3> QED BY <3>2, <3>3
  <2> QED BY <2>1, <2>2 DEF CheckerStep
<1>2. UNCHANGED <<firing, orphans, poll, api, points, enabled, register, calls, restarts>>
  BY DEF CheckerStep, CheckQueue, CheckPoint, CheckerUnchanged
<1>3. PollOK' /\ ApiOK' /\ PointsOK' /\ RestOK'
  BY <1>2 DEF IInv, PollOK, Polled, ApiOK, PointsOK, RestOK
<1> QED BY <1>1, <1>3 DEF IInv

-----------------------------------------------------------------------------
(* The restart of the process and the field *)

\* A new process: an empty queue, no timers, the database as it was.
LEMMA RestartOK ==
  ASSUME IInv, Restart
  PROVE  IInv'
<1>1. Sound(queue')
  BY NewQueueSound DEF Restart
<1>2. PollOK'
  BY IdlePollFits DEF Restart
<1>3. CheckerOK'
  BY IdleCheckerOK DEF Restart, CheckerOK
<1>4. PendingOK'
  BY NoRowsOK DEF Restart, PendingOK, RowsOK
<1>5. ApiOK'
  <2>1. api' = [IdleApi EXCEPT !.stage = "stopped"]
    BY DEF Restart
  <2> QED BY <2>1, IdleApiOK DEF ApiOK, ApiState
<1>6. restarts' \in Nat
  <2>1. CASE status = "panicked"
    BY <2>1 DEF Restart, IInv, RestOK
  <2>2. CASE status # "panicked"
    BY <2>2 DEF Restart, IInv, RestOK
  <2> QED BY <2>1, <2>2
<1>7. PointsOK' /\ StatusOK' /\ RestOK'
  BY <1>6 DEF Restart, IInv, PointsOK, StatusOK, RestOK
<1> QED BY <1>1, <1>2, <1>3, <1>4, <1>5, <1>7 DEF IInv

\* A register that changes by itself concerns nothing else.
LEMMA FieldChangesOK ==
  ASSUME IInv, NEW p \in Point, FieldChanges(p)
  PROVE  IInv'
<1>1. register' \in [Point -> Value] /\ calls' \in Nat
  BY DEF FieldChanges, IInv, RestOK
<1>2. UNCHANGED <<queue, firing, orphans, poll, api, checker, pending, points, enabled,
                  status, restarts>>
  BY DEF FieldChanges
<1>3. /\ Sound(queue') /\ PollOK' /\ ApiOK' /\ CheckerOK' /\ PendingOK' /\ PointsOK'
      /\ StatusOK' /\ RestOK'
  BY <1>1, <1>2 DEF IInv, PollOK, Polled, ApiOK, CheckerOK, PendingOK, PointsOK,
                    StatusOK, RestOK
<1> QED BY <1>3 DEF IInv

-----------------------------------------------------------------------------
(* The API handlers *)

\* A handler touches neither the poll nor the checker.
LEMMA HandlerMoves ==
  ASSUME IInv, Sound(queue'), ApiOK', PendingOK', PointsOK', StatusOK', RestOK',
         UNCHANGED <<poll, checker>>
  PROVE  IInv'
<1>1. PollOK' /\ CheckerOK'
  BY DEF IInv, PollOK, Polled, CheckerOK
<1> QED BY <1>1 DEF IInv

\* The first step of a handler: a call to the host that may change the database.
LEMMA CallMoves ==
  ASSUME IInv, NEW op, Call(op), CallUnchanged, ApiOK', PointsOK', Sound(queue'),
         enabled' \in [Switch -> BOOLEAN]
  PROVE  IInv'
<1>1. calls' \in Nat
  BY DEF Call, IInv, RestOK
<1>2. PendingOK' /\ StatusOK' /\ RestOK' /\ UNCHANGED <<poll, checker>>
  BY <1>1 DEF CallUnchanged, IInv, PendingOK, StatusOK, RestOK
<1> QED BY <1>2, HandlerMoves

\* A later step of a handler.
LEMMA StepMoves ==
  ASSUME IInv, StepUnchanged, ApiOK', Sound(queue'), PendingOK', StatusOK'
  PROVE  IInv'
<1>1. PointsOK' /\ RestOK' /\ UNCHANGED <<poll, checker>>
  BY DEF StepUnchanged, IInv, PointsOK, RestOK
<1> QED BY <1>1, HandlerMoves

\* The stages of restarting polling hold no rows that the handler had not before.
LEMMA StageOK ==
  ASSUME ApiOK, NEW stage \in {"stopped", "emptied", "network", "stopping", "restarting"},
         api' = [api EXCEPT !.stage = stage]
  PROVE  ApiOK'
BY DEF ApiOK, ApiState

\* A handler that returns.
LEMMA IdleApiFits == api' = IdleApi => ApiOK'
BY IdleApiOK DEF ApiOK

\* addPoint up to the return of CreatePoint: a write is required only of a point
\* that can be written.
LEMMA AddPointOK ==
  ASSUME IInv, NEW p \in Point, AddPoint(p)
  PROVE  IInv'
<1>1. PICK e \in BOOLEAN : points' = [points EXCEPT ![p] =
         [@ EXCEPT !.life = "live", !.enable = e, !.read = TRUE,
                   !.write = IsWriteable(Mode[p]) /\ PollOnStart[p]]]
  BY DEF AddPoint
<1> DEFINE new == [points[p] EXCEPT !.life = "live", !.enable = e, !.read = TRUE,
                           !.write = IsWriteable(Mode[p]) /\ PollOnStart[p]]
<1>2. (IsWriteable(Mode[p]) /\ PollOnStart[p]) \in BOOLEAN /\ points[p] \in Row
  BY DEF IInv, PointsOK
<1>3. new \in Row /\ (new.write => IsWriteable(Mode[p]))
  BY <1>2 DEF Row
<1>4. points' = [points EXCEPT ![p] = new]
  BY <1>1
<1> HIDE DEF new
<1>5. PointsOK' /\ points'[p] = new
  BY <1>3, <1>4 DEF IInv, PointsOK
<1>6. ApiOK'
  BY <1>3, <1>5, JobOK DEF AddPoint, ApiOK
<1>7. Call("add") /\ CallUnchanged /\ UNCHANGED <<queue, enabled>>
  BY DEF AddPoint
<1> QED BY <1>5, <1>6, <1>7, CallMoves DEF IInv, RestOK

\* updatePoint up to the return of UpdatePoint.
LEMMA UpdatePointOK ==
  ASSUME IInv, NEW p \in Point, UpdatePoint(p)
  PROVE  IInv'
<1>1. PICK e \in BOOLEAN, rd \in BOOLEAN :
         /\ Call(IF e THEN "update" ELSE "disable")
         /\ points' = [points EXCEPT ![p] =
                [@ EXCEPT !.enable = e, !.read = rd, !.write = IsWriteable(Mode[p]),
                          !.wv = KeptValue(p)]]
  BY DEF UpdatePoint
<1> DEFINE new == [points[p] EXCEPT !.enable = e, !.read = rd,
                           !.write = IsWriteable(Mode[p]), !.wv = KeptValue(p)]
<1>2. points[p] \in Row
  BY DEF IInv, PointsOK
<1>3. KeptValue(p) \in Value \cup {NoValue} /\ IsWriteable(Mode[p]) \in BOOLEAN
  BY <1>2 DEF Row, IsWriteable, KeptValue
<1>4. points' = [points EXCEPT ![p] = new]
  BY <1>1
<1>5. new \in Row /\ new.write = IsWriteable(Mode[p])
  BY <1>2, <1>3 DEF Row
<1> HIDE DEF new
<1>6. PointsOK' /\ points'[p] = new
  BY <1>4, <1>5 DEF IInv, PointsOK
<1>7. ApiOK'
  BY <1>5, <1>6, JobOK DEF UpdatePoint, ApiOK
<1>8. CallUnchanged /\ UNCHANGED <<queue, enabled>>
  BY DEF UpdatePoint
<1> QED BY <1>1, <1>6, <1>7, <1>8, CallMoves DEF IInv, RestOK

\* writePoint up to the return of PointWrite: the flags stay.
LEMMA WritePointOK ==
  ASSUME IInv, NEW p \in Point, WritePoint(p)
  PROVE  IInv'
<1>1. PICK v \in Value : points' = [points EXCEPT ![p].wv = v]
  BY DEF WritePoint
<1> DEFINE new == [points[p] EXCEPT !.wv = v]
<1>2. new \in Row /\ new.write = points[p].write
  BY DEF IInv, PointsOK, Row
<1>3. points' = [points EXCEPT ![p] = new]
  BY <1>1
<1> HIDE DEF new
<1>4. PointsOK' /\ points'[p] = new
  BY <1>2, <1>3 DEF IInv, PointsOK
<1>5. ApiOK'
  <2>1. api' = Job("written", p, points'[p]) \/ api' = api
    BY DEF WritePoint
  <2>2. new.write => IsWriteable(Mode[p])
    BY <1>2 DEF IInv, PointsOK
  <2> QED BY <2>1, <2>2, <1>2, <1>4, JobOK DEF ApiOK, IInv
<1>6. StatusOK' /\ calls' \in Nat
  BY DEF WritePoint, Call, IInv, StatusOK, RestOK
<1>7. UNCHANGED <<queue, firing, orphans, poll, checker, pending, enabled, register,
                  restarts>>
  BY DEF WritePoint
<1>8. PendingOK' /\ RestOK'
  BY <1>6, <1>7 DEF IInv, PendingOK, RestOK
<1> QED BY <1>4, <1>5, <1>6, <1>7, <1>8, HandlerMoves DEF IInv

\* writePoint stores the flags of a mode that is looked at: reads stay reads.
LEMMA WritePointRequestsOK ==
  ASSUME IInv, NEW p \in Point, WritePointRequests(p)
  PROVE  IInv'
<1> DEFINE w == IsWriteable(Mode[p])
           r == Mode[p] \notin {"write_always", "write_once"}
           row == [api.rows[p] EXCEPT !.write = w, !.read = r]
<1>1. /\ points' = UpdateRow(p, row)
      /\ api' = Job("requested", p, points'[p])
      /\ UNCHANGED <<queue, firing, orphans, poll, checker, pending, enabled, register,
                     status, calls, restarts>>
  BY DEF WritePointRequests
<1>2. api.rows[p] \in Row
  BY TodoRow DEF WritePointRequests, IInv, ApiOK
<1>3. row \in Row /\ (row.write => IsWriteable(Mode[p]))
  <2>1. w \in BOOLEAN /\ (w => IsWriteable(Mode[p]))
    BY DEF IsWriteable
  <2>2. r \in BOOLEAN
    OBVIOUS
  <2> HIDE DEF w, r
  <2>3. row \in Row /\ row.write = w
    BY <1>2, <2>1, <2>2 DEF Row
  <2> QED BY <2>1, <2>3
<1> HIDE DEF row
<1>4. PointsOK'
  BY <1>1, <1>3, UpdateRowOK DEF IInv, PointsOK
<1>5. ApiOK'
  BY <1>1, <1>4, JobOK DEF PointsOK, ApiOK
<1>6. PendingOK' /\ StatusOK' /\ RestOK' /\ Sound(queue')
  BY <1>1 DEF IInv, PendingOK, StatusOK, RestOK
<1> QED BY <1>1, <1>4, <1>5, <1>6, HandlerMoves

\* addPoint queues the new point.
LEMMA AddPointQueuesOK ==
  ASSUME IInv, NEW p \in Point, AddPointQueues(p)
  PROVE  IInv'
<1>1. api' = IdleApi /\ StepUnchanged /\ api.rows[p] \in Row \cup {NoRow}
  BY DEF AddPointQueues, IInv, ApiOK, RowsOK, Rows
<1>2. Sound(queue') /\ PendingOK' /\ StatusOK'
  <2>1. CASE api.rows[p].enable
    <3>1. PICK r \in RemovePollingPointByPointUUID(queue, p) :
             Requeue("api", r.q, p, api.rows[p])
      BY <2>1 DEF AddPointQueues
    <3>2. Sound(r.q)
      BY RemovePollingPointByPointUUIDSound DEF IInv
    <3> QED BY <1>1, <3>1, <3>2, RequeueOK DEF IInv, Actors
  <2>2. CASE ~api.rows[p].enable
    BY <2>2 DEF AddPointQueues, IInv, PendingOK, StatusOK
  <2> QED BY <2>1, <2>2
<1> QED BY <1>1, <1>2, StepMoves, IdleApiFits

\* updatePoint removes the point and queues it anew.
LEMMA UpdatePointQueuesOK ==
  ASSUME IInv, NEW p \in Point, UpdatePointQueues(p)
  PROVE  IInv'
<1>1. api' = IdleApi /\ StepUnchanged /\ api.rows[p] \in Row \cup {NoRow}
  BY DEF UpdatePointQueues, IInv, ApiOK, RowsOK, Rows
<1>2. Sound(queue') /\ PendingOK' /\ StatusOK'
  <2>1. PICK r \in RemovePollingPointByPointUUID(queue, p) :
           IF api.rows[p].enable /\ Enabled(p, enabled)
             THEN Requeue("api", r.q, p, api.rows[p])
             ELSE queue' = r.q /\ UNCHANGED <<pending, status>>
    BY DEF UpdatePointQueues
  <2>2. Sound(r.q)
    BY RemovePollingPointByPointUUIDSound DEF IInv
  <2>3. CASE api.rows[p].enable /\ Enabled(p, enabled)
    BY <1>1, <2>1, <2>2, <2>3, RequeueOK DEF IInv, Actors
  <2>4. CASE ~(api.rows[p].enable /\ Enabled(p, enabled))
    BY <2>1, <2>2, <2>4 DEF IInv, PendingOK, StatusOK
  <2> QED BY <2>3, <2>4
<1> QED BY <1>1, <1>2, StepMoves, IdleApiFits

\* writePoint removes the point and queues it again at once.
LEMMA WritePointQueuesOK ==
  ASSUME IInv, NEW p \in Point, WritePointQueues(p)
  PROVE  IInv'
<1> DEFINE c == [writeSuccess |-> FALSE, readSuccess |-> FALSE,
                 pointUpdate |-> TRUE, resetPriority |-> FALSE,
                 retryType |-> "immediate", notRequired |-> FALSE]
<1>1. api' = IdleApi /\ StepUnchanged /\ api.rows[p] \in Row \cup {NoRow}
  BY DEF WritePointQueues, IInv, ApiOK, RowsOK, Rows
<1>2. Sound(queue') /\ PendingOK' /\ StatusOK'
  <2>1. PICK r \in RemovePollingPointByPointUUID(queue, p) :
           IF r.pp = NoPP THEN queue' = r.q /\ UNCHANGED <<pending, status>>
           ELSE Complete("api", r.q, r.pp, api.rows[p], c)
    BY DEF WritePointQueues
  <2>2. Sound(r.q) /\ r.pp \in PP \cup {NoPP}
    BY RemovePollingPointByPointUUIDSound DEF IInv
  <2>3. c \in Completion /\ "api" \in Actors
    BY DEF Completion, Retries, Actors
  <2> HIDE DEF c
  <2>4. CASE r.pp = NoPP
    BY <2>1, <2>2, <2>4 DEF IInv, PendingOK, StatusOK
  <2>5. CASE r.pp # NoPP
    <3>1. Complete("api", r.q, r.pp, api.rows[p], c) /\ r.pp \in PP
      BY <2>1, <2>2, <2>5
    <3> QED BY <1>1, <2>2, <2>3, <3>1, CompleteOK DEF IInv
  <2> QED BY <2>4, <2>5
<1> QED BY <1>1, <1>2, StepMoves, IdleApiFits

\* deletePoint removes the point from the queue.
LEMMA DeletePointOK ==
  ASSUME IInv, NEW p \in Point, DeletePoint(p)
  PROVE  IInv'
<1>1. /\ \E r \in RemovePollingPointByPointUUID(queue, p) : queue' = r.q
      /\ api' = Job("removed", p, points[p])
      /\ Call("delete") /\ CallUnchanged /\ UNCHANGED <<points, enabled>>
  BY DEF DeletePoint
<1>2. Sound(queue')
  BY <1>1, RemovePollingPointByPointUUIDSound DEF IInv
<1>3. PointsOK /\ points[p] \in Row /\ (points[p].write => IsWriteable(Mode[p]))
  BY DEF IInv, PointsOK
<1>4. ApiOK'
  BY <1>1, <1>3, JobOK DEF ApiOK
<1>5. PointsOK' /\ enabled' \in [Switch -> BOOLEAN]
  BY <1>1, <1>3 DEF PointsOK, IInv, RestOK
<1> QED BY <1>1, <1>2, <1>4, <1>5, CallMoves

\* deletePoint deletes the row.
LEMMA DeletePointRowOK ==
  ASSUME IInv, NEW p \in Point, DeletePointRow(p)
  PROVE  IInv'
<1> DEFINE new == [points[p] EXCEPT !.life = "deleted"]
<1>1. new \in Row /\ new.write = points[p].write
  BY DEF IInv, PointsOK, Row
<1>2. points' = [points EXCEPT ![p] = new]
  BY DEF DeletePointRow
<1> HIDE DEF new
<1>3. PointsOK'
  BY <1>1, <1>2 DEF IInv, PointsOK
<1>4. /\ api' = IdleApi
      /\ UNCHANGED <<queue, firing, orphans, poll, checker, pending, enabled, register,
                     status, calls, restarts>>
  BY DEF DeletePointRow
<1>5. PendingOK' /\ StatusOK' /\ RestOK' /\ Sound(queue')
  BY <1>4 DEF IInv, PendingOK, StatusOK, RestOK
<1> QED BY <1>3, <1>4, <1>5, HandlerMoves, IdleApiFits

\* updateDevice stores the enable flag.
LEMMA UpdateDeviceOK ==
  ASSUME IInv, NEW d \in Device, UpdateDevice(d)
  PROVE  IInv'
<1>1. PICK e \in BOOLEAN :
         /\ enabled' = [enabled EXCEPT ![d] = e]
         /\ api' = [IdleApi EXCEPT !.stage = IF e THEN "enabling" ELSE "disabling",
                                   !.device = d]
  BY DEF UpdateDevice
<1>2. enabled' \in [Switch -> BOOLEAN]
  BY <1>1 DEF IInv, RestOK
<1>3. ApiOK'
  BY <1>1, IdleApiOK DEF ApiOK, ApiState
<1>4. Call("device") /\ CallUnchanged /\ UNCHANGED <<queue, points>>
  BY DEF UpdateDevice
<1>5. PointsOK' /\ Sound(queue')
  BY <1>4 DEF IInv, PointsOK
<1> QED BY <1>2, <1>3, <1>4, <1>5, CallMoves

\* A disabled device takes its points out of the queue.
LEMMA DisableDeviceOK ==
  ASSUME IInv, DisableDevice
  PROVE  IInv'
<1>1. /\ queue' = RemovePollingPointByDeviceUUID(queue, api.device)
      /\ api' = IdleApi /\ UNCHANGED <<pending, status>> /\ StepUnchanged
  BY DEF DisableDevice
<1>2. Sound(queue')
  BY <1>1, RemovePollingPointByDeviceUUIDSound DEF IInv
<1>3. PendingOK' /\ StatusOK'
  BY <1>1 DEF IInv, PendingOK, StatusOK
<1> QED BY <1>1, <1>2, <1>3, StepMoves, IdleApiFits

\* An enabled device holds the rows of its enabled points.
LEMMA EnableDeviceOK ==
  ASSUME IInv, EnableDevice
  PROVE  IInv'
<1> DEFINE rows == RowsOf({p \in Point : /\ FFDeviceUUID[p] = api.device
                                         /\ points[p].enable})
<1>1. /\ \/ api' = IdleApi
         \/ api' = [api EXCEPT !.stage = "readding", !.rows = rows]
      /\ UNCHANGED <<queue, pending, status>> /\ StepUnchanged
  BY DEF EnableDevice
<1>2. RowsOK(rows)
  BY RowsOfOK DEF IInv
<1> HIDE DEF rows
<1>3. ApiOK'
  BY <1>1, <1>2, IdleApiOK DEF IInv, ApiOK, ApiState, RowsOK
<1>4. Sound(queue') /\ PendingOK' /\ StatusOK'
  BY <1>1 DEF IInv, PendingOK, StatusOK
<1> QED BY <1>1, <1>3, <1>4, StepMoves

\* A handler that goes on to its next point is still a handler with proper rows.
LEMMA DoneFits ==
  ASSUME ApiOK, NEW p \in Point, api' = Done(api, p)
  PROVE  ApiOK'
<1>1. RowsOK([api.rows EXCEPT ![p] = NoRow])
  BY DoneOK DEF ApiOK
<1> QED BY <1>1 DEF Done, ApiOK, ApiState, RowsOK

\* An enabled device queues its points one by one.
LEMMA ReAddPointOK ==
  ASSUME IInv, NEW p \in Point, ReAddPoint(p)
  PROVE  IInv'
<1>1. /\ Requeue("api", queue, p, api.rows[p]) /\ StepUnchanged
      /\ api' = IdleApi \/ api' = Done(api, p)
  BY DEF ReAddPoint
<1>2. api.rows[p] \in Row \cup {NoRow} /\ "api" \in Actors
  BY DEF IInv, ApiOK, RowsOK, Rows, Actors
<1>3. Sound(queue') /\ PendingOK' /\ StatusOK'
  BY <1>1, <1>2, RequeueOK DEF IInv
<1>4. ApiOK'
  BY <1>1, DoneFits, IdleApiFits DEF IInv
<1> QED BY <1>1, <1>3, <1>4, StepMoves

\* deleteDevice takes its points out of the queue.
LEMMA DeleteDeviceOK ==
  ASSUME IInv, NEW d \in Device, DeleteDevice(d)
  PROVE  IInv'
<1>1. /\ queue' = RemovePollingPointByDeviceUUID(queue, d)
      /\ api' = [IdleApi EXCEPT !.stage = "uninstalled", !.device = d]
      /\ Call("deleteDevice") /\ CallUnchanged /\ UNCHANGED <<points, enabled>>
  BY DEF DeleteDevice
<1>2. Sound(queue')
  BY <1>1, RemovePollingPointByDeviceUUIDSound DEF IInv
<1>3. ApiOK'
  BY <1>1, IdleApiOK DEF ApiOK, ApiState
<1>4. PointsOK' /\ enabled' \in [Switch -> BOOLEAN]
  BY <1>1 DEF IInv, PointsOK, RestOK
<1> QED BY <1>1, <1>2, <1>3, <1>4, CallMoves

\* deleteDevice deletes the rows of its points.
LEMMA DeleteDeviceRowOK ==
  ASSUME IInv, DeleteDeviceRow
  PROVE  IInv'
<1>1. PointsOK'
  <2>1. ASSUME NEW p \in Point
        PROVE  points'[p] \in Row /\ points'[p].write = points[p].write
    BY DEF DeleteDeviceRow, IInv, PointsOK, Row
  <2>2. points' \in [Point -> Row]
    BY <2>1 DEF DeleteDeviceRow
  <2> QED BY <2>1, <2>2 DEF IInv, PointsOK
<1>2. /\ api' = IdleApi
      /\ UNCHANGED <<queue, firing, orphans, poll, checker, pending, enabled, register,
                     status, calls, restarts>>
  BY DEF DeleteDeviceRow
<1>3. PendingOK' /\ StatusOK' /\ RestOK' /\ Sound(queue')
  BY <1>2 DEF IInv, PendingOK, StatusOK, RestOK
<1> QED BY <1>1, <1>2, <1>3, HandlerMoves, IdleApiFits

\* A handler that returns as a call to the host fails.
LEMMA ApiFailsOK ==
  ASSUME IInv, ApiFails
  PROVE  IInv'
<1>1. api' = IdleApi /\ UNCHANGED <<queue, pending, status>> /\ StepUnchanged
  BY DEF ApiFails
<1>2. Sound(queue') /\ PendingOK' /\ StatusOK'
  BY <1>1 DEF IInv, PendingOK, StatusOK
<1> QED BY <1>1, <1>2, StepMoves, IdleApiFits

-----------------------------------------------------------------------------
(* The restart of polling *)

\* updateNetwork stores the enable flag.
LEMMA UpdateNetworkOK ==
  ASSUME IInv, UpdateNetwork
  PROVE  IInv'
<1>1. /\ Call("network") /\ \E e \in BOOLEAN : enabled' = [enabled EXCEPT ![Network] = e]
      /\ api' = [api EXCEPT !.stage = "network"]
      /\ UNCHANGED <<queue, points>> /\ CallUnchanged
  BY DEF UpdateNetwork
<1>2. Sound(queue') /\ ApiOK'
  BY <1>1, StageOK DEF IInv
<1>3. PointsOK' /\ enabled' \in [Switch -> BOOLEAN]
  BY <1>1 DEF IInv, PointsOK, RestOK
<1> QED BY <1>1, <1>2, <1>3, CallMoves

\* Polling is stopped, or goes on.
LEMMA StopPollingOK ==
  ASSUME IInv, StopPolling
  PROVE  IInv'
<1>1. /\ \/ queue' = EmptyQueue(queue) /\ status' = "stopped"
         \/ UNCHANGED <<queue, status>>
      /\ \/ api' = IdleApi
         \/ \E stage \in {"stopping", "restarting"} : api' = [api EXCEPT !.stage = stage]
      /\ UNCHANGED pending /\ StepUnchanged
  BY DEF StopPolling
<1>2. Sound(queue') /\ PendingOK' /\ StatusOK'
  BY <1>1, EmptyQueueSound DEF IInv, PendingOK, StatusOK
<1>3. ApiOK'
  BY <1>1, StageOK, IdleApiFits DEF IInv
<1> QED BY <1>1, <1>2, <1>3, StepMoves

\* The checker has ended.
LEMMA StopCheckerOK ==
  ASSUME IInv, StopChecker
  PROVE  IInv'
<1>1. /\ api' = IdleApi \/ api' = [api EXCEPT !.stage = "stopped"]
      /\ UNCHANGED <<queue, pending, status>> /\ StepUnchanged
  BY DEF StopChecker
<1>2. Sound(queue') /\ PendingOK' /\ StatusOK'
  BY <1>1 DEF IInv, PendingOK, StatusOK
<1>3. ApiOK'
  BY <1>1, StageOK, IdleApiFits DEF IInv
<1> QED BY <1>1, <1>2, <1>3, StepMoves

\* The process dies on the nil network.
LEMMA RatesFailOK ==
  ASSUME IInv, RatesFail
  PROVE  IInv'
<1>1. status' = "panicked" /\ UNCHANGED <<queue, api, pending>> /\ StepUnchanged
  BY DEF RatesFail
<1>2. Sound(queue') /\ ApiOK' /\ PendingOK' /\ StatusOK'
  BY <1>1 DEF IInv, ApiOK, PendingOK, StatusOK
<1> QED BY <1>1, <1>2, StepMoves

\* RebuildPollingQueue empties the queue once more.
LEMMA RebuildPollingQueueOK ==
  ASSUME IInv, RebuildPollingQueue
  PROVE  IInv'
<1>1. /\ queue' = EmptyQueue(queue) /\ api' = [api EXCEPT !.stage = "emptied"]
      /\ UNCHANGED <<pending, status>> /\ StepUnchanged
  BY DEF RebuildPollingQueue
<1>2. Sound(queue') /\ ApiOK' /\ PendingOK' /\ StatusOK'
  BY <1>1, EmptyQueueSound, StageOK DEF IInv, PendingOK, StatusOK
<1> QED BY <1>1, <1>2, StepMoves

\* RebuildPollingQueue fetches the network, or goes on with no point.
LEMMA FetchNetworkOK ==
  ASSUME IInv, FetchNetwork
  PROVE  IInv'
<1>1. PICK rows : /\ \/ rows = RowsOf({p \in Point : /\ points[p].enable
                                                     /\ Enabled(p, enabled)})
                     \/ rows = NoRows
                  /\ api' = [api EXCEPT !.stage = "rebuilding", !.rows = rows]
  BY DEF FetchNetwork
<1>2. RowsOK(rows)
  BY <1>1, RowsOfOK, NoRowsOK DEF IInv
<1>3. ApiOK'
  BY <1>1, <1>2 DEF IInv, ApiOK, ApiState, RowsOK
<1>4. UNCHANGED <<queue, pending, status>> /\ StepUnchanged
  BY DEF FetchNetwork
<1>5. Sound(queue') /\ PendingOK' /\ StatusOK'
  BY <1>4 DEF IInv, PendingOK, StatusOK
<1> QED BY <1>3, <1>4, <1>5, StepMoves

\* RebuildPollingQueue queues a point with the priority of its row.
LEMMA RebuildPointOK ==
  ASSUME IInv, NEW p \in Point, RebuildPoint(p)
  PROVE  IInv'
<1> DEFINE o == NewPollingPoint(p)
           q == WithPriority(queue, o, api.rows[p].priority)
<1>1. /\ p \in Todo(api) /\ FreePP(p) # {}
      /\ \/ queue' = AddToPriorityQueue(q, o) /\ UNCHANGED <<pending, status>>
         \/ Complete("api", q, o, api.rows[p], UpdateCompletion(p))
      /\ api' = Done(api, p) /\ StepUnchanged
  BY DEF RebuildPoint
<1>2. api.rows[p] \in Row /\ o \in PP /\ UpdateCompletion(p) \in Completion
  BY <1>1, TodoRow, NewPollingPointOK, UpdateCompletionOK DEF IInv, ApiOK
<1>3. PICK row \in Row : row = api.rows[p]
  BY <1>2
<1>4. PICK priority \in Priority : priority = row.priority
  BY DEF Row
<1> HIDE DEF o
<1>5. Sound([queue EXCEPT !.priority[o] = priority])
  BY <1>2, WithPrioritySound DEF IInv
<1>6. Sound(q)
  BY <1>3, <1>4, <1>5 DEF WithPriority
<1> HIDE DEF q
<1>7. Sound(queue') /\ PendingOK' /\ StatusOK'
  <2>1. CASE queue' = AddToPriorityQueue(q, o) /\ UNCHANGED <<pending, status>>
    BY <2>1, <1>2, <1>6, AddToPriorityQueueSound DEF IInv, PendingOK, StatusOK
  <2>2. CASE Complete("api", q, o, api.rows[p], UpdateCompletion(p))
    <3>1. "api" \in Actors
      BY DEF Actors
    <3> QED BY <3>1, <2>2, <1>2, <1>6, CompleteOK DEF IInv
  <2> QED BY <1>1, <2>1, <2>2
<1>8. ApiOK'
  BY <1>1, DoneFits DEF IInv
<1> QED BY <1>1, <1>7, <1>8, StepMoves

\* StartPolling draws the first point.
LEMMA StartPollingOK ==
  ASSUME IInv, StartPolling
  PROVE  IInv'
<1>1. /\ queue' \in Start(queue) /\ status' = "running" /\ api' = IdleApi
      /\ UNCHANGED pending /\ StepUnchanged
  BY DEF StartPolling
<1>2. Sound(queue')
  BY <1>1, StartSound DEF IInv
<1>3. PendingOK' /\ StatusOK'
  BY <1>1 DEF IInv, PendingOK, StatusOK
<1> QED BY <1>1, <1>2, <1>3, StepMoves, IdleApiFits

-----------------------------------------------------------------------------
(* The theorems *)

\* Every step of every handler.
LEMMA ApiStepOK ==
  ASSUME IInv, ApiStep
  PROVE  IInv'
<1>1. ASSUME NEW p \in Point,
             \/ AddPoint(p) \/ AddPointQueues(p) \/ UpdatePoint(p)
             \/ UpdatePointQueues(p) \/ WritePoint(p) \/ WritePointRequests(p)
             \/ WritePointQueues(p) \/ DeletePoint(p) \/ DeletePointRow(p)
             \/ ReAddPoint(p) \/ RebuildPoint(p)
      PROVE  IInv'
  BY <1>1, AddPointOK, AddPointQueuesOK, UpdatePointOK, UpdatePointQueuesOK,
     WritePointOK, WritePointRequestsOK, WritePointQueuesOK, DeletePointOK,
     DeletePointRowOK, ReAddPointOK, RebuildPointOK
<1>2. ASSUME NEW d \in Device, UpdateDevice(d) \/ DeleteDevice(d)
      PROVE  IInv'
  BY <1>2, UpdateDeviceOK, DeleteDeviceOK
<1>3. ASSUME \/ DisableDevice \/ EnableDevice \/ DeleteDeviceRow \/ ApiFails
             \/ UpdateNetwork \/ StopPolling \/ StopChecker \/ RatesFail
             \/ RebuildPollingQueue \/ FetchNetwork \/ StartPolling
      PROVE  IInv'
  BY <1>3, DisableDeviceOK, EnableDeviceOK, DeleteDeviceRowOK, ApiFailsOK, RatesFailOK,
     UpdateNetworkOK, StopPollingOK, StopCheckerOK, RebuildPollingQueueOK,
     FetchNetworkOK, StartPollingOK
<1> QED BY <1>1, <1>2, <1>3 DEF ApiStep

\* Every step of every actor, and a stutter, preserves the inductive invariant.
LEMMA NextOK == IInv /\ [Next]_vars => IInv'
<1> SUFFICES ASSUME IInv, [Next]_vars PROVE IInv'
  OBVIOUS
<1>1. CASE PollStep
  BY <1>1, PollStepOK
<1>2. CASE ApiStep
  BY <1>2, ApiStepOK
<1>3. CASE TimerStep
  BY <1>3, TimerStepOK
<1>4. CASE CheckerStep
  BY <1>4, CheckerStepOK
<1>5. CASE Restart
  BY <1>5, RestartOK
<1>6. ASSUME NEW a \in Actors, Save(a) PROVE IInv'
  BY <1>6, SaveOK
<1>7. ASSUME NEW p \in Point, FieldChanges(p) PROVE IInv'
  BY <1>7, FieldChangesOK
<1>8. CASE UNCHANGED vars
  BY <1>8 DEF vars, IInv, PollOK, Polled, ApiOK, CheckerOK, PendingOK, PointsOK,
              StatusOK, RestOK
<1> QED BY <1>1, <1>2, <1>3, <1>4, <1>5, <1>6, <1>7, <1>8 DEF Next

\* Whatever the poll, the handlers, the timers and the checker do in whatever order,
\* with whatever failures and restarts: the inductive invariant holds.
THEOREM InductiveInvariant == Spec => []IInv
<1>1. Init => IInv
  BY InitOK
<1>2. IInv /\ [Next]_vars => IInv'
  BY NextOK
<1> QED BY <1>1, <1>2, PTL DEF Spec

\* Every variable keeps its type; the poll has a polling point exactly while it is at
\* work, and a row of the database whenever it asks the device (pollSingleNetwork).
THEOREM TypeCorrect == Spec => []TypeOK
<1>1. IInv => TypeOK
  BY IInvImplies
<1> QED BY <1>1, InductiveInvariant, PTL

\* No point waits twice in the priority queue, in whatever order the poll, the
\* handlers, the checker and the re-poll callbacks add it (AddToPriorityQueue).
THEOREM QueueUniqueHolds == Spec => []QueueUnique
<1>1. IInv => QueueUnique
  BY IInvImplies
<1> QED BY <1>1, InductiveInvariant, PTL

\* A re-poll timer that can still be stopped belongs to an entry of the standby list:
\* no handler, restart or removal leaves one behind (PollingPoint.RepollTimer).
THEOREM RepollInStandbyHolds == Spec => []RepollInStandby
<1>1. IInv => RepollInStandby
  BY IInvImplies
<1> QED BY <1>1, InductiveInvariant, PTL

\* No row that is stored, held across a call or about to be written back asks for a
\* write to a point whose mode only reads (WritePollRequired).
THEOREM OnlyWriteModesWriteHolds == Spec => []OnlyWriteModesWrite
<1>1. IInv => OnlyWriteModesWrite
  BY IInvImplies
<1> QED BY <1>1, InductiveInvariant, PTL

-----------------------------------------------------------------------------
(* The places of polling points: in the queue q, out for polling, and in F, the  *)
(* polling points whose late callback will put them into the priority queue.     *)

Placed(q, out, o) == \/ o \in q.heap \/ o = q.next \/ o = out
                     \/ InStandby(q, o)
Held(q, out, F, o) == Placed(q, out, o) \/ o \in F

\* Of the polling points of one UUID only one is held, and it is in one place; one
\* whose callback is late is in standby, if it is anywhere, and has no second timer.
Lonely(q, out, F) == \A x, y \in PP :
    /\ FFPointUUID[x] = FFPointUUID[y]
    /\ Held(q, out, F, x) /\ Held(q, out, F, y)
    => x = y
OnePlace(q, out, F, o) ==
    /\ o \in q.heap => o # q.next
    /\ o \in q.heap \/ o = q.next => o # out
    /\ o \in q.heap \/ o = q.next \/ o = out => q.standby[o] = 0 /\ o \notin F
    /\ q.standby[o] <= 1
    /\ o \in F => o \notin q.repoll
Tidy(q, out, F) == Lonely(q, out, F) /\ \A o \in PP : OnePlace(q, out, F, o)

\* No polling point of p is held.
Clear(q, out, F, p) == \A o \in PP : FFPointUUID[o] = p => ~Held(q, out, F, o)

\* A queue with fewer entries and timers is as tidy.
LEMMA FewerTidy ==
  ASSUME NEW q \in Queue, NEW r \in Queue, NEW out, NEW F, Tidy(q, out, F),
         NEW left \in {out, NoPP}, NEW G \in SUBSET F,
         r.heap \subseteq q.heap, r.next \in {q.next, NoPP}, r.repoll \subseteq q.repoll,
         \A o \in PP : r.standby[o] <= q.standby[o]
  PROVE  /\ Tidy(r, left, G)
         /\ \A o \in PP : Held(r, left, G, o) => Held(q, out, F, o)
<1>0. q.standby \in [PP -> Nat] /\ r.standby \in [PP -> Nat]
  BY DEF Queue
<1>1. ASSUME NEW o \in PP, Held(r, left, G, o)
      PROVE  Held(q, out, F, o)
  BY <1>0, <1>1, NilAssumption DEF Held, Placed, InStandby
<1>2. Lonely(r, left, G)
  BY <1>1 DEF Lonely, Tidy
<1>3. ASSUME NEW o \in PP
      PROVE  OnePlace(r, left, G, o)
  <2>1. OnePlace(q, out, F, o) /\ r.standby[o] <= q.standby[o]
    BY DEF Tidy
  <2>2. r.next = o => q.next = o
    BY NilAssumption
  <2>3. left = o => out = o
    BY NilAssumption
  <2>4. r.standby[o] \in Nat /\ q.standby[o] \in Nat
    BY <1>0
  <2> QED BY <2>1, <2>2, <2>3, <2>4 DEF OnePlace
<1> QED BY <1>1, <1>2, <1>3 DEF Tidy

\* The next point is popped off the priority queue: nothing comes or goes
\* (setNextPollPoint).
LEMMA SetNextPollPointTidy ==
  ASSUME NEW q \in Queue, NEW out, NEW F, Tidy(q, out, F),
         NEW r \in SetNextPollPoint(q)
  PROVE  /\ r \in Queue /\ Tidy(r, out, F) /\ r.removeCurrent = q.removeCurrent
         /\ \A o \in PP : Placed(r, out, o) <=> Placed(q, out, o)
<1>1. CASE q.next # NoPP \/ q.heap = {}
  BY <1>1 DEF SetNextPollPoint
<1>2. CASE ~(q.next # NoPP \/ q.heap = {})
  <2>1. PICK o \in q.heap :
           r = [q EXCEPT !.heap = @ \ {o}, !.next = o, !.repoll = @ \ {o}]
    BY <1>2 DEF SetNextPollPoint, MostUrgent
  <2>2. /\ r \in Queue /\ r.heap = q.heap \ {o} /\ r.next = o /\ o \in PP
        /\ r.repoll = q.repoll \ {o} /\ r.standby = q.standby /\ q.next = NoPP
        /\ r.removeCurrent = q.removeCurrent
    BY <2>1, <1>2 DEF Queue
  <2>3. ASSUME NEW x \in PP
        PROVE  Placed(r, out, x) <=> Placed(q, out, x)
    BY <2>2, NilAssumption DEF Placed, InStandby
  <2>4. Lonely(r, out, F)
    BY <2>3 DEF Lonely, Tidy, Held
  <2>5. ASSUME NEW x \in PP
        PROVE  OnePlace(r, out, F, x)
    BY <2>2, NilAssumption DEF Tidy, OnePlace
  <2> QED BY <2>2, <2>3, <2>4, <2>5 DEF Tidy
<1> QED BY <1>1, <1>2

\* The point that was next goes out for polling and leaves its place to another
\* (GetNextPollingPoint).
LEMMA GetNextPollingPointTidy ==
  ASSUME NEW q, Sound(q), NEW F, Tidy(q, NoPP, F), NEW r \in GetNextPollingPoint(q)
  PROVE  /\ Tidy(r, q.next, F) /\ r.removeCurrent = q.removeCurrent
         /\ \A o \in PP : Placed(r, q.next, o) <=> Placed(q, NoPP, o)
<1> DEFINE drawn == [q EXCEPT !.current = q.next, !.next = NoPP]
<1>1. /\ drawn \in Queue /\ drawn.heap = q.heap /\ drawn.next = NoPP
      /\ drawn.standby = q.standby /\ drawn.repoll = q.repoll
      /\ drawn.removeCurrent = q.removeCurrent
  BY DEF Sound, Queue
<1>2. r \in SetNextPollPoint(drawn)
  BY DEF GetNextPollingPoint
<1> HIDE DEF drawn
<1>3. ASSUME NEW o \in PP
      PROVE  Placed(drawn, q.next, o) <=> Placed(q, NoPP, o)
  BY <1>1, NilAssumption DEF Placed, InStandby
<1>4. Lonely(drawn, q.next, F)
  BY <1>3 DEF Lonely, Tidy, Held
<1>5. ASSUME NEW o \in PP
      PROVE  OnePlace(drawn, q.next, F, o)
  BY <1>1, NilAssumption DEF Tidy, OnePlace
<1> QED BY <1>1, <1>2, <1>3, <1>4, <1>5, SetNextPollPointTidy DEF Tidy

\* A point of which nothing is held enters one place.
LEMMA EnterTidy ==
  ASSUME NEW q \in Queue, NEW r \in Queue, NEW out, NEW F, Tidy(q, out, F),
         NEW o \in PP, Clear(q, out, F, FFPointUUID[o]),
         q.heap \subseteq r.heap, r.heap \subseteq q.heap \cup {o}, r.next = q.next,
         r.repoll \subseteq q.repoll \cup {o}, r.standby[o] <= 1,
         \A x \in PP \ {o} : r.standby[x] = q.standby[x],
         o \in r.heap => r.standby[o] = 0
  PROVE  /\ Tidy(r, out, F)
         /\ \A x \in PP : Held(r, out, F, x) => x = o \/ Held(q, out, F, x)
         /\ \A x \in PP : Placed(q, out, x) => Placed(r, out, x)
<1>0. q.standby \in [PP -> Nat] /\ r.standby \in [PP -> Nat]
  BY DEF Queue
<1>1. ~Held(q, out, F, o)
  BY DEF Clear
<1>2. ASSUME NEW x \in PP, Held(r, out, F, x)
      PROVE  x = o \/ Held(q, out, F, x)
  BY <1>2 DEF Held, Placed, InStandby
<1>3. ASSUME NEW x \in PP, Placed(q, out, x)
      PROVE  Placed(r, out, x)
  <2>1. x # o
    BY <1>1, <1>3 DEF Held
  <2> QED BY <1>3, <2>1 DEF Placed, InStandby
<1>4. Lonely(r, out, F)
  <2> SUFFICES ASSUME NEW x \in PP, NEW y \in PP, FFPointUUID[x] = FFPointUUID[y],
                      Held(r, out, F, x), Held(r, out, F, y)
               PROVE  x = y
    BY DEF Lonely
  <2>1. x = o \/ Held(q, out, F, x)
    BY <1>2
  <2>2. y = o \/ Held(q, out, F, y)
    BY <1>2
  <2> QED BY <2>1, <2>2 DEF Clear, Tidy, Lonely
<1>5. ASSUME NEW x \in PP
      PROVE  OnePlace(r, out, F, x)
  <2>1. CASE x = o
    <3>1. o \notin q.heap /\ o # q.next /\ o # out /\ o \notin F
      BY <1>1 DEF Held, Placed
    <3>2. r.next # o
      BY <3>1
    <3> QED BY <2>1, <3>1, <3>2 DEF OnePlace
  <2>2. CASE x # o
    <3>1. OnePlace(q, out, F, x) /\ r.standby[x] = q.standby[x]
      BY <2>2 DEF Tidy
    <3>2. (x \in r.heap <=> x \in q.heap) /\ (x \in r.repoll => x \in q.repoll)
      BY <2>2
    <3> QED BY <3>1, <3>2 DEF OnePlace
  <2> QED BY <2>1, <2>2
<1> QED BY <1>2, <1>3, <1>4, <1>5 DEF Tidy

\* Start forgets the next point and draws another (PollQueue.Start).
LEMMA StartTidy ==
  ASSUME NEW q, Sound(q), NEW out, NEW F, Tidy(q, out, F), NEW r \in Start(q)
  PROVE  /\ Tidy(r, out, F) /\ ~r.removeCurrent
         /\ \A o \in PP : Held(r, out, F, o) => Held(q, out, F, o)
         /\ q.next = NoPP => \A o \in PP : Placed(q, out, o) => Placed(r, out, o)
<1> DEFINE fresh == [q EXCEPT !.next = NoPP, !.current = NoPP, !.removeCurrent = FALSE]
<1>1. /\ fresh \in Queue /\ fresh.heap = q.heap /\ fresh.next = NoPP
      /\ fresh.standby = q.standby /\ fresh.repoll = q.repoll
      /\ fresh.removeCurrent = FALSE /\ q \in Queue
  BY DEF Sound, Queue
<1>2. r \in SetNextPollPoint(fresh)
  BY DEF Start
<1> HIDE DEF fresh
<1>3. \A o \in PP : fresh.standby[o] <= q.standby[o]
  BY <1>1 DEF Queue
<1>4. /\ Tidy(fresh, out, F)
      /\ \A o \in PP : Held(fresh, out, F, o) => Held(q, out, F, o)
  BY <1>1, <1>3, FewerTidy, out \in {out, NoPP}, F \in SUBSET F
<1>5. q.next = NoPP => \A o \in PP : Placed(q, out, o) => Placed(fresh, out, o)
  BY <1>1 DEF Placed, InStandby
<1>6. /\ Tidy(r, out, F) /\ r.removeCurrent = fresh.removeCurrent
      /\ \A o \in PP : Placed(r, out, o) <=> Placed(fresh, out, o)
  BY <1>1, <1>2, <1>4, SetNextPollPointTidy
<1> QED BY <1>1, <1>4, <1>5, <1>6 DEF Held

\* What is removed from the standby list leaves it (removePollingPoint).
LEMMA RemoveFromStandbyQueueTidy ==
  ASSUME NEW q, Sound(q), NEW out, NEW F, Tidy(q, out, F), NEW p,
         NEW r \in RemoveFromStandbyQueue(q, p)
  PROVE  /\ Tidy(r.q, out, F)
         /\ \A o \in PP : Held(r.q, out, F, o) => Held(q, out, F, o)
<1> DEFINE found == {o \in PP : InStandby(q, o) /\ FFPointUUID[o] = p}
<1>1. CASE found = {}
  <2>1. r = [q |-> q, pp |-> NoPP]
    BY <1>1 DEF RemoveFromStandbyQueue
  <2>2. r.q = q
    BY <2>1
  <2> QED BY <2>2
<1>2. CASE found # {}
  <2>1. PICK o \in found :
          r = [q  |-> [q EXCEPT !.standby[o] = @ - 1, !.repoll = @ \ {o}], pp |-> o]
    BY <1>2 DEF RemoveFromStandbyQueue
  <2>2. q \in Queue /\ r.q \in Queue
    BY RemoveFromStandbyQueueSound DEF Sound
  <2> DEFINE s == [q EXCEPT !.standby[o] = @ - 1, !.repoll = @ \ {o}]
  <2>3. r.q = s
    BY <2>1
  <2>4. /\ s.heap = q.heap /\ s.next = q.next /\ s.repoll = q.repoll \ {o}
        /\ s.standby = [q.standby EXCEPT ![o] = @ - 1]
    BY <2>2 DEF Queue
  <2> HIDE DEF s
  <2>5. \A x \in PP : s.standby[x] <= q.standby[x]
    BY <2>2, <2>4 DEF Queue
  <2> QED BY <2>2, <2>3, <2>4, <2>5, FewerTidy, out \in {out, NoPP}, F \in SUBSET F
<1> QED BY <1>1, <1>2

\* Removing a point leaves no more than there was (RemovePollingPointByPointUUID).
LEMMA RemovePollingPointByPointUUIDTidy ==
  ASSUME NEW q, Sound(q), NEW out, NEW F, Tidy(q, out, F), NEW p,
         NEW r \in RemovePollingPointByPointUUID(q, p)
  PROVE  /\ Tidy(r.q, out, F)
         /\ \A o \in PP : Held(r.q, out, F, o) => Held(q, out, F, o)
<1> DEFINE queued == {o \in q.heap : FFPointUUID[o] = p}
<1> USE out \in {out, NoPP}, F \in SUBSET F
<1>0. q \in Queue /\ r.q \in Queue
  BY RemovePollingPointByPointUUIDSound DEF Sound
<1>1. CASE Of(q.current, p)
  <2>1. r.q = [q EXCEPT !.removeCurrent = TRUE]
    BY <1>1 DEF RemovePollingPointByPointUUID
  <2>2. /\ r.q.heap = q.heap /\ r.q.next = q.next /\ r.q.repoll = q.repoll
        /\ \A x \in PP : r.q.standby[x] <= q.standby[x]
    BY <2>1, <1>0 DEF Queue
  <2> QED BY <1>0, <2>2, FewerTidy
<1>2. CASE ~Of(q.current, p) /\ Of(q.next, p)
  <2> DEFINE without == [q EXCEPT !.next = NoPP]
  <2>1. r.q \in SetNextPollPoint(without)
    BY <1>2 DEF RemovePollingPointByPointUUID
  <2>2. /\ without \in Queue /\ without.heap = q.heap /\ without.next = NoPP
        /\ without.repoll = q.repoll
        /\ \A x \in PP : without.standby[x] <= q.standby[x]
    BY <1>0 DEF Queue
  <2> HIDE DEF without
  <2>3. /\ Tidy(without, out, F)
        /\ \A o \in PP : Held(without, out, F, o) => Held(q, out, F, o)
    BY <1>0, <2>2, FewerTidy
  <2>4. /\ Tidy(r.q, out, F)
        /\ \A o \in PP : Placed(r.q, out, o) <=> Placed(without, out, o)
    BY <2>1, <2>2, <2>3, SetNextPollPointTidy
  <2> QED BY <2>3, <2>4 DEF Held
<1>3. CASE ~Of(q.current, p) /\ ~Of(q.next, p) /\ queued # {}
  <2>1. PICK o \in queued : r = [q |-> RemoveFromHeap(q, o), pp |-> o]
    BY <1>3 DEF RemovePollingPointByPointUUID
  <2> DEFINE s == [q EXCEPT !.heap = @ \ {o}, !.repoll = @ \ {o}]
  <2>2. r.q = s
    BY <2>1 DEF RemoveFromHeap
  <2>3. /\ s.heap = q.heap \ {o} /\ s.next = q.next /\ s.repoll = q.repoll \ {o}
        /\ s.standby = q.standby
    BY <1>0 DEF Queue
  <2> HIDE DEF s
  <2>4. \A x \in PP : s.standby[x] <= q.standby[x]
    BY <1>0, <2>3 DEF Queue
  <2> QED BY <1>0, <2>2, <2>3, <2>4, FewerTidy
<1>4. CASE ~Of(q.current, p) /\ ~Of(q.next, p) /\ queued = {}
  <2>1. r \in RemoveFromStandbyQueue(q, p)
    BY <1>4 DEF RemovePollingPointByPointUUID
  <2> QED BY <2>1, RemoveFromStandbyQueueTidy
<1> QED BY <1>1, <1>2, <1>3, <1>4

\* Removing the points of a device, or all, leaves no more than there was
\* (RemovePollingPointByDeviceUUID, EmptyQueue).
LEMMA RemoveAllTidy ==
  ASSUME NEW q, Sound(q), NEW out, NEW F, Tidy(q, out, F), NEW r,
         \/ \E d : r = RemovePollingPointByDeviceUUID(q, d)
         \/ r = EmptyQueue(q)
  PROVE  /\ Tidy(r, out, F)
         /\ \A o \in PP : Held(r, out, F, o) => Held(q, out, F, o)
<1>0. q \in Queue
  BY DEF Sound
<1>1. r \in Queue
  BY RemovePollingPointByDeviceUUIDSound, EmptyQueueSound DEF Sound
<1>2. /\ r.heap \subseteq q.heap /\ r.next \in {q.next, NoPP}
      /\ r.repoll \subseteq q.repoll
      /\ \A x \in PP : r.standby[x] <= q.standby[x]
  <2>1. CASE r = EmptyQueue(q)
    BY <1>0, <2>1, EmptyQueueFields DEF Queue
  <2>2. ASSUME NEW d, r = RemovePollingPointByDeviceUUID(q, d)
        PROVE  <1>2
    <3> DEFINE gone == {o \in PP : /\ FFDeviceUUID[FFPointUUID[o]] = d
                                   /\ o \in q.heap \/ InStandby(q, o)}
    <3>1. r = [q EXCEPT !.heap = @ \ gone,
                        !.standby = [o \in PP |-> IF o \in gone THEN 0 ELSE @[o]],
                        !.repoll = @ \ gone]
      BY <2>2 DEF RemovePollingPointByDeviceUUID
    <3> HIDE DEF gone
    <3>2. /\ r.heap = q.heap \ gone /\ r.next = q.next /\ r.repoll = q.repoll \ gone
          /\ r.standby = [o \in PP |-> IF o \in gone THEN 0 ELSE q.standby[o]]
      BY <3>1, <1>0 DEF Queue
    <3>3. \A x \in PP : q.standby[x] \in Nat
      BY <1>0 DEF Queue
    <3> QED BY <3>2, <3>3
  <2> QED BY <2>1, <2>2
<1> QED BY <1>0, <1>1, <1>2, FewerTidy, out \in {out, NoPP}, F \in SUBSET F

-----------------------------------------------------------------------------
(* The completion of a polling point of which nothing else is held. *)

\* Every mode but write_once_read_once, whose first branch goes on to the second, puts
\* a point in one place at most; a mode that is polled for ever puts it in one, and
\* leaves a row on which something is to be read or written.
LEMMA DisposePlaces ==
  ASSUME NEW mode \in Modes, NEW pt \in Row, NEW c \in Completion
  PROVE  LET d == Dispose(mode, pt, c) IN
         /\ mode # "write_once_read_once" =>
              /\ d.standby \in 0..1
              /\ d.queue => d.standby = 0
         /\ mode \notin {"read_once", "write_once", "write_once_read_once"} =>
              /\ d.queue \/ d.standby = 1
              /\ d.read \/ d.write
<1> USE DEF Modes, ReadModes, WriteModes, ToQueue, ToStandby, ToRepoll, Nowhere
<1>0. /\ pt.read \in BOOLEAN /\ pt.write \in BOOLEAN
      /\ c.writeSuccess \in BOOLEAN /\ c.readSuccess \in BOOLEAN
      /\ c.pointUpdate \in BOOLEAN /\ c.notRequired \in BOOLEAN
  BY DEF Row, Completion
<1>1. CASE mode = "read_once"
  BY <1>0, <1>1 DEF Dispose, ReadOnce
<1>2. CASE mode = "read_only"
  BY <1>0, <1>2 DEF Dispose, ReadOnly
<1>3. CASE mode = "write_once"
  BY <1>0, <1>3 DEF Dispose, WriteOnce
<1>4. CASE mode = "write_once_read_once"
  BY <1>4
<1>5. CASE mode = "write_always"
  BY <1>0, <1>5 DEF Dispose, WriteAlways
<1>6. CASE mode = "write_once_then_read"
  BY <1>0, <1>6 DEF Dispose, WriteOnceThenRead
<1>7. CASE mode = "write_and_maintain"
  BY <1>0, <1>7 DEF Dispose, WriteAndMaintain
<1> QED BY <1>1, <1>2, <1>3, <1>4, <1>5, <1>6, <1>7

\* The branch of the notification that goes through the switch: the point enters the
\* place its mode gives it.
LEMMA DisposalTidy ==
  ASSUME NEW q, Sound(q), NEW out, NEW F, Tidy(q, out, F), NEW o \in PP,
         Clear(q, out, F, FFPointUUID[o]), NEW mode, NEW d, Proper(d, mode),
         d.standby \in 0..1, d.queue => d.standby = 0
  PROVE  LET r == AddToStandbyQueue(IF d.queue THEN AddToPriorityQueue(q, o) ELSE q,
                                    o, d.standby, d.repoll) IN
         /\ Tidy(r, out, F) /\ Sound(r)
         /\ r.removeCurrent = q.removeCurrent /\ r.next = q.next
         /\ \A x \in PP : Held(r, out, F, x) => x = o \/ Held(q, out, F, x)
         /\ \A x \in PP : Placed(q, out, x) => Placed(r, out, x)
         /\ d.queue \/ d.standby = 1 => Placed(r, out, o)
<1> DEFINE s == IF d.queue THEN AddToPriorityQueue(q, o) ELSE q
           r == AddToStandbyQueue(s, o, d.standby, d.repoll)
<1>1. /\ q \in Queue /\ q.standby[o] = 0 /\ o \notin q.heap /\ ~Held(q, out, F, o)
      /\ \A x \in q.heap : FFPointUUID[x] # FFPointUUID[o]
  BY DEF Clear, Held, Placed, Sound, Queue, InStandby
<1>2. /\ s \in Queue /\ s.heap = (IF d.queue THEN q.heap \cup {o} ELSE q.heap)
      /\ s.next = q.next /\ s.repoll = q.repoll /\ s.standby = q.standby
      /\ s.removeCurrent = q.removeCurrent
  BY <1>1 DEF AddToPriorityQueue, Queue
<1>3. Sound(r)
  BY DisposalSound
<1>4. d.standby \in Nat /\ d.standby <= 1
  BY DEF Proper, Disposal
<1> HIDE DEF s
<1>5. /\ r.heap = s.heap /\ r.next = s.next /\ r.removeCurrent = s.removeCurrent
      /\ r.standby = [s.standby EXCEPT ![o] = @ + d.standby]
      /\ r.repoll = (IF d.repoll THEN s.repoll \cup {o} ELSE s.repoll)
  BY <1>2 DEF AddToStandbyQueue, Queue
<1> HIDE DEF r
<1>6. /\ r.standby[o] = d.standby
      /\ \A x \in PP \ {o} : r.standby[x] = q.standby[x]
  BY <1>1, <1>2, <1>4, <1>5 DEF Queue
<1>7. /\ Tidy(r, out, F)
      /\ \A x \in PP : Held(r, out, F, x) => x = o \/ Held(q, out, F, x)
      /\ \A x \in PP : Placed(q, out, x) => Placed(r, out, x)
  <2>1. /\ q.heap \subseteq r.heap /\ r.heap \subseteq q.heap \cup {o}
        /\ r.next = q.next /\ r.repoll \subseteq q.repoll \cup {o}
    BY <1>2, <1>5
  <2>2. o \in r.heap => r.standby[o] = 0
    BY <1>1, <1>2, <1>5, <1>6
  <2>3. r \in Queue /\ r.standby[o] <= 1
    BY <1>3, <1>4, <1>6 DEF Sound
  <2> QED BY <1>1, <1>6, <2>1, <2>2, <2>3, EnterTidy
<1>8. d.queue \/ d.standby = 1 => Placed(r, out, o)
  BY <1>2, <1>5, <1>6 DEF Placed, InStandby
<1> QED BY <1>2, <1>3, <1>5, <1>7, <1>8 DEF r, s

\* Completing a polling point while nothing of its UUID is held brings that polling
\* point into one place at most, and disturbs no other.  When nothing is being removed
\* and the mode is polled for ever, it is in a place then, and a row that is written
\* back still asks for a read or a write.
LEMMA NotificationTidy ==
  ASSUME NEW q, Sound(q), NEW out, NEW F, Tidy(q, out, F), NEW o \in PP,
         Clear(q, out, F, FFPointUUID[o]), NEW pt \in Row \cup {NoRow},
         NEW c \in Completion, Mode[FFPointUUID[o]] # "write_once_read_once"
  PROVE  LET n == PollingPointCompleteNotification(q, o, pt, c) IN
         /\ Tidy(n.q, out, F)
         /\ \A x \in PP : Held(n.q, out, F, x) => x = o \/ Held(q, out, F, x)
         /\ pt # NoRow /\ ~q.removeCurrent /\ Cyclic(FFPointUUID[o]) =>
              /\ ~n.panic /\ ~n.q.removeCurrent /\ n.q.next = q.next
              /\ Placed(n.q, out, o)
              /\ \A x \in PP : Placed(q, out, x) => Placed(n.q, out, x)
              /\ n.row \in Row /\ (n.row.read \/ n.row.write)
              /\ n.row.life = pt.life /\ n.row.enable = pt.enable
<1> DEFINE n == PollingPointCompleteNotification(q, o, pt, c)
           q0 == [q EXCEPT !.repoll = @ \ {o}]
           gone == [q0 EXCEPT !.removeCurrent = FALSE]
           p == FFPointUUID[o]
<1>1. /\ q \in Queue /\ Mode[p] \in Modes
      /\ \A r \in {q0, gone} : /\ Sound(r) /\ r \in Queue /\ r.heap = q.heap
                               /\ r.next = q.next /\ r.standby = q.standby
                               /\ r.repoll \subseteq q.repoll
      /\ q0.removeCurrent = q.removeCurrent
  BY UUIDAssumption DEF Sound, Queue, Unique, Timed, InStandby
<1> HIDE DEF q0, gone
<1>2. \A r \in {q0, gone} :
         /\ Tidy(r, out, F)
         /\ \A x \in PP : Held(r, out, F, x) => Held(q, out, F, x)
  <2> SUFFICES ASSUME NEW r \in {q0, gone}
               PROVE  /\ Tidy(r, out, F)
                      /\ \A x \in PP : Held(r, out, F, x) => Held(q, out, F, x)
    OBVIOUS
  <2>1. \A x \in PP : r.standby[x] <= q.standby[x]
    BY <1>1 DEF Queue
  <2> QED BY <1>1, <2>1, FewerTidy, out \in {out, NoPP}, F \in SUBSET F
<1>3. CASE pt = NoRow \/ (q.removeCurrent /\ q.current = NoPP)
           \/ (q.removeCurrent /\ Of(q.current, p))
  <2>1. n.q \in {q0, gone}
    BY <1>3 DEF PollingPointCompleteNotification, q0, gone
  <2> QED BY <1>2, <1>3, <2>1
<1>4. CASE ~(pt = NoRow \/ (q.removeCurrent /\ q.current = NoPP)
             \/ (q.removeCurrent /\ Of(q.current, p)))
  <2> DEFINE d == Dispose(Mode[p], pt, c)
             q1 == IF c.resetPriority
                     THEN [q0 EXCEPT !.priority[o] = pt.priority] ELSE q0
             q2 == IF d.queue THEN AddToPriorityQueue(q1, o) ELSE q1
             q3 == AddToStandbyQueue(q2, o, d.standby, d.repoll)
             q4 == [q3 EXCEPT !.current = NoPP]
  <2>1. n = [q |-> q4, panic |-> FALSE,
             save |-> d.read # pt.read \/ d.write # pt.write,
             row |-> [pt EXCEPT !.read = d.read, !.write = d.write]]
    BY <1>4 DEF PollingPointCompleteNotification, q0
  <2>2. pt \in Row /\ pt.priority \in Priority
    BY <1>4 DEF Row
  <2>3. Proper(d, Mode[p])
    BY <1>1, <2>2, DisposeProper
  <2>4. /\ d.standby \in 0..1 /\ (d.queue => d.standby = 0)
        /\ Cyclic(p) => (d.queue \/ d.standby = 1) /\ (d.read \/ d.write)
    BY <1>1, <2>2, DisposePlaces DEF Cyclic
  <2>5. /\ Sound(q1) /\ q1 \in Queue /\ q1.heap = q0.heap /\ q1.next = q0.next
        /\ q1.standby = q0.standby /\ q1.repoll = q0.repoll
        /\ q1.removeCurrent = q0.removeCurrent
    <3>1. Sound(q1)
      BY <1>1, <2>2, WithPrioritySound
    <3> QED BY <1>1, <3>1 DEF Sound, Queue
  <2> HIDE DEF q1, d
  <2>6. /\ Tidy(q1, out, F)
        /\ \A x \in PP : Placed(q1, out, x) <=> Placed(q, out, x)
    <3>1. \A x \in PP : q1.standby[x] <= q.standby[x]
      BY <1>1, <2>5 DEF Queue
    <3>2. Tidy(q1, out, F)
      BY <1>1, <2>5, <3>1, FewerTidy, out \in {out, NoPP}, F \in SUBSET F
    <3> QED BY <1>1, <2>5, <3>2 DEF Placed, InStandby
  <2>7. Clear(q1, out, F, p)
    BY <2>6 DEF Clear, Held
  <2>8. /\ Tidy(q3, out, F) /\ Sound(q3)
        /\ q3.removeCurrent = q1.removeCurrent /\ q3.next = q1.next
        /\ \A x \in PP : Held(q3, out, F, x) => x = o \/ Held(q1, out, F, x)
        /\ \A x \in PP : Placed(q1, out, x) => Placed(q3, out, x)
        /\ d.queue \/ d.standby = 1 => Placed(q3, out, o)
    BY <2>3, <2>4, <2>5, <2>6, <2>7, DisposalTidy
  <2> HIDE DEF q2, q3
  <2>9. /\ q4.heap = q3.heap /\ q4.next = q3.next /\ q4.standby = q3.standby
        /\ q4.repoll = q3.repoll /\ q4.removeCurrent = q3.removeCurrent
    BY <2>8 DEF Sound, Queue
  <2>10. n.q = q4 /\ ~n.panic /\ n.row = [pt EXCEPT !.read = d.read, !.write = d.write]
    BY <2>1
  <2> HIDE DEF q4, n
  <2>11. /\ Tidy(q4, out, F)
         /\ \A x \in PP : Placed(q4, out, x) <=> Placed(q3, out, x)
    BY <2>8, <2>9 DEF Tidy, Lonely, OnePlace, Held, Placed, InStandby
  <2>12. /\ \A x \in PP : Held(q4, out, F, x) => x = o \/ Held(q, out, F, x)
         /\ \A x \in PP : Placed(q, out, x) => Placed(q4, out, x)
         /\ d.queue \/ d.standby = 1 => Placed(q4, out, o)
    BY <2>6, <2>8, <2>11 DEF Held
  <2>13. d.read \in BOOLEAN /\ d.write \in BOOLEAN
    BY <2>3 DEF Proper, Disposal
  <2>14. /\ n.row \in Row /\ n.row.read = d.read /\ n.row.write = d.write
         /\ n.row.life = pt.life /\ n.row.enable = pt.enable
    BY <2>2, <2>10, <2>13 DEF Row
  <2>15. q4.removeCurrent = q.removeCurrent /\ q4.next = q.next
    BY <1>1, <2>5, <2>8, <2>9
  <2>16. /\ Tidy(n.q, out, F)
         /\ \A x \in PP : Held(n.q, out, F, x) => x = o \/ Held(q, out, F, x)
         /\ pt # NoRow /\ ~q.removeCurrent /\ Cyclic(p) =>
              /\ ~n.panic /\ ~n.q.removeCurrent /\ n.q.next = q.next
              /\ Placed(n.q, out, o)
              /\ \A x \in PP : Placed(q, out, x) => Placed(n.q, out, x)
              /\ n.row \in Row /\ (n.row.read \/ n.row.write)
              /\ n.row.life = pt.life /\ n.row.enable = pt.enable
    BY <2>4, <2>10, <2>11, <2>12, <2>14, <2>15
  <2> QED BY <2>16 DEF n
<1> QED BY <1>3, <1>4

-----------------------------------------------------------------------------
(* No point is in two places, as long as nothing but the rebuild of the queue puts *)
(* points into it that may be there already.                                       *)

\* The operations that do not put a point that was there before into the queue.
NoRequeue == Ops \subseteq {"add", "disable", "delete", "deleteDevice", "field"}
NoFallThrough == \A p \in Point : Mode[p] # "write_once_read_once"

Nothing(p) == Clear(queue, poll.pp, firing, p)

\* A point that a handler is about to queue is nowhere yet: it is new, or the process
\* has just started.
Announced(p) ==
    /\ points[p].life = "absent" => Nothing(p)
    /\ api.rows[p] # NoRow => points[p].life # "absent"
    /\ api.rows[p] # NoRow /\ api.stage \in {"added", "rebuilding"} => Nothing(p)
    /\ api.rows[p] # NoRow /\ api.stage = "updated" => ~api.rows[p].enable
    /\ api.stage \in {"stopped", "emptied"} => Nothing(p)

Idlers == /\ api.stage \in {"idle", "added", "updated", "removed", "uninstalled",
                            "stopped", "emptied", "rebuilding"}
          /\ checker = IdleChecker /\ orphans = {}

PlacesInv == /\ Tidy(queue, poll.pp, firing)
             /\ \A p \in Point : Announced(p)
             /\ Idlers

\* A step after which no more is held, and the handler goes on as before or returns.
LEMMA FewerHeld ==
  ASSUME PlacesInv, Tidy(queue, poll.pp, firing)',
         \A x \in PP : Held(queue, poll.pp, firing, x)' => Held(queue, poll.pp, firing, x),
         \A p \in Point : /\ points'[p].life = "absent" => points[p].life = "absent"
                          /\ api'.rows[p] \in {api.rows[p], NoRow},
         api'.stage \in {api.stage, "idle"}, checker' = checker, orphans' = {}
  PROVE  PlacesInv'
<1>1. ASSUME NEW p \in Point
      PROVE  Announced(p)'
  <2>1. Nothing(p) => Nothing(p)'
    BY DEF Nothing, Clear
  <2>2. Announced(p)
    BY DEF PlacesInv
  <2> QED BY <2>1, <2>2 DEF Announced
<1>2. Idlers'
  BY DEF PlacesInv, Idlers
<1> QED BY <1>1, <1>2 DEF PlacesInv

\* A step by which the handler puts a point into the queue and is done with it.
LEMMA OneEnters ==
  ASSUME PlacesInv, Tidy(queue, poll.pp, firing)', NEW o \in PP, NEW q \in Point,
         FFPointUUID[o] = q, points[q].life # "absent",
         \A x \in PP : Held(queue, poll.pp, firing, x)' =>
                          x = o \/ Held(queue, poll.pp, firing, x),
         \A p \in Point : api'.rows[p] \in {api.rows[p], NoRow},
         api'.rows[q] = NoRow, api.stage \notin {"stopped", "emptied"},
         api'.stage \in {api.stage, "idle"}, UNCHANGED <<points, checker, orphans>>
  PROVE  PlacesInv'
<1>1. ASSUME NEW p \in Point
      PROVE  Announced(p)'
  <2>1. CASE p = q
    BY <2>1 DEF Announced
  <2>2. CASE p # q
    <3>1. Nothing(p) => Nothing(p)'
      BY <2>2 DEF Nothing, Clear
    <3>2. Announced(p)
      BY DEF PlacesInv
    <3> QED BY <3>1, <3>2 DEF Announced
  <2> QED BY <2>1, <2>2
<1>2. Idlers'
  BY DEF PlacesInv, Idlers
<1> QED BY <1>1, <1>2 DEF PlacesInv

\* An empty queue holds nothing.
LEMMA NewQueueTidy ==
  /\ Tidy(NewQueue, NoPP, {})
  /\ \A o \in PP : ~Held(NewQueue, NoPP, {}, o)
<1>1. ASSUME NEW o \in PP
      PROVE  ~Held(NewQueue, NoPP, {}, o) /\ OnePlace(NewQueue, NoPP, {}, o)
  BY NilAssumption DEF Held, Placed, InStandby, NewQueue, OnePlace
<1> QED BY <1>1 DEF Tidy, Lonely

\* The process starts with an empty queue.
LEMMA FreshPlaces ==
  ASSUME queue = NewQueue, poll = IdlePoll, firing = {}, orphans = {},
         checker = IdleChecker, api = [IdleApi EXCEPT !.stage = "stopped"]
  PROVE  PlacesInv
<1>1. poll.pp = NoPP
  BY DEF IdlePoll
<1>2. api.stage = "stopped" /\ api.rows = NoRows
  BY DEF IdleApi
<1>3. ASSUME NEW p \in Point
      PROVE  Announced(p)
  <2>1. Nothing(p)
    BY <1>1, NewQueueTidy DEF Nothing, Clear
  <2>2. api.rows[p] = NoRow
    BY <1>2 DEF NoRows
  <2> QED BY <1>2, <2>1, <2>2 DEF Announced
<1>4. Idlers
  BY <1>2 DEF Idlers
<1> QED BY <1>1, <1>3, <1>4, NewQueueTidy DEF PlacesInv

\* The restart of the process.
LEMMA RestartPlaces ==
  ASSUME Restart
  PROVE  PlacesInv'
<1>1. /\ queue' = NewQueue /\ poll' = IdlePoll /\ firing' = {} /\ orphans' = {}
      /\ checker' = IdleChecker /\ api' = [IdleApi EXCEPT !.stage = "stopped"]
  BY DEF Restart
<1>2. poll'.pp = NoPP
  BY <1>1 DEF IdlePoll
<1>3. api'.stage = "stopped" /\ api'.rows = NoRows
  BY <1>1 DEF IdleApi
<1>4. ASSUME NEW p \in Point
      PROVE  Announced(p)'
  <2>1. Nothing(p)'
    BY <1>1, <1>2, NewQueueTidy DEF Nothing, Clear
  <2>2. api'.rows[p] = NoRow
    BY <1>3 DEF NoRows
  <2> QED BY <1>3, <2>1, <2>2 DEF Announced
<1>5. Idlers'
  BY <1>1, <1>3 DEF Idlers
<1> QED BY <1>1, <1>2, <1>4, <1>5, NewQueueTidy DEF PlacesInv

-----------------------------------------------------------------------------
\* Drawing the next point.
LEMMA DrawPlaces ==
  ASSUME IInv, PlacesInv, Draw
  PROVE  /\ PlacesInv' /\ queue'.removeCurrent = queue.removeCurrent
         /\ \A o \in PP : Placed(queue, poll.pp, o)' <=> Placed(queue, poll.pp, o)
<1>1. /\ Sound(queue) /\ poll.pp = NoPP /\ poll \in PollState
      /\ queue' \in GetNextPollingPoint(queue)
  BY DEF IInv, PollOK, Draw
<1>2. poll'.pp = queue.next
  BY <1>1 DEF Draw, PollState
<1>3. UNCHANGED <<firing, orphans, api, checker, points>>
  BY DEF Draw
<1>4. Tidy(queue, NoPP, firing)
  BY <1>1 DEF PlacesInv
<1>5. /\ Tidy(queue', queue.next, firing) /\ queue'.removeCurrent = queue.removeCurrent
      /\ \A o \in PP : Placed(queue', queue.next, o) <=> Placed(queue, NoPP, o)
  BY <1>1, <1>4, GetNextPollingPointTidy
<1>6. PlacesInv'
  BY <1>1, <1>2, <1>3, <1>5, FewerHeld DEF Held, PlacesInv, Idlers
<1> QED BY <1>1, <1>2, <1>5, <1>6

\* A step that leaves the queue and the point that is out as they are.
LEMMA StillPlaces ==
  ASSUME PlacesInv, UNCHANGED <<queue, firing, orphans, checker>>, poll'.pp = poll.pp,
         \A p \in Point : /\ points'[p].life = "absent" => points[p].life = "absent"
                          /\ api'.rows[p] \in {api.rows[p], NoRow},
         api'.stage \in {api.stage, "idle"}
  PROVE  PlacesInv'
BY FewerHeld DEF PlacesInv, Idlers, Held

\* A poll that ends without a completion: its point is out no longer, and in no place.
LEMMA DroppedPlaces ==
  ASSUME IInv, IInv', PlacesInv, FetchFails \/ Abandon
  PROVE  PlacesInv'
<1>1. /\ queue \in Queue /\ queue' \in Queue /\ poll'.pp = NoPP
  BY DEF IInv, Sound, FetchFails, Abandon, IdlePoll
<1>2. /\ queue'.heap = queue.heap /\ queue'.next = queue.next
      /\ queue'.repoll \subseteq queue.repoll /\ queue'.standby = queue.standby
  BY <1>1 DEF FetchFails, Abandon, PollUnchanged, Queue
<1>3. \A o \in PP : queue'.standby[o] <= queue.standby[o]
  BY <1>1, <1>2 DEF Queue
<1>4. UNCHANGED <<firing, orphans, api, checker, points>>
  BY DEF FetchFails, Abandon, PollUnchanged
<1>5. /\ Tidy(queue', NoPP, firing)
      /\ \A o \in PP : Held(queue', NoPP, firing, o) => Held(queue, poll.pp, firing, o)
  BY <1>1, <1>2, <1>3, FewerTidy, NoPP \in {poll.pp, NoPP}, firing \in SUBSET firing
     DEF PlacesInv
<1> QED BY <1>1, <1>4, <1>5, FewerHeld DEF PlacesInv, Idlers

\* While a polling point is out nothing else of its UUID is held.
LEMMA OutIsClear ==
  ASSUME IInv, PlacesInv, poll.stage # "idle"
  PROVE  /\ Tidy(queue, NoPP, firing) /\ Clear(queue, NoPP, firing, Polled)
         /\ \A x \in PP : Held(queue, NoPP, firing, x) => Held(queue, poll.pp, firing, x)
         /\ \A x \in PP \ {poll.pp} : Placed(queue, poll.pp, x) =>
                                        Placed(queue, NoPP, x)
         /\ poll.pp \in PP /\ Polled \in Point
<1>1. poll.pp \in PP /\ Polled \in Point
  BY PolledOK DEF IInv
<1>2. queue \in Queue /\ Tidy(queue, poll.pp, firing)
  BY DEF IInv, Sound, PlacesInv
<1>3. \A o \in PP : queue.standby[o] <= queue.standby[o]
  BY <1>2 DEF Queue
<1>4. /\ Tidy(queue, NoPP, firing)
      /\ \A x \in PP : Held(queue, NoPP, firing, x) => Held(queue, poll.pp, firing, x)
  BY <1>2, <1>3, FewerTidy, NoPP \in {poll.pp, NoPP}, firing \in SUBSET firing
<1>5. ~Held(queue, NoPP, firing, poll.pp)
  BY <1>1, <1>2, NilAssumption DEF Tidy, OnePlace, Held, Placed, InStandby, Queue
<1>6. Held(queue, poll.pp, firing, poll.pp)
  BY DEF Held, Placed
<1>7. Clear(queue, NoPP, firing, Polled)
  BY <1>1, <1>2, <1>4, <1>5, <1>6 DEF Clear, Tidy, Lonely, Polled
<1>8. \A x \in PP \ {poll.pp} : Placed(queue, poll.pp, x) => Placed(queue, NoPP, x)
  BY DEF Placed
<1> QED BY <1>1, <1>4, <1>7, <1>8

\* The completion of a poll: the point that was out goes where its mode puts it.
LEMMA SinglePollFinishedPlaces ==
  ASSUME IInv, NoFallThrough, PlacesInv, SinglePollFinished
  PROVE  PlacesInv'
<1> DEFINE c == [writeSuccess |-> poll.writeSuccess, readSuccess |-> poll.readSuccess,
                 pointUpdate |-> FALSE, resetPriority |-> TRUE,
                 retryType |-> poll.retryType, notRequired |-> FALSE]
           n == PollingPointCompleteNotification(queue, poll.pp, poll.row, c)
<1>1. /\ poll.stage # "idle" /\ queue' = n.q /\ poll'.pp = NoPP
      /\ UNCHANGED <<firing, orphans, api, checker, points>>
  BY DEF SinglePollFinished, Complete, IdlePoll
<1>2. c \in Completion /\ poll.row \in Row \cup {NoRow} /\ Sound(queue)
  BY DEF IInv, PollOK, PollState, Completion
<1>3. /\ Tidy(queue, NoPP, firing) /\ Clear(queue, NoPP, firing, Polled)
      /\ \A x \in PP : Held(queue, NoPP, firing, x) => Held(queue, poll.pp, firing, x)
      /\ poll.pp \in PP /\ Polled \in Point
  BY <1>1, OutIsClear
<1> HIDE DEF c
<1>4. /\ Tidy(n.q, NoPP, firing)
      /\ \A x \in PP : Held(n.q, NoPP, firing, x) =>
                          x = poll.pp \/ Held(queue, NoPP, firing, x)
  BY <1>2, <1>3, NotificationTidy DEF NoFallThrough, Polled
<1> HIDE DEF n
<1>5. \A x \in PP : Held(n.q, NoPP, firing, x) => Held(queue, poll.pp, firing, x)
  BY <1>3, <1>4 DEF Held, Placed
<1> QED BY <1>1, <1>4, <1>5, FewerHeld DEF PlacesInv, Idlers

\* Writing back flags neither creates nor deletes a row.
LEMMA SavePlaces ==
  ASSUME IInv, PlacesInv, NEW a \in Actors, Save(a)
  PROVE  PlacesInv'
<1>1. PICK p \in Point : points' \in {UpdateRow(p, pending[a][p]), points}
  BY DEF Save
<1> DEFINE new == [points[p] EXCEPT !.enable = pending[a][p].enable,
                     !.read = pending[a][p].read, !.write = pending[a][p].write]
<1>2. points' = points \/ points' = [points EXCEPT ![p] = new]
  BY <1>1 DEF UpdateRow
<1>3. points \in [Point -> Row] /\ new.life = points[p].life
  BY DEF IInv, PointsOK, Row
<1> HIDE DEF new
<1>4. \A x \in Point : points'[x].life = points[x].life
  BY <1>2, <1>3
<1>5. UNCHANGED <<queue, firing, orphans, poll, api, checker>>
  BY DEF Save
<1> QED BY <1>4, <1>5, StillPlaces

\* The steps of the poll.
LEMMA PollStepPlaces ==
  ASSUME IInv, IInv', NoFallThrough, PlacesInv, PollStep
  PROVE  PlacesInv'
<1>1. CASE \/ FindDevice \/ FetchOk \/ ReadDevice \/ WriteDevice \/ WriteNothing
           \/ DeviceFails \/ ClientFails \/ Record \/ RecordFails
  <2>1. UNCHANGED <<queue, firing, orphans, api, checker>>
    BY <1>1 DEF FindDevice, FetchOk, ReadDevice, WriteDevice, WriteNothing, DeviceFails,
                ClientFails, Record, RecordFails, PollUnchanged
  <2>2. poll'.pp = poll.pp
    BY <1>1 DEF FindDevice, FetchOk, ReadDevice, WriteDevice, WriteNothing, DeviceFails,
                ClientFails, Record, RecordFails, IInv, PollOK, PollState
  <2>3. \A p \in Point : points'[p].life = points[p].life
    BY <1>1 DEF FindDevice, FetchOk, ReadDevice, WriteDevice, WriteNothing, DeviceFails,
                ClientFails, Record, RecordFails, IInv, PointsOK, Row
  <2> QED BY <2>1, <2>2, <2>3, StillPlaces
<1> QED BY <1>1, DrawPlaces, DroppedPlaces, SinglePollFinishedPlaces DEF PollStep

-----------------------------------------------------------------------------
\* The callback of a timer moves its point from standby to the priority queue.
LEMMA RepollCallbackPlaces ==
  ASSUME IInv, PlacesInv, NEW o \in PP, RepollCallback(o)
  PROVE  /\ PlacesInv'
         /\ queue'.removeCurrent = queue.removeCurrent /\ queue'.next = queue.next
         /\ \A x \in PP : /\ Held(queue, poll.pp, firing, x)' =>
                                Held(queue, poll.pp, firing, x)
                          /\ Placed(queue, poll.pp, x) => Placed(queue, poll.pp, x)'
         /\ queue'.heap = queue.heap \cup {o}
         /\ \A x \in PP \ {o} : queue'.standby[x] = queue.standby[x]
<1> DEFINE q0 == [queue EXCEPT !.repoll = @ \ {o}]
           p == FFPointUUID[o]
           F == firing \ {o}
<1>1. PICK r \in RemoveFromStandbyQueue(q0, p) : queue' = AddToPriorityQueue(r.q, o)
  BY DEF RepollCallback
<1>2. /\ o \in firing /\ firing' = F /\ UNCHANGED <<poll, api, checker, points>>
      /\ orphans' = IF o \in queue.repoll THEN orphans \cup {o} ELSE orphans
  BY DEF RepollCallback, TimerUnchanged
<1>3. /\ queue \in Queue /\ queue.standby \in [PP -> Nat] /\ queue.heap \subseteq PP
      /\ Tidy(queue, poll.pp, firing) /\ OnePlace(queue, poll.pp, firing, o)
      /\ Held(queue, poll.pp, firing, o)
  BY <1>2 DEF IInv, Sound, Queue, PlacesInv, Tidy, Held
<1>4. orphans' = orphans
  BY <1>2, <1>3 DEF OnePlace
<1>5. /\ Sound(q0) /\ q0 \in Queue /\ q0.heap = queue.heap /\ q0.next = queue.next
      /\ q0.standby = queue.standby /\ q0.repoll \subseteq queue.repoll
      /\ q0.removeCurrent = queue.removeCurrent
  BY DEF IInv, Sound, Queue, Unique, Timed, InStandby
<1> HIDE DEF q0
<1>6. \A x \in PP : q0.standby[x] <= queue.standby[x]
  BY <1>3, <1>5
<1>7. /\ Tidy(q0, poll.pp, F)
      /\ \A x \in PP : Held(q0, poll.pp, F, x) => Held(queue, poll.pp, firing, x)
  BY <1>3, <1>5, <1>6, FewerTidy, poll.pp \in {poll.pp, NoPP}, F \in SUBSET firing
<1>8. Sound(r.q) /\ r.q \in Queue
  BY <1>1, <1>5, RemoveFromStandbyQueueSound DEF Sound
<1>9. /\ Tidy(r.q, poll.pp, F)
      /\ \A x \in PP : Held(r.q, poll.pp, F, x) => Held(q0, poll.pp, F, x)
  BY <1>1, <1>5, <1>7, RemoveFromStandbyQueueTidy
\* The one entry of the UUID in standby, if there is one, is that of o.
<1>10. /\ r.q.heap = queue.heap /\ r.q.next = queue.next /\ r.q.standby[o] = 0
       /\ r.q.removeCurrent = queue.removeCurrent
       /\ \A x \in PP \ {o} : r.q.standby[x] = queue.standby[x]
  <2> DEFINE found == {x \in PP : InStandby(q0, x) /\ FFPointUUID[x] = p}
  <2>1. found \subseteq {o}
    BY <1>3, <1>5 DEF InStandby, Tidy, Lonely, Held, Placed
  <2>2. CASE found = {}
    <3>1. r = [q |-> q0, pp |-> NoPP]
      BY <1>1, <2>2 DEF RemoveFromStandbyQueue
    <3>2. r.q = q0
      BY <3>1
    <3>3. ~InStandby(q0, o)
      BY <2>2
    <3>4. queue.standby[o] = 0
      BY <1>3, <1>5, <3>3 DEF InStandby
    <3> QED BY <1>5, <3>2, <3>4
  <2>3. CASE found # {}
    <3> DEFINE s == [q0 EXCEPT !.standby[o] = @ - 1, !.repoll = @ \ {o}]
    <3>1. r = [q |-> s, pp |-> o] /\ InStandby(q0, o)
      BY <1>1, <2>1, <2>3 DEF RemoveFromStandbyQueue
    <3>2. r.q = s
      BY <3>1
    <3>3. /\ s.heap = q0.heap /\ s.next = q0.next
          /\ s.removeCurrent = q0.removeCurrent
          /\ s.standby = [q0.standby EXCEPT ![o] = @ - 1]
      BY <1>5 DEF Queue
    <3> HIDE DEF s
    <3>4. queue.standby[o] = 1
      BY <1>3, <1>5, <3>1 DEF InStandby, OnePlace
    <3> QED BY <1>3, <1>5, <3>2, <3>3, <3>4
  <2> QED BY <2>2, <2>3
<1>11. Clear(r.q, poll.pp, F, p)
  <2>1. ~Held(r.q, poll.pp, F, o)
    BY <1>2, <1>3, <1>10 DEF OnePlace, Held, Placed, InStandby
  <2>2. ASSUME NEW x \in PP, FFPointUUID[x] = p, Held(r.q, poll.pp, F, x)
        PROVE  x = o
    BY <1>3, <1>7, <1>9, <2>2 DEF Tidy, Lonely
  <2> QED BY <2>1, <2>2 DEF Clear
<1>12. /\ queue' = [r.q EXCEPT !.heap = @ \cup {o}]
  BY <1>1, <1>8, <1>11 DEF AddToPriorityQueue, Clear, Held, Placed, Queue
<1>13. /\ queue' \in Queue /\ queue'.heap = r.q.heap \cup {o} /\ queue'.next = r.q.next
       /\ queue'.repoll = r.q.repoll /\ queue'.standby = r.q.standby
       /\ queue'.removeCurrent = r.q.removeCurrent
  BY <1>8, <1>12 DEF Queue
<1>14. /\ Tidy(queue', poll.pp, F)
       /\ \A x \in PP : Held(queue', poll.pp, F, x) => x = o \/ Held(r.q, poll.pp, F, x)
  <2>1. queue'.standby[o] <= 1 /\ (o \in queue'.heap => queue'.standby[o] = 0)
    BY <1>10, <1>13
  <2> QED BY <1>8, <1>9, <1>11, <1>13, <2>1, EnterTidy
<1>15. \A x \in PP : Held(queue', poll.pp, F, x) => Held(queue, poll.pp, firing, x)
  BY <1>3, <1>7, <1>9, <1>14
<1>16. \A x \in PP : Placed(queue, poll.pp, x) => Placed(queue', poll.pp, x)
  BY <1>10, <1>13 DEF Placed, InStandby
<1>17. PlacesInv'
  BY <1>2, <1>4, <1>14, <1>15, FewerHeld DEF PlacesInv, Idlers
<1> QED BY <1>2, <1>10, <1>13, <1>15, <1>16, <1>17

\* The steps of the timers.
LEMMA TimerStepPlaces ==
  ASSUME IInv, PlacesInv, TimerStep
  PROVE  PlacesInv'
<1>1. PICK o \in PP : RepollFires(o) \/ OrphanFires(o) \/ RepollCallback(o)
  BY DEF TimerStep
<1>2. CASE RepollFires(o)
  <2>1. /\ o \in queue.repoll /\ queue' = [queue EXCEPT !.repoll = @ \ {o}]
        /\ firing' = firing \cup {o} /\ UNCHANGED <<orphans, poll, api, checker, points>>
    BY <1>2 DEF RepollFires, TimerUnchanged
  <2>2. InStandby(queue, o) /\ queue \in Queue
    BY <2>1 DEF IInv, Sound, Timed
  <2>3. /\ queue'.heap = queue.heap /\ queue'.next = queue.next
        /\ queue'.standby = queue.standby /\ queue'.repoll = queue.repoll \ {o}
    BY <2>1, <2>2 DEF Queue
  <2>4. \A x \in PP : Held(queue, poll.pp, firing, x)' => Held(queue, poll.pp, firing, x)
    BY <2>1, <2>2, <2>3 DEF Held, Placed, InStandby
  <2>5. Lonely(queue, poll.pp, firing)'
    BY <2>4 DEF Lonely, PlacesInv, Tidy
  <2>6. ASSUME NEW x \in PP
        PROVE  OnePlace(queue, poll.pp, firing, x)'
    <3>1. OnePlace(queue, poll.pp, firing, x)
      BY DEF PlacesInv, Tidy
    <3>2. x = o => queue.standby[x] # 0
      BY <2>2 DEF InStandby, Queue
    <3> QED BY <2>1, <2>3, <3>1, <3>2 DEF OnePlace
  <2> QED BY <2>1, <2>4, <2>5, <2>6, FewerHeld DEF Tidy, PlacesInv, Idlers
<1>3. CASE OrphanFires(o)
  BY <1>3 DEF OrphanFires, PlacesInv, Idlers
<1>4. CASE RepollCallback(o)
  BY <1>4, RepollCallbackPlaces
<1> QED BY <1>1, <1>2, <1>3, <1>4

-----------------------------------------------------------------------------
(* The API handlers *)

\* A handler that returns holds no row.
LEMMA IdleHoldsNothing ==
  IdleApi.stage = "idle" /\ \A p \in Point : IdleApi.rows[p] = NoRow
BY DEF IdleApi, NoRows

\* A handler that begins holds a row of its point only.
LEMMA JobHolds ==
  ASSUME NEW stage \in {"added", "updated", "removed"}, NEW p \in Point, NEW row
  PROVE  /\ Job(stage, p, row).stage = stage
         /\ Job(stage, p, row).rows[p] = row
         /\ \A x \in Point \ {p} : Job(stage, p, row).rows[x] = NoRow
<1>1. Job(stage, p, row).stage = stage
  BY DEF Job, IdleApi
<1>2. Job(stage, p, row).rows = [NoRows EXCEPT ![p] = row]
  BY DEF Job, IdleApi
<1> QED BY <1>1, <1>2 DEF NoRows

\* addPoint: the row that is made is of a point that is nowhere.
LEMMA AddPointPlaces ==
  ASSUME IInv, PlacesInv, NEW p \in Point, AddPoint(p)
  PROVE  PlacesInv'
<1>1. /\ points[p].life = "absent" /\ api' = Job("added", p, points'[p])
      /\ UNCHANGED <<queue, firing, orphans, poll, checker>>
  BY DEF AddPoint, CallUnchanged
<1>2. PICK e \in BOOLEAN : points' = [points EXCEPT ![p] =
         [@ EXCEPT !.life = "live", !.enable = e, !.read = TRUE,
                   !.write = IsWriteable(Mode[p]) /\ PollOnStart[p]]]
  BY DEF AddPoint
<1> DEFINE new == [points[p] EXCEPT !.life = "live", !.enable = e, !.read = TRUE,
                                    !.write = IsWriteable(Mode[p]) /\ PollOnStart[p]]
<1>3. points' = [points EXCEPT ![p] = new] /\ new.life = "live"
  BY <1>2 DEF IInv, PointsOK, Row
<1> HIDE DEF new
<1>4. /\ points'[p].life = "live" /\ \A x \in Point \ {p} : points'[x] = points[x]
  BY <1>3 DEF IInv, PointsOK
<1>5. /\ api'.stage = "added" /\ \A x \in Point \ {p} : api'.rows[x] = NoRow
  BY <1>1, JobHolds
<1>6. ASSUME NEW x \in Point
      PROVE  Announced(x)'
  <2>1. Nothing(x)' <=> Nothing(x)
    BY <1>1 DEF Nothing, Clear, Held, Placed
  <2>2. points[x].life = "absent" => Nothing(x)
    BY DEF PlacesInv, Announced
  <2>3. CASE x = p
    BY <1>1, <1>4, <1>5, <2>1, <2>2, <2>3 DEF Announced
  <2>4. CASE x # p
    BY <1>4, <1>5, <2>1, <2>2, <2>4 DEF Announced
  <2> QED BY <2>3, <2>4
<1> QED BY <1>1, <1>5, <1>6 DEF PlacesInv, Idlers

\* A handler that begins, with a row of a point that is not new, and leaves the queue
\* with no more than it had.
LEMMA CallPlaces ==
  ASSUME IInv, PlacesInv, Tidy(queue, poll.pp, firing)',
         \A x \in PP : Held(queue, poll.pp, firing, x)' => Held(queue, poll.pp, firing, x),
         \A x \in Point : points'[x].life = points[x].life,
         NEW p \in Point, points[p].life # "absent",
         NEW stage \in {"updated", "removed"}, NEW row,
         api' = Job(stage, p, row), stage = "updated" => ~row.enable,
         UNCHANGED <<orphans, checker>>
  PROVE  PlacesInv'
<1>1. /\ api'.stage = stage /\ api'.rows[p] = row
      /\ \A x \in Point \ {p} : api'.rows[x] = NoRow
  BY JobHolds
<1>2. ASSUME NEW x \in Point
      PROVE  Announced(x)'
  <2>1. Nothing(x) => Nothing(x)'
    BY DEF Nothing, Clear
  <2>2. points[x].life = "absent" => Nothing(x)
    BY DEF PlacesInv, Announced
  <2>3. CASE x = p
    BY <1>1, <2>1, <2>2, <2>3 DEF Announced
  <2>4. CASE x # p
    BY <1>1, <2>1, <2>2, <2>4 DEF Announced
  <2> QED BY <2>3, <2>4
<1> QED BY <1>1, <1>2 DEF PlacesInv, Idlers

\* deletePoint takes the point out of the queue; its row is deleted later.
LEMMA DeletePointPlaces ==
  ASSUME IInv, PlacesInv, NEW p \in Point, DeletePoint(p)
  PROVE  PlacesInv'
<1>1. PICK r \in RemovePollingPointByPointUUID(queue, p) : queue' = r.q
  BY DEF DeletePoint
<1>2. /\ points[p].life = "live" /\ api' = Job("removed", p, points[p])
      /\ UNCHANGED <<points, firing, orphans, poll, checker>>
  BY DEF DeletePoint, CallUnchanged, Live
<1>3. /\ Tidy(queue', poll.pp, firing)
      /\ \A x \in PP : Held(queue', poll.pp, firing, x) => Held(queue, poll.pp, firing, x)
  BY <1>1, RemovePollingPointByPointUUIDTidy DEF IInv, PlacesInv
<1> QED BY <1>2, <1>3, CallPlaces

\* updatePoint may only disable the point.
LEMMA UpdatePointPlaces ==
  ASSUME IInv, NoRequeue, PlacesInv, NEW p \in Point, UpdatePoint(p)
  PROVE  PlacesInv'
<1>1. PICK e \in BOOLEAN, rd \in BOOLEAN :
         /\ Call(IF e THEN "update" ELSE "disable") /\ Live(p)
         /\ points' = [points EXCEPT ![p] =
                [@ EXCEPT !.enable = e, !.read = rd, !.write = IsWriteable(Mode[p]),
                          !.wv = KeptValue(p)]]
  BY DEF UpdatePoint
<1>2. e = FALSE
  BY <1>1 DEF Call, NoRequeue
<1> DEFINE new == [points[p] EXCEPT !.enable = e, !.read = rd,
                                    !.write = IsWriteable(Mode[p]), !.wv = KeptValue(p)]
<1>3. /\ points' = [points EXCEPT ![p] = new]
      /\ new.life = points[p].life /\ new.enable = FALSE
  BY <1>1, <1>2 DEF IInv, PointsOK, Row
<1> HIDE DEF new
<1>4. /\ points'[p].enable = FALSE
      /\ \A x \in Point : points'[x].life = points[x].life
  BY <1>3 DEF IInv, PointsOK
<1>5. /\ api' = Job("updated", p, points'[p]) /\ points[p].life = "live"
      /\ UNCHANGED <<queue, firing, orphans, poll, checker>>
  BY <1>1 DEF UpdatePoint, CallUnchanged, Live
<1>6. /\ Tidy(queue, poll.pp, firing)'
      /\ \A x \in PP : Held(queue, poll.pp, firing, x)' => Held(queue, poll.pp, firing, x)
  BY <1>5 DEF PlacesInv, Tidy, Lonely, OnePlace, Held, Placed
<1> QED BY <1>4, <1>5, <1>6, CallPlaces

\* A handler's work on the queue that only takes something out of it.
LEMMA HandlerRemoves ==
  ASSUME PlacesInv, UNCHANGED <<firing, orphans, poll, checker, points>>,
         Tidy(queue', poll.pp, firing),
         \A x \in PP : Held(queue', poll.pp, firing, x) => Held(queue, poll.pp, firing, x),
         api' = IdleApi
  PROVE  PlacesInv'
BY FewerHeld, IdleHoldsNothing DEF PlacesInv, Idlers

\* A disabled point leaves the queue.
LEMMA UpdatePointQueuesPlaces ==
  ASSUME IInv, PlacesInv, NEW p \in Point, UpdatePointQueues(p)
  PROVE  PlacesInv'
<1>1. /\ api.stage = "updated" /\ api.rows[p] # NoRow /\ api' = IdleApi /\ StepUnchanged
  BY DEF UpdatePointQueues, At, Todo
<1>2. ~api.rows[p].enable
  BY <1>1 DEF PlacesInv, Announced
<1>3. PICK r \in RemovePollingPointByPointUUID(queue, p) : queue' = r.q
  BY <1>2 DEF UpdatePointQueues
<1>4. /\ Tidy(queue', poll.pp, firing)
      /\ \A x \in PP : Held(queue', poll.pp, firing, x) => Held(queue, poll.pp, firing, x)
  BY <1>3, RemovePollingPointByPointUUIDTidy DEF IInv, PlacesInv
<1> QED BY <1>1, <1>4, HandlerRemoves DEF StepUnchanged

\* A new polling point is held by nothing when it is made.
LEMMA WithPriorityTidy ==
  ASSUME NEW q, Sound(q), NEW out, NEW F, Tidy(q, out, F), NEW o \in PP,
         NEW priority \in Priority
  PROVE  LET r == WithPriority(q, o, priority) IN
         /\ Sound(r) /\ Tidy(r, out, F)
         /\ r.removeCurrent = q.removeCurrent /\ r.next = q.next
         /\ \A x \in PP : Placed(r, out, x) <=> Placed(q, out, x)
<1> DEFINE r == WithPriority(q, o, priority)
<1>1. Sound(r)
  BY WithPrioritySound DEF WithPriority
<1>2. /\ r.heap = q.heap /\ r.next = q.next /\ r.standby = q.standby
      /\ r.repoll = q.repoll /\ r.removeCurrent = q.removeCurrent
  BY DEF WithPriority, Sound, Queue
<1> HIDE DEF r
<1>3. \A x \in PP : Placed(r, out, x) <=> Placed(q, out, x)
  BY <1>2 DEF Placed, InStandby
<1>4. Tidy(r, out, F)
  BY <1>2, <1>3 DEF Tidy, Lonely, OnePlace, Held
<1> QED BY <1>1, <1>2, <1>3, <1>4 DEF r

\* Completing a new polling point of a point that is nowhere.
LEMMA CompleteNew ==
  ASSUME NEW q, Sound(q), NEW out, NEW F, Tidy(q, out, F), NEW p \in Point,
         Clear(q, out, F, p), FreePP(p) # {}, NoFallThrough, NEW a \in Actors,
         NEW row \in Row \cup {NoRow}, NEW priority \in Priority,
         Complete(a, WithPriority(q, NewPollingPoint(p), priority), NewPollingPoint(p),
                  row, UpdateCompletion(p))
  PROVE  /\ Tidy(queue', out, F)
         /\ \A x \in PP : Held(queue', out, F, x) =>
                             x = NewPollingPoint(p) \/ Held(q, out, F, x)
         /\ row # NoRow /\ ~q.removeCurrent /\ Cyclic(p) =>
              /\ status' = status /\ ~queue'.removeCurrent /\ queue'.next = q.next
              /\ Placed(queue', out, NewPollingPoint(p))
              /\ \A x \in PP : Placed(q, out, x) => Placed(queue', out, x)
              /\ \E new \in Row : /\ new.read \/ new.write
                                  /\ new.life = row.life /\ new.enable = row.enable
                                  /\ pending' \in {pending, [pending EXCEPT ![a][p] = new]}
<1> DEFINE o == NewPollingPoint(p)
           r == WithPriority(q, o, priority)
           n == PollingPointCompleteNotification(r, o, row, UpdateCompletion(p))
<1>1. o \in PP /\ FFPointUUID[o] = p
  BY NewPollingPointOK
<1>2. /\ queue' = n.q /\ (~n.panic => status' = status)
      /\ pending' \in {pending, [pending EXCEPT ![a][FFPointUUID[o]] = n.row]}
  BY DEF Complete
<1> HIDE DEF o
<1>3. /\ Sound(r) /\ Tidy(r, out, F)
      /\ r.removeCurrent = q.removeCurrent /\ r.next = q.next
      /\ \A x \in PP : Placed(r, out, x) <=> Placed(q, out, x)
  BY <1>1, WithPriorityTidy
<1> HIDE DEF r
<1>4. Clear(r, out, F, FFPointUUID[o])
  BY <1>1, <1>3 DEF Clear, Held
<1>5. UpdateCompletion(p) \in Completion
  BY UpdateCompletionOK
<1>6. /\ Tidy(n.q, out, F)
      /\ \A x \in PP : Held(n.q, out, F, x) => x = o \/ Held(r, out, F, x)
      /\ row # NoRow /\ ~r.removeCurrent /\ Cyclic(p) =>
           /\ ~n.panic /\ ~n.q.removeCurrent /\ n.q.next = r.next
           /\ Placed(n.q, out, o)
           /\ \A x \in PP : Placed(r, out, x) => Placed(n.q, out, x)
           /\ n.row \in Row /\ (n.row.read \/ n.row.write)
           /\ n.row.life = row.life /\ n.row.enable = row.enable
  BY <1>1, <1>3, <1>4, <1>5, NotificationTidy DEF NoFallThrough
<1> HIDE DEF n
<1> QED BY <1>1, <1>2, <1>3, <1>6 DEF Held, o

\* addPoint queues its point, which was nowhere.
LEMMA AddPointQueuesPlaces ==
  ASSUME IInv, NoFallThrough, PlacesInv, NEW p \in Point, AddPointQueues(p)
  PROVE  PlacesInv'
<1>1. /\ api.stage = "added" /\ api.rows[p] # NoRow /\ api' = IdleApi /\ StepUnchanged
  BY DEF AddPointQueues, At, Todo
<1>2. /\ Sound(queue) /\ Tidy(queue, poll.pp, firing) /\ Nothing(p)
      /\ points[p].life # "absent" /\ api.rows[p] \in Row \cup {NoRow}
  BY <1>1 DEF IInv, ApiOK, RowsOK, Rows, PlacesInv, Announced
<1>3. CASE ~api.rows[p].enable
  <2>1. queue' = queue
    BY <1>3 DEF AddPointQueues
  <2> QED BY <1>1, <1>2, <2>1, HandlerRemoves DEF StepUnchanged
<1>4. CASE api.rows[p].enable
  <2>1. PICK r \in RemovePollingPointByPointUUID(queue, p) :
           Requeue("api", r.q, p, api.rows[p])
    BY <1>4 DEF AddPointQueues
  <2> DEFINE q == r.q
  <2>2. /\ Sound(q) /\ Tidy(q, poll.pp, firing)
        /\ \A x \in PP : Held(q, poll.pp, firing, x) => Held(queue, poll.pp, firing, x)
    BY <1>2, RemovePollingPointByPointUUIDTidy, RemovePollingPointByPointUUIDSound
  <2>3. /\ FreePP(p) # {}
        /\ Complete("api", WithPriority(q, NewPollingPoint(p), "normal"),
                    NewPollingPoint(p), api.rows[p], UpdateCompletion(p))
    BY <2>1 DEF Requeue
  <2> HIDE DEF q
  <2>4. Clear(q, poll.pp, firing, p)
    BY <1>2, <2>2 DEF Clear, Nothing
  <2>5. /\ Tidy(queue', poll.pp, firing)
        /\ \A x \in PP : Held(queue', poll.pp, firing, x) =>
                            x = NewPollingPoint(p) \/ Held(q, poll.pp, firing, x)
    BY <1>2, <2>2, <2>3, <2>4, CompleteNew DEF Actors, Priority
  <2>6. NewPollingPoint(p) \in PP /\ FFPointUUID[NewPollingPoint(p)] = p
    BY <2>3, NewPollingPointOK
  <2>7. api'.stage = "idle" /\ \A x \in Point : api'.rows[x] = NoRow
    BY <1>1, IdleHoldsNothing
  <2> QED BY <1>1, <1>2, <2>2, <2>5, <2>6, <2>7, OneEnters DEF StepUnchanged
<1> QED BY <1>3, <1>4

\* deletePoint and deleteDevice delete rows, and make no point new.
LEMMA DeleteRowPlaces ==
  ASSUME IInv, PlacesInv, DeleteDeviceRow \/ \E p \in Point : DeletePointRow(p)
  PROVE  PlacesInv'
<1>1. /\ api' = IdleApi /\ UNCHANGED <<queue, firing, orphans, poll, checker>>
  BY DEF DeleteDeviceRow, DeletePointRow
<1>2. \A x \in Point : points'[x].life = "absent" => points[x].life = "absent"
  <2>1. CASE DeleteDeviceRow
    BY <2>1 DEF DeleteDeviceRow, IInv, PointsOK, Row
  <2>2. ASSUME NEW p \in Point, DeletePointRow(p)
        PROVE  <1>2
    BY <2>2 DEF DeletePointRow, IInv, PointsOK, Row
  <2> QED BY <2>1, <2>2
<1> QED BY <1>1, <1>2, IdleHoldsNothing, StillPlaces

\* deleteDevice takes the points of the device out of the two lists.
LEMMA DeleteDevicePlaces ==
  ASSUME IInv, PlacesInv, NEW d \in Device, DeleteDevice(d)
  PROVE  PlacesInv'
<1>1. /\ queue' = RemovePollingPointByDeviceUUID(queue, d)
      /\ api' = [IdleApi EXCEPT !.stage = "uninstalled", !.device = d]
      /\ UNCHANGED <<firing, orphans, poll, checker, points>>
  BY DEF DeleteDevice, CallUnchanged
<1>2. /\ Tidy(queue', poll.pp, firing)
      /\ \A x \in PP : Held(queue', poll.pp, firing, x) => Held(queue, poll.pp, firing, x)
  BY <1>1, RemoveAllTidy DEF IInv, PlacesInv
<1>3. api'.stage = "uninstalled" /\ \A x \in Point : api'.rows[x] = NoRow
  BY <1>1 DEF IdleApi, NoRows
<1>4. ASSUME NEW x \in Point
      PROVE  Announced(x)'
  <2>1. Nothing(x) => Nothing(x)'
    BY <1>1, <1>2 DEF Nothing, Clear
  <2> QED BY <1>1, <1>3, <2>1 DEF PlacesInv, Announced
<1> QED BY <1>1, <1>2, <1>3, <1>4 DEF PlacesInv, Idlers

\* The rebuild of the queue: everything is taken out first.
LEMMA RebuildPollingQueuePlaces ==
  ASSUME IInv, PlacesInv, RebuildPollingQueue
  PROVE  PlacesInv'
<1>1. /\ queue' = EmptyQueue(queue) /\ api' = [api EXCEPT !.stage = "emptied"]
      /\ UNCHANGED <<firing, orphans, poll, checker, points>> /\ api.stage = "stopped"
  BY DEF RebuildPollingQueue, StepUnchanged, At
<1>2. /\ Tidy(queue', poll.pp, firing)
      /\ \A x \in PP : Held(queue', poll.pp, firing, x) => Held(queue, poll.pp, firing, x)
  BY <1>1, RemoveAllTidy DEF IInv, PlacesInv
<1>3. api'.stage = "emptied" /\ api'.rows = api.rows
  BY <1>1 DEF IInv, ApiOK, ApiState
<1>4. ASSUME NEW x \in Point
      PROVE  Announced(x)'
  <2>1. Nothing(x) => Nothing(x)'
    BY <1>1, <1>2 DEF Nothing, Clear
  <2> QED BY <1>1, <1>3, <2>1 DEF PlacesInv, Announced
<1> QED BY <1>1, <1>2, <1>3, <1>4 DEF PlacesInv, Idlers

\* The rows that the rebuild fetches are of points that are nowhere yet.
LEMMA FetchNetworkPlaces ==
  ASSUME IInv, PlacesInv, FetchNetwork
  PROVE  PlacesInv'
<1>1. PICK rows : /\ \/ rows = RowsOf({p \in Point : points[p].enable
                                                     /\ Enabled(p, enabled)})
                     \/ rows = NoRows
                  /\ api' = [api EXCEPT !.stage = "rebuilding", !.rows = rows]
  BY DEF FetchNetwork
<1>2. /\ UNCHANGED <<queue, firing, orphans, poll, checker, points>>
      /\ api.stage = "emptied"
  BY DEF FetchNetwork, StepUnchanged, At
<1>3. api'.stage = "rebuilding" /\ api'.rows = rows
  BY <1>1 DEF IInv, ApiOK, ApiState
<1>4. \A x \in Point : rows[x] # NoRow => points[x].life = "live"
  BY <1>1 DEF RowsOf, NoRows, Live
<1>5. ASSUME NEW x \in Point
      PROVE  Announced(x)'
  <2>1. Nothing(x) => Nothing(x)'
    BY <1>2 DEF Nothing, Clear, Held, Placed
  <2> QED BY <1>2, <1>3, <1>4, <2>1 DEF PlacesInv, Announced
<1> QED BY <1>2, <1>3, <1>5 DEF PlacesInv, Idlers, Tidy, Lonely, OnePlace, Held, Placed

\* The rebuild queues one of its points, directly or as an update of it.
LEMMA RebuildPointPlaces ==
  ASSUME IInv, NoFallThrough, PlacesInv, NEW p \in Point, RebuildPoint(p)
  PROVE  PlacesInv'
<1> DEFINE o == NewPollingPoint(p)
           q == WithPriority(queue, o, api.rows[p].priority)
<1>1. /\ api.stage = "rebuilding" /\ api.rows[p] # NoRow /\ FreePP(p) # {}
      /\ api' = Done(api, p) /\ StepUnchanged
      /\ \/ queue' = AddToPriorityQueue(q, o)
         \/ Complete("api", q, o, api.rows[p], UpdateCompletion(p))
  BY DEF RebuildPoint, At, Todo
<1>2. /\ Sound(queue) /\ Tidy(queue, poll.pp, firing)
      /\ Clear(queue, poll.pp, firing, p) /\ points[p].life # "absent"
      /\ api.rows[p] \in Row /\ api.rows[p].priority \in Priority
  BY <1>1 DEF IInv, ApiOK, RowsOK, Rows, PlacesInv, Announced, Row, Nothing
<1>3. o \in PP /\ FFPointUUID[o] = p
  BY <1>1, NewPollingPointOK
<1>4. /\ Tidy(queue', poll.pp, firing)
      /\ \A x \in PP : Held(queue', poll.pp, firing, x) =>
                          x = o \/ Held(queue, poll.pp, firing, x)
  <2>1. CASE queue' = AddToPriorityQueue(q, o)
    <3> HIDE DEF o
    <3>1. /\ Sound(q) /\ Tidy(q, poll.pp, firing)
          /\ \A x \in PP : Placed(q, poll.pp, x) <=> Placed(queue, poll.pp, x)
      BY <1>2, <1>3, WithPriorityTidy
    <3> HIDE DEF q
    <3>2. Clear(q, poll.pp, firing, p)
      BY <1>2, <3>1 DEF Clear, Held
    <3>3. q \in Queue /\ Sound(queue')
      BY <1>3, <2>1, <3>1, AddToPriorityQueueSound DEF Sound
    <3>4. /\ q.heap \subseteq queue'.heap /\ queue'.heap \subseteq q.heap \cup {o}
          /\ queue'.next = q.next /\ queue'.standby = q.standby
          /\ queue'.repoll = q.repoll
      BY <1>3, <2>1, <3>3 DEF AddToPriorityQueue, Queue
    <3>5. queue'.standby[o] = 0
      BY <1>3, <3>2, <3>3, <3>4 DEF Clear, Held, Placed, InStandby, Queue
    <3>6. /\ Tidy(queue', poll.pp, firing)
          /\ \A x \in PP : Held(queue', poll.pp, firing, x) =>
                              x = o \/ Held(q, poll.pp, firing, x)
      BY <1>3, <3>1, <3>2, <3>3, <3>4, <3>5, EnterTidy DEF Sound
    <3> QED BY <3>1, <3>6 DEF Held
  <2>2. CASE Complete("api", q, o, api.rows[p], UpdateCompletion(p))
    BY <1>1, <1>2, <2>2, CompleteNew DEF Actors
  <2> QED BY <1>1, <2>1, <2>2
<1>5. /\ api'.stage = api.stage /\ api'.rows[p] = NoRow
      /\ \A x \in Point : api'.rows[x] \in {api.rows[x], NoRow}
  BY <1>1 DEF Done, IInv, ApiOK, ApiState, Rows
<1> HIDE DEF o
<1> QED BY <1>1, <1>2, <1>3, <1>4, <1>5, OneEnters DEF StepUnchanged

\* Polling starts with what is most urgent as the next point.
LEMMA StartPollingPlaces ==
  ASSUME IInv, PlacesInv, StartPolling
  PROVE  PlacesInv'
<1>1. /\ queue' \in Start(queue) /\ api' = IdleApi /\ StepUnchanged
      /\ Sound(queue)
  BY DEF StartPolling, IInv
<1>2. /\ Tidy(queue', poll.pp, firing)
      /\ \A x \in PP : Held(queue', poll.pp, firing, x) => Held(queue, poll.pp, firing, x)
  BY <1>1, StartTidy DEF PlacesInv
<1> QED BY <1>1, <1>2, HandlerRemoves DEF StepUnchanged

\* The steps of the handlers: those that would queue a point that may be in the queue
\* are not called, or are not at the stage to do it.
LEMMA ApiStepPlaces ==
  ASSUME IInv, NoRequeue, NoFallThrough, PlacesInv, ApiStep
  PROVE  PlacesInv'
<1>1. ASSUME NEW p \in Point,
             \/ AddPoint(p) \/ AddPointQueues(p) \/ UpdatePoint(p)
             \/ UpdatePointQueues(p) \/ DeletePoint(p) \/ DeletePointRow(p)
             \/ RebuildPoint(p)
      PROVE  PlacesInv'
  BY <1>1, AddPointPlaces, AddPointQueuesPlaces, UpdatePointPlaces,
     UpdatePointQueuesPlaces, DeletePointPlaces, DeleteRowPlaces, RebuildPointPlaces
<1>2. ASSUME NEW p \in Point,
             WritePoint(p) \/ WritePointRequests(p) \/ WritePointQueues(p) \/ ReAddPoint(p)
      PROVE  FALSE
  BY <1>2 DEF WritePoint, WritePointRequests, WritePointQueues, ReAddPoint, Call, At,
              NoRequeue, PlacesInv, Idlers
<1>3. ASSUME NEW d \in Device,
             \/ UpdateDevice(d) \/ DisableDevice \/ EnableDevice
             \/ UpdateNetwork \/ StopPolling \/ StopChecker
      PROVE  FALSE
  BY <1>3 DEF UpdateDevice, DisableDevice, EnableDevice, UpdateNetwork, StopPolling,
              StopChecker, Call, At, NoRequeue, PlacesInv, Idlers
<1>4. CASE ApiFails
  <2>1. api' = IdleApi /\ UNCHANGED <<queue, firing, orphans, poll, checker, points>>
    BY <1>4 DEF ApiFails, StepUnchanged
  <2> QED BY <2>1, IdleHoldsNothing, StillPlaces
<1>5. CASE RatesFail
  <2>1. UNCHANGED <<queue, firing, orphans, poll, checker, points, api>>
    BY <1>5 DEF RatesFail, StepUnchanged
  <2> QED BY <2>1, StillPlaces
<1>6. CASE \/ \E d \in Device : DeleteDevice(d)
           \/ DeleteDeviceRow \/ RebuildPollingQueue \/ FetchNetwork \/ StartPolling
  BY <1>6, DeleteDevicePlaces, DeleteRowPlaces, RebuildPollingQueuePlaces,
     FetchNetworkPlaces, StartPollingPlaces
<1>7. PICK d \in Device : TRUE
  BY ManagerAssumption
<1> QED BY <1>1, <1>2, <1>3, <1>4, <1>5, <1>6, <1>7 DEF ApiStep

\* Every step keeps the points in their places.
LEMMA NextPlaces ==
  ASSUME IInv, IInv', NoRequeue, NoFallThrough, PlacesInv, [Next]_vars
  PROVE  PlacesInv'
<1>1. CASE PollStep
  BY <1>1, PollStepPlaces
<1>2. CASE ApiStep
  BY <1>2, ApiStepPlaces
<1>3. CASE TimerStep
  BY <1>3, TimerStepPlaces
<1>4. CASE CheckerStep
  <2>1. \A p \in Point : checker.rows[p] = NoRow
    BY DEF PlacesInv, Idlers, IdleChecker, NoRows
  <2> QED BY <1>4, <2>1 DEF CheckerStep, CheckQueue, CheckPoint, Todo, NoRequeue
<1>5. CASE Restart
  BY <1>5, RestartPlaces
<1>6. CASE \E a \in Actors : Save(a)
  BY <1>6, SavePlaces
<1>7. CASE \E p \in Point : FieldChanges(p)
  <2>1. UNCHANGED <<queue, firing, orphans, poll, api, checker, points>>
    BY <1>7 DEF FieldChanges
  <2> QED BY <2>1, StillPlaces
<1>8. CASE UNCHANGED vars
  <2>1. UNCHANGED <<queue, firing, orphans, poll, api, checker, points>>
    BY <1>8 DEF vars
  <2> QED BY <2>1, StillPlaces
<1> QED BY <1>1, <1>2, <1>3, <1>4, <1>5, <1>6, <1>7, <1>8 DEF Next

\* What the run checks: the set of places has one element at most.
LEMMA TidyIsAlone ==
  ASSUME IInv, Tidy(queue, poll.pp, firing), NEW p \in Point
  PROVE  Alone(p)
<1>1. ASSUME NEW z \in Places(p)
      PROVE  \E o \in PP : /\ FFPointUUID[o] = p /\ Placed(queue, poll.pp, o)
                           /\ \/ z = <<"queue", o>> /\ o \in queue.heap
                              \/ z = <<"next", o>> /\ o = queue.next
                              \/ z = <<"out", o>> /\ o = poll.pp
                              \/ z = <<"standby", o, 1>> /\ InStandby(queue, o)
  <2>1. ASSUME NEW o \in PP, NEW n \in 1..queue.standby[o]
        PROVE  n = 1 /\ InStandby(queue, o)
    BY DEF Tidy, OnePlace, InStandby, IInv, Sound, Queue
  <2> QED BY <2>1 DEF Places, Placed
<1> SUFFICES ASSUME NEW y \in Places(p), NEW z \in Places(p) PROVE y = z
  BY DEF Alone
<1>2. PICK o \in PP : /\ FFPointUUID[o] = p /\ Placed(queue, poll.pp, o)
                      /\ \/ y = <<"queue", o>> /\ o \in queue.heap
                         \/ y = <<"next", o>> /\ o = queue.next
                         \/ y = <<"out", o>> /\ o = poll.pp
                         \/ y = <<"standby", o, 1>> /\ InStandby(queue, o)
  BY <1>1
<1>3. PICK x \in PP : /\ FFPointUUID[x] = p /\ Placed(queue, poll.pp, x)
                      /\ \/ z = <<"queue", x>> /\ x \in queue.heap
                         \/ z = <<"next", x>> /\ x = queue.next
                         \/ z = <<"out", x>> /\ x = poll.pp
                         \/ z = <<"standby", x, 1>> /\ InStandby(queue, x)
  BY <1>1
<1>4. x = o /\ OnePlace(queue, poll.pp, firing, o)
  BY <1>2, <1>3 DEF Tidy, Lonely, Held
<1>5. InStandby(queue, o) => queue.standby[o] # 0
  BY DEF InStandby
<1> QED BY <1>2, <1>3, <1>4, <1>5 DEF OnePlace

\* The places of the points, from the first state on.
LEMMA PlacesInductive ==
  ASSUME NoRequeue, NoFallThrough
  PROVE  Spec => []PlacesInv
<1>1. Init => PlacesInv
  BY FreshPlaces DEF Init
<1>2. IInv /\ IInv' /\ PlacesInv /\ [Next]_vars => PlacesInv'
  BY NextPlaces
<1> QED BY <1>1, <1>2, InductiveInvariant, PTL DEF Spec

\* No point is in two places at once, though points are added, disabled and deleted one
\* by one or with their device, calls fail and the process restarts at any moment: as
\* long as no operation puts a point into the queue that may be there, and no point
\* is of the mode whose completion enters two lists (poll_queue.go:15).
THEOREM NeverDoubledHolds ==
  ASSUME NoRequeue, NoFallThrough
  PROVE  Spec => []NeverDoubled
<1>1. IInv /\ PlacesInv => NeverDoubled
  BY TidyIsAlone DEF PlacesInv, NeverDoubled
<1> QED BY <1>1, InductiveInvariant, PlacesInductive, PTL

-----------------------------------------------------------------------------
(* Nor is a point lost, while nobody calls and the host answers. *)

NoCalls    == Ops \subseteq {"field"}
HostKeeps  == "grpc" \notin Faults
AllCyclic  == \A p \in Point : Cyclic(p)
\* A point that is to be polled has a flag set, as addPoint leaves it.
Startable  == \A p \in Point : InitRow[p].life = "live" /\ InitRow[p].enable =>
                                   InitRow[p].read \/ InitRow[p].write
Undisturbed == NoCalls /\ HostKeeps /\ AllCyclic /\ Startable

Due(p)    == Live(p) /\ points[p].enable
Asks(row) == row.life = "live" /\ row.enable /\ (row.read \/ row.write)

Quiet ==
    /\ ~queue.removeCurrent /\ Alive /\ enabled = AllEnabled /\ status # "stopped"
    /\ api.stage \in {"idle", "stopped", "emptied", "rebuilding"}
    /\ Running => api.stage = "idle"
    /\ api.stage = "idle" => \A p \in Point : api.rows[p] = NoRow
    /\ api.stage # "idle" => queue.next = NoPP
PollAsks == poll.stage \notin {"idle", "drawn", "found"} => poll.row # NoRow /\ Asks(poll.row)

\* Every row that is held asks for a poll of a point that is due, and a point that is
\* due is in a place, or about to be put into one by the rebuild.
Kept(p) ==
    /\ Due(p) => points[p].read \/ points[p].write
    /\ ~Nothing(p) \/ api.rows[p] # NoRow => Due(p)
    /\ api.rows[p] # NoRow => Asks(api.rows[p])
    /\ \A a \in Actors : pending[a][p] # NoRow => Asks(pending[a][p]) /\ Due(p)
    /\ Due(p) => \/ \E o \in PP : FFPointUUID[o] = p /\ Placed(queue, poll.pp, o)
                 \/ api.rows[p] # NoRow
                 \/ api.stage \in {"stopped", "emptied"}

KeptInv == Quiet /\ PollAsks /\ \A p \in Point : Kept(p)

\* A step that neither brings a point into the queue nor takes one out, and writes and
\* holds only rows that ask.
LEMMA StillKept ==
  ASSUME KeptInv,
         \A x \in PP : /\ Held(queue, poll.pp, firing, x)' =>
                              Held(queue, poll.pp, firing, x)
                       /\ Placed(queue, poll.pp, x) => Placed(queue, poll.pp, x)',
         ~queue'.removeCurrent, api.stage # "idle" => queue'.next = NoPP,
         UNCHANGED <<api, enabled, status>>, PollAsks',
         \A p \in Point : /\ Due(p)' <=> Due(p)
                          /\ Due(p)' => points'[p].read \/ points'[p].write
                          /\ \A a \in Actors : \/ pending'[a][p] \in {pending[a][p], NoRow}
                                               \/ Asks(pending'[a][p]) /\ Due(p)
  PROVE  KeptInv'
<1>1. Quiet'
  BY DEF KeptInv, Quiet, Alive, Running
<1>2. ASSUME NEW p \in Point
      PROVE  Kept(p)'
  <2>1. Nothing(p) => Nothing(p)'
    BY DEF Nothing, Clear
  <2>2. ASSUME NEW a \in Actors, pending'[a][p] # NoRow
        PROVE  Asks(pending'[a][p]) /\ Due(p)
    BY <2>2 DEF KeptInv, Kept
  <2>3. (\E o \in PP : FFPointUUID[o] = p /\ Placed(queue, poll.pp, o))
          => \E o \in PP : FFPointUUID[o] = p /\ Placed(queue, poll.pp, o)'
    OBVIOUS
  <2> QED BY <2>1, <2>2, <2>3 DEF KeptInv, Kept, Asks
<1> QED BY <1>1, <1>2 DEF KeptInv

\* The point that is out is due.
LEMMA OutIsDue ==
  ASSUME IInv, KeptInv, poll.stage # "idle"
  PROVE  poll.pp \in PP /\ Polled \in Point /\ Due(Polled)
<1>1. poll.pp \in PP /\ Polled \in Point
  BY PolledOK DEF IInv
<1>2. ~Nothing(Polled)
  BY <1>1 DEF Nothing, Clear, Held, Placed, Polled
<1> QED BY <1>1, <1>2 DEF KeptInv, Kept

\* Drawing keeps every point in a place.
LEMMA DrawKept ==
  ASSUME IInv, PlacesInv, KeptInv, Draw
  PROVE  KeptInv'
<1>1. /\ queue'.removeCurrent = queue.removeCurrent
      /\ \A o \in PP : Placed(queue, poll.pp, o)' <=> Placed(queue, poll.pp, o)
  BY DrawPlaces
<1>2. UNCHANGED <<firing, api, enabled, status, points, pending>> /\ Running
  BY DEF Draw
<1>3. poll'.stage \in {"idle", "drawn"}
  BY DEF Draw, IInv, PollOK, PollState
<1>4. api.stage = "idle"
  BY <1>2 DEF KeptInv, Quiet
<1> QED BY <1>1, <1>2, <1>3, <1>4, StillKept
        DEF KeptInv, Quiet, PollAsks, Held, Kept, Due, Live

\* The host finds the point that is out, since it is due.
LEMMA HostFinds ==
  ASSUME IInv, KeptInv, HostKeeps, poll.stage # "idle"
  PROVE  /\ Asks(points[Polled]) /\ points[Polled] # NoRow
         /\ ~FetchFails /\ ~RecordFails /\ ~Abandon
<1>1. poll.pp \in PP /\ Polled \in Point /\ Due(Polled)
  BY OutIsDue
<1>2. Enabled(Polled, enabled)
  BY <1>1, UUIDAssumption DEF KeptInv, Quiet, Enabled, AllEnabled, Switch
<1>3. points[Polled].read \/ points[Polled].write
  BY <1>1 DEF KeptInv, Kept
<1>4. points[Polled] # NoRow
  BY <1>1, NoRowAssumption DEF IInv, PointsOK
<1>5. Asks(points[Polled]) /\ Fetchable(Polled) /\ Live(Polled)
  BY <1>1, <1>2, <1>3 DEF Due, Asks, Fetchable, Live
<1> QED BY <1>2, <1>4, <1>5 DEF FetchFails, Refused, RecordFails, Abandon, HostKeeps

\* The steps of a poll between the draw and its end.
LEMMA PollGoesOnKept ==
  ASSUME IInv, KeptInv, HostKeeps,
         \/ FindDevice \/ FetchOk \/ FetchFails \/ ReadDevice \/ WriteDevice
         \/ WriteNothing \/ DeviceFails \/ ClientFails \/ RecordFails \/ Abandon
  PROVE  KeptInv'
<1>1. poll.stage # "idle"
  BY DEF FindDevice, FetchOk, FetchFails, Refused, ReadDevice, WriteDevice, WriteNothing,
         DeviceFails, ClientFails, RecordFails, Abandon
<1>2. Asks(points[Polled]) /\ points[Polled] # NoRow
  BY <1>1, HostFinds
<1>3. ~FetchFails /\ ~RecordFails /\ ~Abandon
  BY <1>1, HostFinds
<1>4. /\ UNCHANGED <<queue, firing, api, enabled, status, points, pending>>
      /\ poll'.pp = poll.pp
  BY <1>3 DEF FindDevice, FetchOk, ReadDevice, WriteDevice, WriteNothing, DeviceFails,
              ClientFails, PollUnchanged, IInv, PollOK, PollState
<1>5. PollAsks'
  <2>1. CASE FindDevice \/ FetchOk
    BY <1>2, <2>1 DEF FindDevice, FetchOk, PollAsks, Asks, IInv, PollOK, PollState
  <2>2. CASE ReadDevice \/ WriteDevice \/ WriteNothing \/ DeviceFails \/ ClientFails
    <3>1. poll.stage = "fetched" /\ poll'.row = poll.row
      BY <2>2 DEF ReadDevice, WriteDevice, WriteNothing, DeviceFails, ClientFails,
                  IInv, PollOK, PollState
    <3> QED BY <3>1 DEF KeptInv, PollAsks, Asks
  <2> QED BY <1>3, <2>1, <2>2
<1> QED BY <1>4, <1>5, StillKept DEF KeptInv, Quiet, Held, Placed, InStandby, Kept, Due, Live

\* Recording a value changes no flag.
LEMMA RecordKept ==
  ASSUME IInv, IInv', KeptInv, Record
  PROVE  KeptInv' /\ \A p \in Point : Due(p)' <=> Due(p)
<1>1. poll.stage = "responded" /\ Live(Polled) /\ points' = [points EXCEPT ![Polled].ov = poll.value]
      /\ UNCHANGED <<queue, firing, api, enabled, status, pending>>
  BY DEF Record, PollUnchanged
<1>2. poll.pp \in PP /\ Polled \in Point /\ Due(Polled)
  BY <1>1, OutIsDue
<1> DEFINE new == [points[Polled] EXCEPT !.ov = poll.value]
<1>3. /\ points' = [points EXCEPT ![Polled] = new]
      /\ new.life = points[Polled].life /\ new.enable = points[Polled].enable
      /\ new.read = points[Polled].read /\ new.write = points[Polled].write
  BY <1>1, <1>2 DEF IInv, PointsOK, Row
<1> HIDE DEF new
<1>4. points \in [Point -> Row] /\ points'[Polled] = new
  BY <1>2, <1>3 DEF IInv, PointsOK
<1>5. ASSUME NEW p \in Point
      PROVE  /\ Due(p)' <=> Due(p)
             /\ Due(p)' => points'[p].read \/ points'[p].write
  <2>1. Due(p) => points[p].read \/ points[p].write
    BY DEF KeptInv, Kept
  <2> QED BY <1>3, <1>4, <2>1 DEF Due, Live
<1>6. poll'.row = points'[Polled] /\ poll'.pp = poll.pp
  BY DEF Record, IInv, PollOK, PollState
<1>7. poll'.row # NoRow /\ Asks(poll'.row)
  <2>1. points'[Polled] \in Row
    BY <1>2 DEF IInv, PointsOK
  <2>2. points[Polled].read \/ points[Polled].write
    BY <1>2 DEF KeptInv, Kept
  <2> QED BY <1>2, <1>3, <1>4, <1>6, <2>1, <2>2, NoRowAssumption DEF Asks, Due, Live
<1> QED BY <1>1, <1>5, <1>6, <1>7, StillKept
        DEF KeptInv, Quiet, PollAsks, Asks, Held, Placed, InStandby

\* A poll that is complete puts its point into a place.
LEMMA SinglePollFinishedKept ==
  ASSUME IInv, PlacesInv, KeptInv, NoFallThrough, AllCyclic, SinglePollFinished
  PROVE  KeptInv'
<1> DEFINE c == [writeSuccess |-> poll.writeSuccess, readSuccess |-> poll.readSuccess,
                 pointUpdate |-> FALSE, resetPriority |-> TRUE,
                 retryType |-> poll.retryType, notRequired |-> FALSE]
           n == PollingPointCompleteNotification(queue, poll.pp, poll.row, c)
<1>1. /\ poll.stage \in {"recorded", "failed", "responded"} /\ Running
      /\ queue' = n.q /\ (~n.panic => status' = status) /\ poll' = IdlePoll
      /\ pending' \in {pending, [pending EXCEPT !["poll"][Polled] = n.row]}
      /\ UNCHANGED <<firing, api, enabled, points>>
  BY DEF SinglePollFinished, Complete, Polled
<1>2. /\ c \in Completion /\ poll.row \in Row \cup {NoRow} /\ Sound(queue)
  BY DEF IInv, PollOK, PollState, Completion
<1>3. /\ Tidy(queue, NoPP, firing) /\ Clear(queue, NoPP, firing, Polled)
      /\ \A x \in PP : Held(queue, NoPP, firing, x) => Held(queue, poll.pp, firing, x)
      /\ \A x \in PP \ {poll.pp} : Placed(queue, poll.pp, x) => Placed(queue, NoPP, x)
      /\ poll.pp \in PP /\ Polled \in Point
  BY <1>1, OutIsClear
<1>4. poll.row # NoRow /\ Asks(poll.row) /\ ~queue.removeCurrent /\ api.stage = "idle"
  BY <1>1 DEF KeptInv, PollAsks, Quiet
<1>5. Cyclic(Polled) /\ Mode[Polled] # "write_once_read_once"
  BY <1>3 DEF AllCyclic, NoFallThrough
<1> HIDE DEF c
<1>6. /\ ~n.panic /\ ~n.q.removeCurrent
      /\ \A x \in PP : Held(n.q, NoPP, firing, x) =>
                          x = poll.pp \/ Held(queue, NoPP, firing, x)
      /\ Placed(n.q, NoPP, poll.pp)
      /\ \A x \in PP : Placed(queue, NoPP, x) => Placed(n.q, NoPP, x)
      /\ n.row \in Row /\ (n.row.read \/ n.row.write)
      /\ n.row.life = poll.row.life /\ n.row.enable = poll.row.enable
  BY <1>2, <1>3, <1>4, <1>5, NotificationTidy DEF Polled
<1> HIDE DEF n
<1>7. \A x \in PP : /\ Held(n.q, NoPP, firing, x) => Held(queue, poll.pp, firing, x)
                    /\ Placed(queue, poll.pp, x) => Placed(n.q, NoPP, x)
  BY <1>3, <1>6 DEF Held, Placed
<1>8. poll'.pp = NoPP /\ poll'.stage = "idle"
  BY <1>1 DEF IdlePoll
<1>9. ASSUME NEW p \in Point
      PROVE  /\ Due(p)' <=> Due(p)
             /\ Due(p)' => points'[p].read \/ points'[p].write
             /\ \A a \in Actors : \/ pending'[a][p] \in {pending[a][p], NoRow}
                                  \/ Asks(pending'[a][p]) /\ Due(p)
  <2>1. Due(Polled)
    BY <1>1, OutIsDue
  <2>2. Asks(n.row)
    BY <1>4, <1>6 DEF Asks
  <2>3. pending \in [Actors -> Rows]
    BY DEF IInv, PendingOK
  <2>4. \A a \in Actors : pending'[a][p] = pending[a][p]
                          \/ (p = Polled /\ pending'[a][p] = n.row)
    BY <1>1, <1>3, <2>3 DEF Rows
  <2> QED BY <1>1, <2>1, <2>2, <2>4 DEF Due, Live, KeptInv, Kept
<1> QED BY <1>1, <1>4, <1>6, <1>7, <1>8, <1>9, StillKept DEF PollAsks, KeptInv, Quiet

\* What is written back asks for a poll too.
LEMMA SaveKept ==
  ASSUME IInv, KeptInv, HostKeeps, NEW a \in Actors, Save(a)
  PROVE  KeptInv' /\ \A p \in Point : Due(p)' <=> Due(p)
<1>1. PICK p \in Point : pending[a][p] # NoRow /\ points' = UpdateRow(p, pending[a][p])
  BY DEF Save, HostKeeps
<1>2. /\ UNCHANGED <<queue, firing, api, poll, enabled, status>>
      /\ pending' = [pending EXCEPT ![a] = NoRows]
  BY DEF Save
<1>3. Asks(pending[a][p]) /\ Due(p)
  BY <1>1 DEF KeptInv, Kept
<1> DEFINE new == [points[p] EXCEPT !.enable = pending[a][p].enable,
                     !.read = pending[a][p].read, !.write = pending[a][p].write]
<1>4. points' = [points EXCEPT ![p] = new]
  BY <1>1, <1>3 DEF UpdateRow, Due
<1>5. /\ points \in [Point -> Row] /\ new.life = points[p].life
      /\ new.enable = pending[a][p].enable /\ new.read = pending[a][p].read
      /\ new.write = pending[a][p].write
  BY DEF IInv, PointsOK, Row
<1> HIDE DEF new
<1>6. ASSUME NEW x \in Point
      PROVE  /\ Due(x)' <=> Due(x)
             /\ Due(x)' => points'[x].read \/ points'[x].write
  <2>1. CASE x = p
    BY <1>3, <1>4, <1>5, <2>1 DEF Due, Live, Asks
  <2>2. CASE x # p
    BY <1>4, <1>5, <2>2 DEF Due, Live, KeptInv, Kept
  <2> QED BY <2>1, <2>2
<1>7. \A x \in Point, b \in Actors : pending'[b][x] \in {pending[b][x], NoRow}
  BY <1>2 DEF IInv, PendingOK, NoRows
<1> QED BY <1>2, <1>6, <1>7, StillKept
        DEF KeptInv, Quiet, PollAsks, Asks, Held, Placed, InStandby

\* A timer that fires, and its callback, lose nothing.
LEMMA TimerStepKept ==
  ASSUME IInv, PlacesInv, KeptInv, TimerStep
  PROVE  KeptInv'
<1>1. PICK o \in PP : RepollFires(o) \/ OrphanFires(o) \/ RepollCallback(o)
  BY DEF TimerStep
<1>2. UNCHANGED <<poll, api, pending, points, enabled, status>>
  BY <1>1 DEF RepollFires, OrphanFires, RepollCallback, TimerUnchanged
<1>3. /\ queue'.removeCurrent = queue.removeCurrent /\ queue'.next = queue.next
      /\ \A x \in PP : /\ Held(queue, poll.pp, firing, x)' =>
                             Held(queue, poll.pp, firing, x)
                       /\ Placed(queue, poll.pp, x) => Placed(queue, poll.pp, x)'
  <2>1. CASE RepollFires(o)
    <3>1. /\ o \in queue.repoll /\ queue' = [queue EXCEPT !.repoll = @ \ {o}]
          /\ firing' = firing \cup {o}
      BY <2>1 DEF RepollFires
    <3>2. InStandby(queue, o) /\ queue \in Queue
      BY <3>1 DEF IInv, Sound, Timed
    <3>3. /\ queue'.heap = queue.heap /\ queue'.next = queue.next
          /\ queue'.standby = queue.standby
          /\ queue'.removeCurrent = queue.removeCurrent
      BY <3>1, <3>2 DEF Queue
    <3> QED BY <1>2, <3>1, <3>2, <3>3 DEF Held, Placed, InStandby
  <2>2. CASE OrphanFires(o)
    BY <2>2 DEF OrphanFires, PlacesInv, Idlers
  <2>3. CASE RepollCallback(o)
    BY <2>3, RepollCallbackPlaces
  <2> QED BY <1>1, <2>1, <2>2, <2>3
<1> QED BY <1>2, <1>3, StillKept DEF KeptInv, Quiet, PollAsks, Asks, Kept, Due, Live

\* The process starts with rows that ask, in the database.
LEMMA InitKept ==
  ASSUME Undisturbed, Init
  PROVE  KeptInv
<1>1. /\ api.stage = "stopped" /\ \A p \in Point : api.rows[p] = NoRow
      /\ poll.pp = NoPP /\ poll.stage = "idle"
  BY DEF Init, IdleApi, NoRows, IdlePoll
<1>2. ~queue.removeCurrent /\ queue.next = NoPP
  BY DEF Init, NewQueue
<1>3. Quiet /\ PollAsks
  BY <1>1, <1>2 DEF Init, Quiet, PollAsks, Alive, Running
<1>4. ASSUME NEW p \in Point
      PROVE  Kept(p)
  <2>1. Nothing(p)
    BY <1>1, NewQueueTidy DEF Init, Nothing, Clear
  <2>2. \A a \in Actors : pending[a][p] = NoRow
    BY DEF Init, NoRows
  <2>3. Due(p) => points[p].read \/ points[p].write
    BY DEF Undisturbed, Startable, Init, Due, Live
  <2> QED BY <1>1, <2>1, <2>2, <2>3 DEF Kept
<1> QED BY <1>3, <1>4 DEF KeptInv

\* The process starts again with the rows that were stored.
LEMMA RestartKept ==
  ASSUME KeptInv, Restart
  PROVE  KeptInv'
<1>0. /\ queue' = NewQueue /\ poll' = IdlePoll /\ firing' = {} /\ status' = "starting"
      /\ api' = [IdleApi EXCEPT !.stage = "stopped"]
      /\ pending' = [a \in Actors |-> NoRows] /\ UNCHANGED <<points, enabled>>
  BY DEF Restart
<1>1. /\ api'.stage = "stopped" /\ \A p \in Point : api'.rows[p] = NoRow
      /\ poll'.pp = NoPP /\ poll'.stage = "idle"
  BY <1>0 DEF IdleApi, NoRows, IdlePoll
<1>2. ~queue'.removeCurrent /\ queue'.next = NoPP
  BY <1>0 DEF NewQueue
<1>3. Quiet' /\ PollAsks'
  BY <1>0, <1>1, <1>2 DEF KeptInv, Quiet, PollAsks, Alive, Running
<1>4. ASSUME NEW p \in Point
      PROVE  Kept(p)'
  <2>1. Nothing(p)'
    BY <1>0, <1>1, NewQueueTidy DEF Nothing, Clear
  <2>2. \A a \in Actors : pending'[a][p] = NoRow
    BY <1>0 DEF NoRows
  <2>3. Due(p)' => points'[p].read \/ points'[p].write
    BY <1>0 DEF KeptInv, Kept, Due, Live
  <2> QED BY <1>1, <2>1, <2>2, <2>3 DEF Kept
<1> QED BY <1>3, <1>4 DEF KeptInv

\* The rebuild takes everything out of the queue before it fetches the points.
LEMMA RebuildPollingQueueKept ==
  ASSUME IInv, PlacesInv, KeptInv, RebuildPollingQueue
  PROVE  KeptInv'
<1>1. /\ queue' = EmptyQueue(queue) /\ api' = [api EXCEPT !.stage = "emptied"]
      /\ UNCHANGED <<firing, poll, pending, points, enabled, status>>
      /\ api.stage = "stopped" /\ queue \in Queue
  BY DEF RebuildPollingQueue, StepUnchanged, At, IInv, Sound
<1>2. \A x \in PP : Held(queue', poll.pp, firing, x) => Held(queue, poll.pp, firing, x)
  BY <1>1, RemoveAllTidy DEF IInv, PlacesInv
<1>3. /\ api'.stage = "emptied" /\ api'.rows = api.rows
      /\ queue'.removeCurrent = queue.removeCurrent /\ queue'.next = NoPP
  BY <1>1, EmptyQueueFields DEF IInv, ApiOK, ApiState
<1>4. Quiet' /\ PollAsks'
  BY <1>1, <1>3 DEF KeptInv, Quiet, PollAsks, Asks, Alive, Running
<1>5. ASSUME NEW p \in Point
      PROVE  Kept(p)'
  <2>1. Nothing(p) => Nothing(p)'
    BY <1>1, <1>2 DEF Nothing, Clear
  <2> QED BY <1>1, <1>3, <2>1 DEF KeptInv, Kept, Due, Live, Asks
<1> QED BY <1>4, <1>5 DEF KeptInv

\* The rebuild fetches the row of each point that is due.
LEMMA FetchNetworkKept ==
  ASSUME IInv, KeptInv, HostKeeps, FetchNetwork
  PROVE  KeptInv'
<1> DEFINE S == {p \in Point : points[p].enable /\ Enabled(p, enabled)}
           rows == RowsOf(S)
<1>1. /\ api' = [api EXCEPT !.stage = "rebuilding", !.rows = rows]
      /\ UNCHANGED <<queue, firing, poll, pending, points, enabled, status>>
      /\ api.stage = "emptied"
  BY DEF FetchNetwork, StepUnchanged, At, HostKeeps
<1>2. \A p \in Point : (rows[p] # NoRow <=> Due(p)) /\ (Due(p) => rows[p] = points[p])
  <2>1. ASSUME NEW p \in Point
        PROVE  Enabled(p, enabled) /\ points[p] # NoRow
    BY UUIDAssumption, NoRowAssumption
    DEF KeptInv, Quiet, Enabled, AllEnabled, Switch, IInv, PointsOK
  <2> QED BY <2>1 DEF RowsOf, Due
<1> HIDE DEF rows
<1>3. api'.stage = "rebuilding" /\ api'.rows = rows
  BY <1>1 DEF IInv, ApiOK, ApiState
<1>4. Quiet' /\ PollAsks'
  BY <1>1, <1>3 DEF KeptInv, Quiet, PollAsks, Asks, Alive, Running
<1>5. ASSUME NEW p \in Point
      PROVE  Kept(p)'
  <2>1. Nothing(p) => Nothing(p)'
    BY <1>1 DEF Nothing, Clear, Held, Placed
  <2>2. Due(p) => Asks(points[p])
    BY DEF KeptInv, Kept, Due, Live, Asks
  <2> QED BY <1>1, <1>2, <1>3, <2>1, <2>2 DEF KeptInv, Kept, Due, Live, Asks
<1> QED BY <1>4, <1>5 DEF KeptInv

\* The rebuild puts its points into the queue one by one.
LEMMA RebuildPointKept ==
  ASSUME IInv, PlacesInv, KeptInv, NoFallThrough, AllCyclic, NEW p \in Point,
         RebuildPoint(p)
  PROVE  KeptInv'
<1> DEFINE o == NewPollingPoint(p)
           q == WithPriority(queue, o, api.rows[p].priority)
<1>1. /\ api.stage = "rebuilding" /\ api.rows[p] # NoRow /\ FreePP(p) # {}
      /\ api' = Done(api, p) /\ UNCHANGED <<firing, poll, points, enabled>>
      /\ \/ queue' = AddToPriorityQueue(q, o) /\ UNCHANGED <<pending, status>>
         \/ Complete("api", q, o, api.rows[p], UpdateCompletion(p))
  BY DEF RebuildPoint, At, Todo, StepUnchanged
<1>2. /\ Sound(queue) /\ Tidy(queue, poll.pp, firing)
      /\ Clear(queue, poll.pp, firing, p)
      /\ api.rows[p] \in Row /\ api.rows[p].priority \in Priority
  BY <1>1 DEF IInv, ApiOK, RowsOK, Rows, PlacesInv, Announced, Row, Nothing
<1>3. /\ Asks(api.rows[p]) /\ Due(p) /\ ~queue.removeCurrent /\ queue.next = NoPP
      /\ Cyclic(p)
  BY <1>1 DEF KeptInv, Quiet, Kept, AllCyclic
<1>4. o \in PP /\ FFPointUUID[o] = p
  BY <1>1, NewPollingPointOK
<1>5. /\ status' = status /\ ~queue'.removeCurrent /\ queue'.next = NoPP
      /\ Placed(queue', poll.pp, o)
      /\ \A x \in PP : Placed(queue, poll.pp, x) => Placed(queue', poll.pp, x)
      /\ \A x \in PP : Held(queue', poll.pp, firing, x) =>
                          x = o \/ Held(queue, poll.pp, firing, x)
      /\ \/ pending' = pending
         \/ \E new \in Row : Asks(new) /\ pending' = [pending EXCEPT !["api"][p] = new]
  <2>1. CASE queue' = AddToPriorityQueue(q, o) /\ UNCHANGED <<pending, status>>
    <3> HIDE DEF o
    <3>1. /\ Sound(q) /\ q.removeCurrent = queue.removeCurrent /\ q.next = queue.next
          /\ \A x \in PP : Placed(q, poll.pp, x) <=> Placed(queue, poll.pp, x)
      BY <1>2, <1>4, WithPriorityTidy
    <3> HIDE DEF q
    <3>2. \A x \in q.heap : FFPointUUID[x] # FFPointUUID[o]
      BY <1>2, <1>4, <3>1 DEF Clear, Held, Placed, Sound, Queue
    <3>3. queue' = [q EXCEPT !.heap = @ \cup {o}]
      BY <2>1, <3>2 DEF AddToPriorityQueue
    <3>4. /\ queue'.heap = q.heap \cup {o} /\ queue'.next = q.next
          /\ queue'.standby = q.standby /\ queue'.removeCurrent = q.removeCurrent
      BY <3>1, <3>3 DEF Sound, Queue
    <3> QED BY <1>3, <2>1, <3>1, <3>4 DEF Held, Placed, InStandby
  <2>2. CASE Complete("api", q, o, api.rows[p], UpdateCompletion(p))
    <3>1. api.rows[p] # NoRow /\ "api" \in Actors
      BY <1>1 DEF Actors
    <3>2. /\ \A x \in PP : Held(queue', poll.pp, firing, x) =>
                              x = o \/ Held(queue, poll.pp, firing, x)
          /\ status' = status /\ ~queue'.removeCurrent /\ queue'.next = queue.next
          /\ Placed(queue', poll.pp, o)
          /\ \A x \in PP : Placed(queue, poll.pp, x) => Placed(queue', poll.pp, x)
          /\ \E new \in Row :
                /\ new.read \/ new.write
                /\ new.life = api.rows[p].life /\ new.enable = api.rows[p].enable
                /\ pending' \in {pending, [pending EXCEPT !["api"][p] = new]}
      BY <1>1, <1>2, <1>3, <2>2, <3>1, CompleteNew
    <3> QED BY <1>3, <3>2 DEF Asks
  <2> QED BY <1>1, <2>1, <2>2
<1>6. /\ api'.stage = "rebuilding" /\ api'.rows = [api.rows EXCEPT ![p] = NoRow]
      /\ api.rows \in [Point -> Row \cup {NoRow}]
  BY <1>1 DEF Done, IInv, ApiOK, ApiState, Rows
<1> HIDE DEF o
<1>7. Quiet' /\ PollAsks'
  BY <1>1, <1>5, <1>6 DEF KeptInv, Quiet, PollAsks, Asks, Alive, Running
<1>8. ASSUME NEW x \in Point
      PROVE  Kept(x)'
  <2>1. /\ Due(x)' <=> Due(x)
        /\ Due(x) => points'[x].read \/ points'[x].write
    BY <1>1 DEF KeptInv, Kept, Due, Live
  <2>2. \A a \in Actors : pending'[a][x] # NoRow => Asks(pending'[a][x]) /\ Due(x)
    <3>1. pending \in [Actors -> Rows]
      BY DEF IInv, PendingOK
    <3>2. \A a \in Actors : \/ pending'[a][x] = pending[a][x]
                            \/ x = p /\ Asks(pending'[a][x])
      BY <1>5, <3>1 DEF Rows, Actors
    <3> QED BY <1>3, <3>2 DEF KeptInv, Kept
  <2>3. CASE x = p
    BY <1>3, <1>4, <1>5, <1>1, <1>6, <2>1, <2>2, <2>3 DEF Kept
  <2>4. CASE x # p
    <3>1. Nothing(x) => Nothing(x)'
      BY <1>1, <1>4, <1>5, <2>4 DEF Nothing, Clear
    <3>2. api'.rows[x] = api.rows[x]
      BY <1>6, <2>4
    <3> QED BY <1>1, <1>5, <1>6, <2>1, <2>2, <3>1, <3>2 DEF KeptInv, Kept, Asks
  <2> QED BY <2>3, <2>4
<1> QED BY <1>7, <1>8 DEF KeptInv

\* Polling starts when every point that is due is in a place.
LEMMA StartPollingKept ==
  ASSUME IInv, PlacesInv, KeptInv, StartPolling
  PROVE  KeptInv'
<1>1. /\ queue' \in Start(queue) /\ api' = IdleApi /\ status' = "running"
      /\ UNCHANGED <<firing, poll, pending, points, enabled>>
      /\ api.stage = "rebuilding" /\ \A p \in Point : api.rows[p] = NoRow
  BY DEF StartPolling, StepUnchanged, At, Todo
<1>2. queue.next = NoPP /\ Sound(queue) /\ Tidy(queue, poll.pp, firing)
  BY <1>1 DEF KeptInv, Quiet, IInv, PlacesInv
<1>3. /\ ~queue'.removeCurrent
      /\ \A o \in PP : Held(queue', poll.pp, firing, o) => Held(queue, poll.pp, firing, o)
      /\ \A o \in PP : Placed(queue, poll.pp, o) => Placed(queue', poll.pp, o)
  BY <1>1, <1>2, StartTidy
<1>4. api'.stage = "idle" /\ \A p \in Point : api'.rows[p] = NoRow
  BY <1>1, IdleHoldsNothing
<1>5. Quiet' /\ PollAsks'
  BY <1>1, <1>3, <1>4 DEF KeptInv, Quiet, PollAsks, Asks, Alive, Running
<1>6. ASSUME NEW p \in Point
      PROVE  Kept(p)'
  <2>1. Nothing(p) => Nothing(p)'
    BY <1>1, <1>3 DEF Nothing, Clear
  <2>2. Due(p) => \E o \in PP : FFPointUUID[o] = p /\ Placed(queue', poll.pp, o)
    BY <1>1, <1>3 DEF KeptInv, Kept
  <2> QED BY <1>1, <1>4, <2>1, <2>2 DEF KeptInv, Kept, Due, Live, Asks
<1> QED BY <1>5, <1>6 DEF KeptInv

\* Of the handlers only the rebuild is ever at work.
LEMMA OnlyRebuild ==
  ASSUME KeptInv, Undisturbed, ApiStep
  PROVE  \/ \E p \in Point : RebuildPoint(p)
         \/ RebuildPollingQueue \/ FetchNetwork \/ StartPolling
<1> USE DEF Undisturbed
<1>1. ASSUME NEW p \in Point,
             \/ AddPoint(p) \/ AddPointQueues(p) \/ UpdatePoint(p)
             \/ UpdatePointQueues(p) \/ WritePoint(p) \/ WritePointRequests(p)
             \/ WritePointQueues(p) \/ DeletePoint(p) \/ DeletePointRow(p)
             \/ ReAddPoint(p)
      PROVE  FALSE
  BY <1>1 DEF AddPoint, AddPointQueues, UpdatePoint, UpdatePointQueues, WritePoint,
              WritePointRequests, WritePointQueues, DeletePoint, DeletePointRow,
              ReAddPoint, Call, At, NoCalls, KeptInv, Quiet
<1>2. ASSUME NEW d \in Device,
             \/ UpdateDevice(d) \/ DeleteDevice(d) \/ DisableDevice \/ EnableDevice
             \/ DeleteDeviceRow \/ ApiFails \/ UpdateNetwork \/ StopPolling
             \/ StopChecker \/ RatesFail
      PROVE  FALSE
  BY <1>2 DEF UpdateDevice, DeleteDevice, DisableDevice, EnableDevice, DeleteDeviceRow,
              ApiFails, UpdateNetwork, StopPolling, StopChecker, RatesFail, Call, At,
              NoCalls, HostKeeps, KeptInv, Quiet
<1>3. PICK d \in Device : TRUE
  BY ManagerAssumption
<1> QED BY <1>1, <1>2, <1>3 DEF ApiStep

LEMMA ApiStepKept ==
  ASSUME IInv, PlacesInv, KeptInv, NoFallThrough, Undisturbed, ApiStep
  PROVE  KeptInv'
BY OnlyRebuild, RebuildPointKept, RebuildPollingQueueKept, FetchNetworkKept,
   StartPollingKept DEF Undisturbed

\* Nor does the checker run.
LEMMA NoChecks ==
  ASSUME PlacesInv, NoCalls
  PROVE  ~CheckerStep
<1>1. \A p \in Point : checker.rows[p] = NoRow
  BY DEF PlacesInv, Idlers, IdleChecker, NoRows
<1> QED BY <1>1 DEF CheckerStep, CheckQueue, CheckPoint, Todo, NoCalls

\* Every step keeps the points that are due in a place.
LEMMA NextKept ==
  ASSUME IInv, IInv', PlacesInv, KeptInv, NoFallThrough, Undisturbed, [Next]_vars
  PROVE  KeptInv'
<1> USE DEF Undisturbed
<1>1. CASE PollStep
  BY <1>1, DrawKept, PollGoesOnKept, RecordKept, SinglePollFinishedKept DEF PollStep
<1>2. CASE ApiStep
  BY <1>2, ApiStepKept
<1>3. CASE TimerStep
  BY <1>3, TimerStepKept
<1>4. CASE CheckerStep
  BY <1>4, NoChecks
<1>5. CASE Restart
  BY <1>5, RestartKept
<1>6. CASE \E a \in Actors : Save(a)
  BY <1>6, SaveKept
<1>7. CASE (\E p \in Point : FieldChanges(p)) \/ UNCHANGED vars
  <2>1. UNCHANGED <<queue, firing, poll, api, pending, points, enabled, status>>
    BY <1>7 DEF FieldChanges, vars
  <2> QED BY <2>1, StillKept DEF KeptInv, Quiet, PollAsks, Asks, Held, Placed, InStandby,
                                 Kept, Due, Live
<1> QED BY <1>1, <1>2, <1>3, <1>4, <1>5, <1>6, <1>7 DEF Next

\* Without calls no operation puts a point into the queue twice, and a mode that is
\* polled for ever does not fall through.
LEMMA UndisturbedIsTidy == Undisturbed => NoRequeue /\ NoFallThrough
BY DEF Undisturbed, NoCalls, NoRequeue, AllCyclic, NoFallThrough, Cyclic

\* Hence they are in a place at all times.
LEMMA KeptInductive == ASSUME Undisturbed PROVE Spec => [](PlacesInv /\ KeptInv)
<1>1. Init => KeptInv
  BY InitKept
<1>2. IInv /\ IInv' /\ PlacesInv /\ KeptInv /\ [Next]_vars => KeptInv'
  BY NextKept, UndisturbedIsTidy
<1>3. Spec => []PlacesInv
  BY PlacesInductive, UndisturbedIsTidy
<1> QED BY <1>1, <1>2, <1>3, InductiveInvariant, PTL DEF Spec

\* A polling point that is placed is in a place of its UUID.
LEMMA PlacedIsInAPlace ==
  ASSUME IInv, NEW o \in PP, Placed(queue, poll.pp, o)
  PROVE  Places(FFPointUUID[o]) # {}
<1> DEFINE p == FFPointUUID[o]
<1>1. CASE o \in queue.heap
  <2>1. <<"queue", o>> \in Places(p)
    BY <1>1 DEF Places
  <2> QED BY <2>1
<1>2. CASE o = queue.next
  <2>1. <<"next", o>> \in Places(p)
    BY <1>2 DEF Places
  <2> QED BY <2>1
<1>3. CASE o = poll.pp
  <2>1. <<"out", o>> \in Places(p)
    BY <1>3 DEF Places
  <2> QED BY <2>1
<1>4. CASE InStandby(queue, o)
  <2>1. 1 \in 1..queue.standby[o]
    BY <1>4 DEF InStandby, IInv, Sound, Queue
  <2>2. <<"standby", o, 1>> \in UNION {{<<"standby", x, n>> : n \in 1..queue.standby[x]} :
                                        x \in {y \in PP : FFPointUUID[y] = p}}
    BY <2>1
  <2>3. <<"standby", o, 1>> \in Places(p)
    BY <2>2 DEF Places
  <2> QED BY <2>3
<1> QED BY <1>1, <1>2, <1>3, <1>4 DEF Placed

\* Polling itself neither loses nor doubles a point: while nobody calls and the host
\* answers, each enabled point of a mode that is polled for ever is in exactly one
\* place, whatever the devices do, however late the callbacks of timers are, and
\* through any number of restarts (poll_queue.go:14, poll_queue.go:15).
THEOREM ConservedHolds ==
  ASSUME Undisturbed
  PROVE  Spec => []Conserved
<1>1. IInv /\ PlacesInv /\ KeptInv => Conserved
  <2> SUFFICES ASSUME IInv, PlacesInv, KeptInv, Running,
                      NEW p \in Point, Live(p), points[p].enable
               PROVE  Places(p) # {} /\ Alone(p)
    BY DEF Conserved, Running
  <2>1. PICK o \in PP : FFPointUUID[o] = p /\ Placed(queue, poll.pp, o)
    BY DEF KeptInv, Quiet, Kept, Due
  <2> QED BY <2>1, PlacedIsInAPlace, TidyIsAlone DEF PlacesInv
<1> QED BY <1>1, KeptInductive, InductiveInvariant, PTL

-----------------------------------------------------------------------------
(* What a user sees of it: each step is one in the life of the points. *)

\* A point of which one polling point is placed is where that polling point is.
LEMMA PlaceIsThere ==
  ASSUME NEW q, NEW turn, NEW F, Lonely(q, turn.pp, F), NEW o \in PP,
         Placed(q, turn.pp, o)
  PROVE  PlaceOf(q, turn, FFPointUUID[o]) = Whereabouts(q, turn, o)
<1> DEFINE mine  == {x \in PP : FFPointUUID[x] = FFPointUUID[o]}
           known == {Whereabouts(q, turn, x) : x \in mine} \ {"away"}
<1>1. \A x \in PP : Whereabouts(q, turn, x) # "away" => Placed(q, turn.pp, x)
  BY DEF Whereabouts, Placed
<1>2. Whereabouts(q, turn, o) # "away"
  BY DEF Whereabouts, Placed
<1>3. \A x \in mine : Whereabouts(q, turn, x) # "away" => x = o
  BY <1>1 DEF Lonely, Held
<1>4. known = {Whereabouts(q, turn, o)}
  BY <1>2, <1>3
<1>5. PlaceOf(q, turn, FFPointUUID[o])
        = IF known = {} THEN "away" ELSE CHOOSE x \in known : TRUE
  BY DEF PlaceOf
<1> HIDE DEF known
<1> QED BY <1>4, <1>5

\* A point of which nothing is placed is away.
LEMMA NowhereIsAway ==
  ASSUME NEW q, NEW turn, NEW p,
         \A o \in PP : FFPointUUID[o] = p => ~Placed(q, turn.pp, o)
  PROVE  PlaceOf(q, turn, p) = "away"
<1> DEFINE mine  == {x \in PP : FFPointUUID[x] = p}
           known == {Whereabouts(q, turn, x) : x \in mine} \ {"away"}
<1>1. \A x \in mine : Whereabouts(q, turn, x) = "away"
  BY DEF Whereabouts, Placed
<1>2. known = {}
  BY <1>1
<1>3. PlaceOf(q, turn, p) = IF known = {} THEN "away" ELSE CHOOSE x \in known : TRUE
  BY DEF PlaceOf
<1> QED BY <1>2, <1>3

\* A point whose polling points are where they were is where it was.
LEMMA SamePlace ==
  ASSUME NEW q, NEW turn, NEW r, NEW after, NEW p,
         \A o \in PP : FFPointUUID[o] = p =>
                          Whereabouts(r, after, o) = Whereabouts(q, turn, o)
  PROVE  PlaceOf(r, after, p) = PlaceOf(q, turn, p)
<1> DEFINE mine == {x \in PP : FFPointUUID[x] = p}
           before == {Whereabouts(q, turn, x) : x \in mine} \ {"away"}
           later  == {Whereabouts(r, after, x) : x \in mine} \ {"away"}
<1>1. \A x \in mine : Whereabouts(r, after, x) = Whereabouts(q, turn, x)
  OBVIOUS
<1>2. later = before
  BY <1>1
<1>3. /\ PlaceOf(q, turn, p) = IF before = {} THEN "away" ELSE CHOOSE x \in before : TRUE
      /\ PlaceOf(r, after, p) = IF later = {} THEN "away" ELSE CHOOSE x \in later : TRUE
  BY DEF PlaceOf
<1> HIDE DEF before, later
<1> QED BY <1>2, <1>3

\* The completion of a polling point moves no other.
LEMMA NotificationMoves ==
  ASSUME NEW q \in Queue, NEW o \in PP, NEW pt \in Row \cup {NoRow}, NEW c \in Completion
  PROVE  LET n == PollingPointCompleteNotification(q, o, pt, c) IN
         /\ n.q.next = q.next
         /\ \A x \in PP \ {o} : /\ x \in n.q.heap <=> x \in q.heap
                                /\ n.q.standby[x] = q.standby[x]
<1> DEFINE n == PollingPointCompleteNotification(q, o, pt, c)
           q0 == [q EXCEPT !.repoll = @ \ {o}]
           gone == [q0 EXCEPT !.removeCurrent = FALSE]
           p == FFPointUUID[o]
           d == Dispose(Mode[p], pt, c)
           q1 == IF c.resetPriority
                   THEN [q0 EXCEPT !.priority[o] = pt.priority] ELSE q0
           q2 == IF d.queue THEN AddToPriorityQueue(q1, o) ELSE q1
           q3 == AddToStandbyQueue(q2, o, d.standby, d.repoll)
           q4 == [q3 EXCEPT !.current = NoPP]
<1>1. n.q \in {q0, gone, q4}
  BY DEF PollingPointCompleteNotification
<1>2. \A r \in {q0, gone, q1} : /\ r.next = q.next /\ r.heap = q.heap
                                /\ r.standby = q.standby
  BY DEF Queue
<1>3. /\ q1.next = q.next /\ q1.heap = q.heap /\ q1.standby = q.standby
      /\ DOMAIN q1 = DOMAIN q
  BY <1>2
<1> HIDE DEF q0, gone, q1, d
<1>4. /\ q2.next = q.next /\ q2.heap \in {q.heap, q.heap \cup {o}} /\ q2.standby = q.standby
      /\ DOMAIN q2 = DOMAIN q
  BY <1>3 DEF AddToPriorityQueue, Queue
<1> HIDE DEF q2
<1>5. /\ q3.next = q.next /\ q3.heap = q2.heap /\ DOMAIN q3 = DOMAIN q
      /\ q3.standby = [q.standby EXCEPT ![o] = @ + d.standby]
  BY <1>4 DEF AddToStandbyQueue, Queue
<1> HIDE DEF q3
<1>6. /\ q4.next = q.next /\ q4.heap = q3.heap /\ q4.standby = q3.standby
  BY <1>5 DEF Queue
<1>7. \A x \in PP \ {o} : q3.standby[x] = q.standby[x]
  BY <1>5 DEF Queue
<1> HIDE DEF q4, n
<1>8. \A r \in {q0, gone, q4} :
        /\ r.next = q.next
        /\ \A x \in PP \ {o} : /\ x \in r.heap <=> x \in q.heap
                               /\ r.standby[x] = q.standby[x]
  BY <1>2, <1>4, <1>5, <1>6, <1>7
<1> QED BY <1>1, <1>8 DEF n

\* From the places before to those after, as PointLifecycle advances.
Advances(before, after) ==
    LET waiting == {p \in Point : before[p] = "waiting"} IN
    \E heir \in IF waiting = {} THEN {{}} ELSE {{p} : p \in waiting} :
       after = [p \in Point |-> IF p \in heir THEN "next"
                                ELSE IF before[p] = "next" THEN "out" ELSE before[p]]

\* The next point goes out and a point that waits takes its place, if any does.
LEMMA OneAdvances ==
  ASSUME NEW q \in Queue, NEW turn, NEW r, NEW after, NEW F,
         Tidy(q, turn.pp, F), Lonely(r, after.pp, F), turn.pp = NoPP,
         after.pp = q.next, q.next # NoPP => after.stage = "drawn",
         r.standby = q.standby,
         \/ q.heap = {} /\ r.heap = {} /\ r.next = NoPP
         \/ \E h \in q.heap : r.heap = q.heap \ {h} /\ r.next = h
  PROVE  Advances([p \in Point |-> PlaceOf(q, turn, p)],
                  [p \in Point |-> PlaceOf(r, after, p)])
<1> DEFINE place == [p \in Point |-> PlaceOf(q, turn, p)]
           waiting == {p \in Point : place[p] = "waiting"}
           gone(x) == IF x = "next" THEN "out" ELSE x
<1>1. Lonely(q, turn.pp, F) /\ \A o \in PP : OnePlace(q, turn.pp, F, o)
  BY DEF Tidy
<1>2. ASSUME NEW o \in PP
      PROVE  /\ Placed(r, after.pp, o) <=> Placed(q, turn.pp, o)
             /\ o # r.next => Whereabouts(r, after, o) = gone(Whereabouts(q, turn, o))
             /\ o = r.next => o # q.next /\ Whereabouts(r, after, o) = "next"
  BY <1>1, NilAssumption DEF Placed, Whereabouts, InStandby, OnePlace, Queue
<1>3. ASSUME NEW p \in Point, \A o \in PP : FFPointUUID[o] = p => o # r.next
      PROVE  PlaceOf(r, after, p) = gone(place[p])
  <2>1. CASE \E o \in PP : FFPointUUID[o] = p /\ Placed(q, turn.pp, o)
    <3>1. PICK o \in PP : FFPointUUID[o] = p /\ Placed(q, turn.pp, o)
      BY <2>1
    <3>2. /\ PlaceOf(q, turn, p) = Whereabouts(q, turn, o)
          /\ PlaceOf(r, after, p) = Whereabouts(r, after, o)
      BY <1>1, <1>2, <3>1, PlaceIsThere
    <3> QED BY <1>2, <1>3, <3>1, <3>2
  <2>2. CASE ~ \E o \in PP : FFPointUUID[o] = p /\ Placed(q, turn.pp, o)
    <3>1. PlaceOf(q, turn, p) = "away" /\ PlaceOf(r, after, p) = "away"
      BY <1>2, <2>2, NowhereIsAway
    <3> QED BY <3>1
  <2> QED BY <2>1, <2>2
<1>4. CASE q.heap = {} /\ r.heap = {} /\ r.next = NoPP
  <2>1. ASSUME NEW p \in waiting
        PROVE  FALSE
    <3>1. PICK o \in PP : FFPointUUID[o] = p /\ Placed(q, turn.pp, o)
      BY <2>1, NowhereIsAway
    <3>2. Whereabouts(q, turn, o) = "waiting"
      BY <1>1, <2>1, <3>1, PlaceIsThere
    <3> QED BY <1>4, <3>2 DEF Whereabouts
  <2>2. waiting = {}
    BY <2>1
  <2>3. \A p \in Point : PlaceOf(r, after, p) = gone(place[p])
    BY <1>3, <1>4, NilAssumption
  <2> HIDE DEF waiting, place
  <2>4. [p \in Point |-> PlaceOf(r, after, p)]
          = [p \in Point |-> IF p \in {} THEN "next" ELSE gone(place[p])]
    BY <2>3
  <2>5. {} \in IF waiting = {} THEN {{}} ELSE {{p} : p \in waiting}
    BY <2>2
  <2> QED BY <2>4, <2>5 DEF waiting, place, Advances
<1>5. CASE \E h \in q.heap : r.heap = q.heap \ {h} /\ r.next = h
  <2>1. PICK h \in q.heap : r.heap = q.heap \ {h} /\ r.next = h
    BY <1>5
  <2> DEFINE heir == FFPointUUID[h]
  <2>2. h \in PP /\ heir \in Point
    BY UUIDAssumption DEF Queue
  <2>3. Placed(q, turn.pp, h) /\ Whereabouts(q, turn, h) = "waiting"
    BY <1>1, <2>2, NilAssumption DEF Placed, Whereabouts, OnePlace
  <2>4. /\ place[heir] = "waiting"
        /\ PlaceOf(r, after, heir) = "next"
    <3>1. Placed(r, after.pp, h) /\ Whereabouts(r, after, h) = "next"
      BY <1>2, <2>1, <2>2, <2>3
    <3>2. PlaceOf(r, after, heir) = "next"
      BY <2>2, <3>1, PlaceIsThere
    <3>3. PlaceOf(q, turn, heir) = "waiting"
      BY <1>1, <2>2, <2>3, PlaceIsThere
    <3> QED BY <2>2, <3>2, <3>3
  <2>5. heir \in waiting
    BY <2>2, <2>4
  <2>6. \A p \in Point \ {heir} : PlaceOf(r, after, p) = gone(place[p])
    BY <1>3, <2>1
  <2> HIDE DEF waiting, place, heir
  <2>7. [p \in Point |-> PlaceOf(r, after, p)]
          = [p \in Point |-> IF p \in {heir} THEN "next" ELSE gone(place[p])]
    BY <2>4, <2>6
  <2>8. {heir} \in IF waiting = {} THEN {{}} ELSE {{p} : p \in waiting}
    BY <2>5
  <2> QED BY <2>7, <2>8 DEF waiting, place, Advances
<1> QED BY <1>4, <1>5

\* What is popped as the next point.
LEMMA OneIsPopped ==
  ASSUME NEW q \in Queue, q.next = NoPP, NEW r \in SetNextPollPoint(q)
  PROVE  /\ r.standby = q.standby
         /\ \/ q.heap = {} /\ r.heap = {} /\ r.next = NoPP
            \/ \E h \in q.heap : r.heap = q.heap \ {h} /\ r.next = h
<1>1. CASE q.heap = {}
  BY <1>1 DEF SetNextPollPoint
<1>2. CASE q.heap # {}
  <2>1. PICK h \in q.heap :
           r = [q EXCEPT !.heap = @ \ {h}, !.next = h, !.repoll = @ \ {h}]
    BY <1>2 DEF SetNextPollPoint, MostUrgent
  <2>2. r.heap = q.heap \ {h} /\ r.next = h /\ r.standby = q.standby
    BY <2>1 DEF Queue
  <2> QED BY <2>2
<1> QED BY <1>1, <1>2

\* The steps that are possible, with those that ask the device of the point that is out
\* and those that move no point.
Asking == ReadDevice \/ WriteDevice \/ WriteNothing \/ DeviceFails \/ ClientFails
Staying == \/ FindDevice \/ FetchOk \/ Record \/ RebuildPollingQueue \/ FetchNetwork
           \/ UNCHANGED vars
           \/ \E o \in PP : RepollFires(o)
           \/ \E x \in Actors : Save(x)
           \/ \E p \in Point : FieldChanges(p)

LEMMA UndisturbedSteps ==
  ASSUME IInv, PlacesInv, KeptInv, Undisturbed, [Next]_vars
  PROVE  \/ Draw \/ Asking \/ SinglePollFinished \/ StartPolling \/ Restart \/ Staying
         \/ \E o \in PP : RepollCallback(o)
         \/ \E p \in Point : RebuildPoint(p)
<1>1. CASE PollStep
  <2>1. ~FetchFails /\ ~RecordFails /\ ~Abandon
    <3>1. CASE poll.stage = "idle"
      BY <3>1 DEF FetchFails, Refused, RecordFails, Abandon
    <3>2. CASE poll.stage # "idle"
      BY <3>2, HostFinds DEF Undisturbed
    <3> QED BY <3>1, <3>2
  <2> QED BY <1>1, <2>1 DEF PollStep, Asking, Staying
<1>2. CASE ApiStep
  BY <1>2, OnlyRebuild DEF Staying
<1>3. CASE TimerStep
  BY <1>3 DEF TimerStep, OrphanFires, PlacesInv, Idlers, Staying
<1>4. ~CheckerStep
  BY NoChecks DEF Undisturbed
<1> QED BY <1>1, <1>2, <1>3, <1>4 DEF Next, Staying

\* A point is out only while polling has started, and those that are to be polled are
\* the same all the time.
LifeInv == /\ ~Running => poll.pp = NoPP
           /\ \A p \in Point : Due(p) <=> p \in ToBePolled

LEMMA LifeInvKept ==
  ASSUME IInv, IInv', PlacesInv, KeptInv, KeptInv', Undisturbed, LifeInv, [Next]_vars
  PROVE  LifeInv'
<1>1. /\ \A p \in Point : Due(p)' <=> Due(p)
      /\ \/ poll'.pp = NoPP
         \/ poll' = poll /\ status' \in {status, "running", "panicked"}
         \/ Running /\ status' \in {status, "panicked"}
  <2>1. CASE Record
    BY <2>1, RecordKept DEF Record, PollUnchanged
  <2>2. ASSUME NEW x \in Actors, Save(x)
        PROVE  /\ \A p \in Point : Due(p)' <=> Due(p)
               /\ UNCHANGED <<poll, status>>
    BY <2>2, SaveKept DEF Save, Undisturbed
  <2>3. CASE Draw \/ Asking \/ SinglePollFinished \/ FindDevice \/ FetchOk
    BY <2>3 DEF Draw, Asking, ReadDevice, WriteDevice, WriteNothing, DeviceFails,
                ClientFails, SinglePollFinished, FindDevice, FetchOk, PollUnchanged, Complete, Due, Live
  <2>4. CASE StartPolling \/ RebuildPollingQueue \/ FetchNetwork
             \/ \E p \in Point : RebuildPoint(p)
    BY <2>4 DEF StartPolling, RebuildPollingQueue, FetchNetwork, RebuildPoint,
                StepUnchanged, Complete, Due, Live
  <2>5. CASE \/ \E o \in PP : RepollCallback(o) \/ RepollFires(o)
             \/ \E p \in Point : FieldChanges(p)
             \/ UNCHANGED vars
    BY <2>5 DEF RepollCallback, RepollFires, FieldChanges, TimerUnchanged, vars, Due, Live
  <2>6. CASE Restart
    BY <2>6 DEF Restart, IdlePoll, Due, Live
  <2> QED BY <2>1, <2>2, <2>3, <2>4, <2>5, <2>6, UndisturbedSteps DEF Staying
<1>2. status' # "panicked"
  BY DEF KeptInv, Quiet, Alive
<1> QED BY <1>1, <1>2 DEF LifeInv, Running

-----------------------------------------------------------------------------
\* The next point goes out.
LEMMA DrawIsDraw ==
  ASSUME IInv, PlacesInv, PlacesInv', Draw
  PROVE  Life!Draw
<1> DEFINE drawn == [queue EXCEPT !.current = queue.next, !.next = NoPP]
           place == [p \in Point |-> PlaceOf(queue, poll, p)]
<1>1. /\ queue \in Queue /\ poll.pp = NoPP /\ poll \in PollState
      /\ Running /\ queue' \in GetNextPollingPoint(queue) /\ UNCHANGED status
  BY DEF IInv, Sound, PollOK, Draw
<1>2. poll'.pp = queue.next /\ (queue.next # NoPP => poll'.stage = "drawn")
  BY <1>1 DEF Draw, PollState
<1>3. /\ drawn \in Queue /\ drawn.next = NoPP /\ drawn.heap = queue.heap
      /\ drawn.standby = queue.standby
  BY <1>1 DEF Queue
<1>4. queue' \in SetNextPollPoint(drawn)
  BY <1>1 DEF GetNextPollingPoint
<1> HIDE DEF drawn
<1>5. /\ queue'.standby = queue.standby
      /\ \/ queue.heap = {} /\ queue'.heap = {} /\ queue'.next = NoPP
         \/ \E h \in queue.heap : queue'.heap = queue.heap \ {h} /\ queue'.next = h
  BY <1>3, <1>4, OneIsPopped
<1>6. Tidy(queue, poll.pp, firing) /\ Lonely(queue', poll'.pp, firing')
  BY DEF PlacesInv, Tidy
<1>7. firing' = firing
  BY DEF Draw
<1>8. Advances(place, [p \in Point |-> PlaceOf(queue', poll', p)])
  BY <1>1, <1>2, <1>5, <1>6, <1>7, OneAdvances
<1>9. ASSUME NEW p \in Point, place[p] \in {"out", "asked"}
      PROVE  FALSE
  <2>1. PICK o \in PP : FFPointUUID[o] = p /\ Placed(queue, poll.pp, o)
    BY <1>9, NowhereIsAway
  <2>2. place[p] = Whereabouts(queue, poll, o)
    BY <1>6, <2>1, PlaceIsThere DEF Tidy
  <2> QED BY <1>1, <1>9, <2>1, <2>2, NilAssumption DEF Whereabouts
<1>10. Life!In("out") \cup Life!In("asked") = {}
  BY <1>9 DEF Life!In
<1>11. Life!Advance
  BY <1>8 DEF Advances, Life!Advance, Life!Heirs, Life!In
<1> QED BY <1>1, <1>10, <1>11 DEF Life!Draw, Running

\* Polling starts with a point that waits as the next one.
LEMMA StartIsStart ==
  ASSUME IInv, PlacesInv, PlacesInv', KeptInv, LifeInv, StartPolling
  PROVE  Life!Start
<1> DEFINE fresh == [queue EXCEPT !.next = NoPP, !.current = NoPP, !.removeCurrent = FALSE]
           place == [p \in Point |-> PlaceOf(queue, poll, p)]
<1>1. /\ queue' \in Start(queue) /\ status' = "running" /\ api.stage = "rebuilding"
      /\ UNCHANGED <<firing, poll>> /\ \A p \in Point : api.rows[p] = NoRow
      /\ queue \in Queue
  BY DEF StartPolling, StepUnchanged, At, Todo, IInv, Sound
<1>2. queue.next = NoPP /\ ~Running /\ poll.pp = NoPP
  BY <1>1 DEF KeptInv, Quiet, LifeInv
<1>3. /\ fresh \in Queue /\ fresh.next = NoPP /\ fresh.heap = queue.heap
      /\ fresh.standby = queue.standby
  BY <1>1 DEF Queue
<1>4. queue' \in SetNextPollPoint(fresh)
  BY <1>1 DEF Start
<1> HIDE DEF fresh
<1>5. /\ queue'.standby = queue.standby
      /\ \/ queue.heap = {} /\ queue'.heap = {} /\ queue'.next = NoPP
         \/ \E h \in queue.heap : queue'.heap = queue.heap \ {h} /\ queue'.next = h
  BY <1>3, <1>4, OneIsPopped
<1>6. Tidy(queue, poll.pp, firing) /\ Lonely(queue', poll'.pp, firing)
  BY <1>1 DEF PlacesInv, Tidy
<1>7. poll'.pp = queue.next
  BY <1>1, <1>2
<1>8. Advances(place, [p \in Point |-> PlaceOf(queue', poll', p)])
  BY <1>1, <1>2, <1>5, <1>6, <1>7, OneAdvances
<1>9. ASSUME NEW p \in Point, p \in ToBePolled
      PROVE  place[p] # "away"
  <2>1. PICK o \in PP : FFPointUUID[o] = p /\ Placed(queue, poll.pp, o)
    BY <1>1, <1>9 DEF LifeInv, KeptInv, Kept
  <2>2. place[p] = Whereabouts(queue, poll, o)
    BY <1>6, <2>1, PlaceIsThere DEF Tidy
  <2> QED BY <2>1, <2>2 DEF Whereabouts, Placed
<1>10. Life!In("away") \cap ToBePolled = {}
  BY <1>9 DEF Life!In
<1>11. Life!Advance
  BY <1>8 DEF Advances, Life!Advance, Life!Heirs, Life!In
<1> QED BY <1>1, <1>2, <1>10, <1>11 DEF Life!Start, Running

\* The device of the point that is out is asked.
LEMMA AskingIsAsk ==
  ASSUME IInv, PlacesInv, PlacesInv', Asking
  PROVE  Polled \in Point /\ Life!Ask(Polled)
<1>1. /\ poll.stage = "fetched" /\ Running /\ UNCHANGED <<queue, firing, status>>
      /\ poll'.pp = poll.pp /\ poll'.stage \in {"responded", "failed"}
  BY DEF Asking, ReadDevice, WriteDevice, WriteNothing, DeviceFails, ClientFails,
         PollUnchanged, IInv, PollOK, PollState
<1>2. poll.pp \in PP /\ Polled \in Point
  BY <1>1, PolledOK DEF IInv
<1>3. /\ Placed(queue, poll.pp, poll.pp) /\ Placed(queue', poll'.pp, poll.pp)
      /\ Lonely(queue, poll.pp, firing) /\ Lonely(queue', poll'.pp, firing')
  BY <1>1 DEF Placed, PlacesInv, Tidy
<1>4. /\ Whereabouts(queue, poll, poll.pp) = "out"
      /\ Whereabouts(queue', poll', poll.pp) = "asked"
  BY <1>1 DEF Whereabouts
<1>5. \A x \in PP \ {poll.pp} : Whereabouts(queue', poll', x) = Whereabouts(queue, poll, x)
  BY <1>1 DEF Whereabouts
<1>6. PlaceOf(queue, poll, Polled) = "out"
  BY <1>2, <1>3, <1>4, PlaceIsThere DEF Polled
<1>7. PlaceOf(queue', poll', Polled) = "asked"
  BY <1>2, <1>3, <1>4, PlaceIsThere DEF Polled
<1>8. ASSUME NEW p \in Point, p # Polled
      PROVE  PlaceOf(queue', poll', p) = PlaceOf(queue, poll, p)
  BY <1>5, <1>8, SamePlace DEF Polled
<1> QED BY <1>1, <1>2, <1>6, <1>7, <1>8 DEF Life!Ask, Life!Comes, Running

\* The point that was asked comes back.
LEMMA FinishedIsReturn ==
  ASSUME IInv, PlacesInv, PlacesInv', KeptInv, KeptInv', Undisturbed, SinglePollFinished
  PROVE  Polled \in Point /\ Life!Return(Polled)
<1> DEFINE c == [writeSuccess |-> poll.writeSuccess, readSuccess |-> poll.readSuccess,
                 pointUpdate |-> FALSE, resetPriority |-> TRUE,
                 retryType |-> poll.retryType, notRequired |-> FALSE]
           n == PollingPointCompleteNotification(queue, poll.pp, poll.row, c)
           o == poll.pp
<1>1. /\ poll.stage \in {"recorded", "failed", "responded"} /\ Running
      /\ queue' = n.q /\ status' \in {status, "panicked"}
      /\ poll' = IdlePoll /\ UNCHANGED firing
  BY DEF SinglePollFinished, Complete
<1>2. /\ c \in Completion /\ poll.row \in Row \cup {NoRow} /\ Sound(queue)
      /\ queue \in Queue
  BY DEF IInv, PollOK, PollState, Completion, Sound
<1>3. /\ Tidy(queue, NoPP, firing) /\ Clear(queue, NoPP, firing, Polled)
      /\ o \in PP /\ Polled \in Point
  BY <1>1, OutIsClear
<1>4. poll.row # NoRow /\ ~queue.removeCurrent /\ Cyclic(Polled)
      /\ Mode[Polled] # "write_once_read_once"
  BY <1>1, <1>3, UndisturbedIsTidy
     DEF KeptInv, PollAsks, Quiet, Undisturbed, AllCyclic, NoFallThrough
<1> HIDE DEF c
<1>5. Placed(n.q, NoPP, o)
  BY <1>2, <1>3, <1>4, NotificationTidy DEF Polled
<1>6. /\ n.q.next = queue.next
      /\ \A x \in PP \ {o} : /\ x \in n.q.heap <=> x \in queue.heap
                             /\ n.q.standby[x] = queue.standby[x]
  BY <1>2, <1>3, NotificationMoves
<1> HIDE DEF n
<1>7. poll'.pp = NoPP
  BY <1>1 DEF IdlePoll
<1>8. OnePlace(queue, poll.pp, firing, o) /\ o # NoPP
  BY <1>3, NilAssumption DEF PlacesInv, Tidy
<1>9. Whereabouts(queue, poll, o) = "asked"
  BY <1>1 DEF Whereabouts
<1>10. PICK to : to = Whereabouts(queue', poll', o) /\ to \in {"waiting", "resting"}
  BY <1>1, <1>5, <1>6, <1>7, <1>8 DEF Whereabouts, Placed, OnePlace
<1>11. \A x \in PP \ {o} : Whereabouts(queue', poll', x) = Whereabouts(queue, poll, x)
  BY <1>1, <1>6, <1>7, NilAssumption DEF Whereabouts, InStandby
<1>12. /\ Placed(queue, poll.pp, o) /\ Placed(queue', poll'.pp, o)
       /\ Lonely(queue, poll.pp, firing) /\ Lonely(queue', poll'.pp, firing')
  BY <1>1, <1>5, <1>7 DEF Placed, PlacesInv, Tidy
<1>13. PlaceOf(queue, poll, Polled) = "asked"
  BY <1>3, <1>9, <1>12, PlaceIsThere DEF Polled
<1>14. PlaceOf(queue', poll', Polled) = to
  BY <1>3, <1>10, <1>12, PlaceIsThere DEF Polled
<1>15. ASSUME NEW p \in Point, p # Polled
       PROVE  PlaceOf(queue', poll', p) = PlaceOf(queue, poll, p)
  BY <1>11, <1>15, SamePlace DEF Polled
<1>16. UNCHANGED Running /\ Running
  BY <1>1 DEF Running, KeptInv, Quiet, Alive
<1> QED BY <1>3, <1>10, <1>13, <1>14, <1>15, <1>16 DEF Life!Return, Life!Comes

\* The callback of a timer wakes its own point.
LEMMA CallbackIsWake ==
  ASSUME IInv, PlacesInv, PlacesInv', KeptInv, NEW o \in PP, RepollCallback(o)
  PROVE  Life!Wake(FFPointUUID[o])
<1> DEFINE p == FFPointUUID[o]
<1>1. /\ o \in firing /\ UNCHANGED <<poll, status>> /\ p \in Point
  BY UUIDAssumption DEF RepollCallback, TimerUnchanged
<1>2. /\ queue'.next = queue.next /\ queue'.heap = queue.heap \cup {o}
      /\ \A x \in PP \ {o} : queue'.standby[x] = queue.standby[x]
  BY RepollCallbackPlaces
<1>3. ~Nothing(p)
  BY <1>1 DEF Nothing, Clear, Held
<1>4. Announced(p) /\ Kept(p) /\ Quiet
  BY <1>1 DEF PlacesInv, KeptInv
<1>5. \E x \in PP : FFPointUUID[x] = p /\ Placed(queue, poll.pp, x)
  <2>1. api.stage \notin {"stopped", "emptied"} /\ api.rows[p] = NoRow
    BY <1>1, <1>3, <1>4 DEF Announced, Quiet
  <2> QED BY <1>3, <1>4, <2>1 DEF Kept
<1>6. Placed(queue, poll.pp, o)
  BY <1>1, <1>5 DEF PlacesInv, Tidy, Lonely, Held
<1>7. OnePlace(queue, poll.pp, firing, o)
  BY DEF PlacesInv, Tidy
<1>8. o \notin queue.heap /\ o # queue.next /\ o # poll.pp
  BY <1>1, <1>7 DEF OnePlace
<1>9. Whereabouts(queue, poll, o) = "resting"
  BY <1>6, <1>8 DEF Whereabouts, Placed
<1>10. Whereabouts(queue', poll', o) = "waiting"
  BY <1>1, <1>2, <1>8 DEF Whereabouts
<1>11. \A x \in PP \ {o} : Whereabouts(queue', poll', x) = Whereabouts(queue, poll, x)
  BY <1>1, <1>2 DEF Whereabouts, InStandby
<1>12. Lonely(queue, poll.pp, firing) /\ Lonely(queue', poll'.pp, firing')
  BY DEF PlacesInv, Tidy
<1>13. Placed(queue', poll'.pp, o)
  BY <1>2 DEF Placed
<1>14. PlaceOf(queue, poll, p) = "resting"
  BY <1>6, <1>9, <1>12, PlaceIsThere
<1>15. PlaceOf(queue', poll', p) = "waiting"
  BY <1>10, <1>12, <1>13, PlaceIsThere
<1>16. ASSUME NEW x \in Point, x # p
       PROVE  PlaceOf(queue', poll', x) = PlaceOf(queue, poll, x)
  BY <1>11, <1>16, SamePlace
<1> HIDE DEF p
<1>17. Life!Wake(p)
  BY <1>1, <1>14, <1>15, <1>16 DEF Life!Wake, Life!Comes, Running
<1> QED BY <1>17 DEF p

\* The rebuild of the queue takes in a point that is to be polled.
LEMMA RebuildIsEnter ==
  ASSUME IInv, PlacesInv, PlacesInv', KeptInv, KeptInv', Undisturbed, LifeInv,
         NEW p \in Point, RebuildPoint(p)
  PROVE  Life!Enter(p)
<1> DEFINE o == NewPollingPoint(p)
           q == WithPriority(queue, o, api.rows[p].priority)
<1>1. /\ api.stage = "rebuilding" /\ api.rows[p] # NoRow /\ FreePP(p) # {}
      /\ UNCHANGED <<firing, poll>>
      /\ \/ queue' = AddToPriorityQueue(q, o) /\ UNCHANGED <<pending, status>>
         \/ Complete("api", q, o, api.rows[p], UpdateCompletion(p))
  BY DEF RebuildPoint, At, Todo, StepUnchanged
<1>2. /\ Sound(queue) /\ Tidy(queue, poll.pp, firing)
      /\ Clear(queue, poll.pp, firing, p)
      /\ api.rows[p] \in Row /\ api.rows[p].priority \in Priority
  BY <1>1 DEF IInv, ApiOK, RowsOK, Rows, PlacesInv, Announced, Row, Nothing
<1>3. /\ Due(p) /\ ~queue.removeCurrent /\ queue.next = NoPP /\ queue'.next = NoPP
      /\ Cyclic(p) /\ ~Running /\ p \in ToBePolled
  <2>1. api'.stage = api.stage
    BY <1>1 DEF RebuildPoint, Done, IInv, ApiOK, ApiState
  <2> QED BY <1>1, <2>1 DEF KeptInv, Quiet, Kept, Undisturbed, AllCyclic, LifeInv
<1>4. o \in PP /\ FFPointUUID[o] = p
  BY <1>1, NewPollingPointOK
<1>5. UpdateCompletion(p) \in Completion /\ NoFallThrough
  BY UpdateCompletionOK, UndisturbedIsTidy
<1> HIDE DEF o
<1>6. /\ Sound(q) /\ q \in Queue /\ Tidy(q, poll.pp, firing)
      /\ q.heap = queue.heap /\ q.standby = queue.standby
      /\ ~q.removeCurrent
  BY <1>2, <1>3, <1>4, WithPriorityTidy DEF WithPriority, Sound, Queue
<1> HIDE DEF q
<1>7. Clear(q, poll.pp, firing, p)
  <2>1. q.next = NoPP
    BY <1>2, <1>3, <1>4, WithPriorityTidy DEF q
  <2> QED BY <1>2, <1>3, <1>6, <2>1 DEF Clear, Held, Placed, InStandby
<1>8. /\ Placed(queue', poll.pp, o) /\ status' \in {status, "panicked"}
      /\ \A x \in PP \ {o} : /\ x \in queue'.heap <=> x \in queue.heap
                             /\ queue'.standby[x] = queue.standby[x]
  <2>1. CASE queue' = AddToPriorityQueue(q, o) /\ UNCHANGED <<pending, status>>
    <3>1. \A x \in q.heap : FFPointUUID[x] # FFPointUUID[o]
      BY <1>4, <1>6, <1>7 DEF Clear, Held, Placed, Queue
    <3>2. queue'.heap = q.heap \cup {o} /\ queue'.standby = q.standby
      BY <1>6, <2>1, <3>1 DEF AddToPriorityQueue, Queue
    <3> QED BY <1>6, <2>1, <3>2 DEF Placed
  <2>2. CASE Complete("api", q, o, api.rows[p], UpdateCompletion(p))
    <3> DEFINE n == PollingPointCompleteNotification(q, o, api.rows[p], UpdateCompletion(p))
    <3>1. queue' = n.q /\ status' \in {status, "panicked"}
      BY <2>2 DEF Complete
    <3>2. Placed(n.q, poll.pp, o)
      BY <1>1, <1>2, <1>3, <1>4, <1>5, <1>6, <1>7, NotificationTidy DEF NoFallThrough
    <3>3. \A x \in PP \ {o} : /\ x \in n.q.heap <=> x \in q.heap
                              /\ n.q.standby[x] = q.standby[x]
      BY <1>2, <1>4, <1>5, <1>6, NotificationMoves
    <3> HIDE DEF n
    <3> QED BY <1>6, <3>1, <3>2, <3>3
  <2> QED BY <1>1, <2>1, <2>2
<1>9. o # poll.pp
  BY <1>2, <1>4 DEF Clear, Held, Placed
<1>10. PICK to : to = Whereabouts(queue', poll', o) /\ to \in {"waiting", "resting"}
  BY <1>1, <1>3, <1>4, <1>8, <1>9, NilAssumption DEF Whereabouts, Placed
<1>11. \A x \in PP \ {o} : Whereabouts(queue', poll', x) = Whereabouts(queue, poll, x)
  BY <1>1, <1>3, <1>8 DEF Whereabouts, InStandby
<1>12. Placed(queue', poll'.pp, o) /\ Lonely(queue', poll'.pp, firing')
  BY <1>1, <1>8 DEF PlacesInv, Tidy
<1>13. PlaceOf(queue, poll, p) = "away"
  BY <1>2, NowhereIsAway DEF Clear, Held
<1>14. PlaceOf(queue', poll', p) = to
  BY <1>4, <1>10, <1>12, PlaceIsThere
<1>15. ASSUME NEW x \in Point, x # p
       PROVE  PlaceOf(queue', poll', x) = PlaceOf(queue, poll, x)
  BY <1>4, <1>11, <1>15, SamePlace
<1>16. UNCHANGED Running
  BY <1>8 DEF Running, KeptInv, Quiet, Alive
<1> QED BY <1>3, <1>10, <1>13, <1>14, <1>15, <1>16 DEF Life!Enter, Life!Comes

\* Nothing is known of the points when the process starts.
LEMMA RestartIsCrash ==
  ASSUME Restart
  PROVE  Life!Crash
<1>1. queue' = NewQueue /\ poll'.pp = NoPP /\ status' = "starting"
  BY DEF Restart, IdlePoll
<1>2. \A o \in PP : ~Placed(queue', poll'.pp, o)
  BY <1>1, NewQueueTidy DEF Held
<1>3. \A p \in Point : PlaceOf(queue', poll', p) = "away"
  BY <1>2, NowhereIsAway
<1> QED BY <1>1, <1>3 DEF Life!Crash, Running

\* The other steps are not seen.
LEMMA StayingIsStutter ==
  ASSUME IInv, PlacesInv, PlacesInv', KeptInv, KeptInv', Staying
  PROVE  UNCHANGED Life!vars
<1>1. \A p \in Point : PlaceOf(queue', poll', p) = PlaceOf(queue, poll, p)
  <2>1. CASE RebuildPollingQueue
    <3>1. api.stage = "stopped" /\ api'.stage = "emptied"
      BY <2>1 DEF RebuildPollingQueue, At, IInv, ApiOK, ApiState
    <3>2. ASSUME NEW p \in Point
          PROVE  PlaceOf(queue', poll', p) = PlaceOf(queue, poll, p)
      <4>1. Nothing(p) /\ Nothing(p)'
        BY <3>1 DEF PlacesInv, Announced
      <4>2. \A o \in PP : FFPointUUID[o] = p => /\ ~Placed(queue, poll.pp, o)
                                                /\ ~Placed(queue', poll'.pp, o)
        BY <4>1 DEF Nothing, Clear, Held
      <4> QED BY <4>2, NowhereIsAway
    <3> QED BY <3>2
  <2>2. CASE ~RebuildPollingQueue
    <3>1. /\ queue'.heap = queue.heap /\ queue'.next = queue.next
          /\ queue'.standby = queue.standby /\ poll'.pp = poll.pp
          /\ poll'.stage \in {"drawn", "found", "fetched"}
                <=> poll.stage \in {"drawn", "found", "fetched"}
      <4>1. CASE FindDevice \/ FetchOk
        BY <4>1 DEF FindDevice, FetchOk, IInv, PollOK, PollState
      <4>2. CASE Record
        BY <4>2 DEF Record, PollUnchanged, IInv, PollOK, PollState
      <4>3. CASE \E o \in PP : RepollFires(o)
        BY <4>3 DEF RepollFires, TimerUnchanged, IInv, Sound, Queue
      <4>4. CASE \/ FetchNetwork \/ UNCHANGED vars
                 \/ \E x \in Actors : Save(x)
                 \/ \E p \in Point : FieldChanges(p)
        BY <4>4 DEF FetchNetwork, StepUnchanged, Save, FieldChanges, vars
      <4> QED BY <2>2, <4>1, <4>2, <4>3, <4>4 DEF Staying
    <3>2. \A o \in PP : Whereabouts(queue', poll', o) = Whereabouts(queue, poll, o)
      BY <3>1 DEF Whereabouts, InStandby
    <3> QED BY <3>2, SamePlace
  <2> QED BY <2>1, <2>2
<1>2. UNCHANGED status
  BY DEF Staying, FindDevice, FetchOk, Record, RebuildPollingQueue, FetchNetwork,
         RepollFires, Save, FieldChanges, PollUnchanged, StepUnchanged, TimerUnchanged, vars
<1> QED BY <1>1, <1>2 DEF Life!vars, Running

\* Each step of polling is one in the life of the points: while nobody calls and the host
\* answers, they go out one at a time, as the next point, and come back when their device
\* was asked, and the callback of a timer wakes its own point only, however many polling
\* points, faults and restarts there are (queue_loader.go:24, poll_queue.go:111,
\* queue_loader.go:260).
THEOREM OrderlyHolds ==
  ASSUME Undisturbed
  PROVE  Spec => Orderly
<1>1. Init => Life!Init /\ LifeInv
  <2> SUFFICES ASSUME Init PROVE Life!Init /\ LifeInv
    OBVIOUS
  <2>1. queue = NewQueue /\ poll.pp = NoPP /\ status = "starting" /\ points = InitRow
    BY DEF Init, IdlePoll
  <2>2. \A o \in PP : ~Placed(queue, poll.pp, o)
    BY <2>1, NewQueueTidy DEF Held
  <2>3. \A p \in Point : PlaceOf(queue, poll, p) = "away"
    BY <2>2, NowhereIsAway
  <2> QED BY <2>1, <2>3 DEF Life!Init, LifeInv, Running, Due, Live, ToBePolled
<1>2. /\ IInv /\ IInv' /\ PlacesInv /\ KeptInv /\ KeptInv' /\ LifeInv /\ [Next]_vars
      => LifeInv'
  BY LifeInvKept
<1>3. /\ IInv /\ PlacesInv /\ PlacesInv' /\ KeptInv /\ KeptInv' /\ LifeInv /\ [Next]_vars
      => [Life!Next]_(Life!vars)
  <2> SUFFICES ASSUME IInv, PlacesInv, PlacesInv', KeptInv, KeptInv', LifeInv, [Next]_vars
               PROVE  [Life!Next]_(Life!vars)
    OBVIOUS
  <2>1. CASE Draw
    BY <2>1, DrawIsDraw DEF Life!Next
  <2>2. CASE Asking
    BY <2>2, AskingIsAsk DEF Life!Next
  <2>3. CASE SinglePollFinished
    BY <2>3, FinishedIsReturn DEF Life!Next
  <2>4. CASE StartPolling
    BY <2>4, StartIsStart DEF Life!Next
  <2>5. CASE Restart
    BY <2>5, RestartIsCrash DEF Life!Next
  <2>6. CASE Staying
    BY <2>6, StayingIsStutter
  <2>7. ASSUME NEW o \in PP, RepollCallback(o)
        PROVE  Life!Next
    BY <2>7, CallbackIsWake, UUIDAssumption DEF Life!Next
  <2>8. ASSUME NEW p \in Point, RebuildPoint(p)
        PROVE  Life!Next
    BY <2>8, RebuildIsEnter DEF Life!Next
  <2> QED BY <2>1, <2>2, <2>3, <2>4, <2>5, <2>6, <2>7, <2>8, UndisturbedSteps
<1> QED BY <1>1, <1>2, <1>3, InductiveInvariant, KeptInductive, PTL
        DEF Spec, Orderly, Life!Spec
-----------------------------------------------------------------------------
(* Points are disabled and deleted, alone or with their devices, while they *)
(* are polled; nobody but the poll completes a point.                       *)
OnlyRemovals == /\ Ops \subseteq {"disable", "delete", "deleteDevice", "field"}
                /\ "grpc" \notin Faults

Rebuilding == api.stage \in {"stopped", "emptied", "rebuilding"}

\* While a point is out CurrentPollPoint is this point, whatever of the queue is removed
\* meanwhile; a removal that found CurrentPollPoint set may be pending at any time but
\* in the rebuild, which completes points when there is none.
Remembered ==
    /\ Alive /\ (status = "starting" => poll.stage = "idle")
    /\ poll.stage # "idle" => queue.current = poll.pp
    /\ api.stage \in {"idle", "updated", "removed", "uninstalled"} \/ Rebuilding
    /\ api.stage = "updated" =>
          \A p \in Point : api.rows[p] # NoRow => ~api.rows[p].enable
    /\ Rebuilding => status = "starting" /\ ~queue.removeCurrent
    /\ \A p \in Point : checker.rows[p] = NoRow

\* Only the removals, the rebuild and the poll are possible then.
LEMMA RemovalSteps ==
  ASSUME IInv, Remembered, OnlyRemovals, [Next]_vars
  PROVE  \/ PollStep /\ ~Abandon
         \/ RebuildPollingQueue \/ FetchNetwork \/ StartPolling \/ DeleteDeviceRow
         \/ \E p \in Point : \/ UpdatePoint(p) \/ UpdatePointQueues(p) \/ DeletePoint(p)
                             \/ DeletePointRow(p) \/ RebuildPoint(p) \/ FieldChanges(p)
         \/ \E d \in Device : DeleteDevice(d)
         \/ TimerStep \/ Restart \/ (\E a \in Actors : Save(a)) \/ UNCHANGED vars
<1>1. CASE ApiStep
  <2>1. \A p \in Point : /\ ~AddPoint(p) /\ ~AddPointQueues(p) /\ ~WritePoint(p)
                         /\ ~WritePointRequests(p) /\ ~WritePointQueues(p)
                         /\ ~ReAddPoint(p)
    BY DEF OnlyRemovals, Remembered, Rebuilding, AddPoint, AddPointQueues, WritePoint,
           WritePointRequests, WritePointQueues, ReAddPoint, Call, At
  <2>2. /\ \A d \in Device : ~UpdateDevice(d)
        /\ ~DisableDevice /\ ~EnableDevice /\ ~ApiFails /\ ~UpdateNetwork /\ ~StopPolling
        /\ ~StopChecker /\ ~RatesFail
    BY DEF OnlyRemovals, Remembered, Rebuilding, UpdateDevice, DisableDevice,
           EnableDevice, ApiFails, UpdateNetwork, StopPolling, StopChecker, RatesFail,
           Call, At
  <2> QED BY <1>1, <2>1, <2>2 DEF ApiStep
<1>2. CASE CheckerStep
  <2>1. ~CheckQueue
    BY DEF OnlyRemovals, CheckQueue
  <2>2. \A p \in Point : ~CheckPoint(p)
    BY DEF Remembered, CheckPoint, Todo
  <2> QED BY <1>2, <2>1, <2>2 DEF CheckerStep
<1>3. ~Abandon
  BY DEF OnlyRemovals, Abandon
<1> QED BY <1>1, <1>2, <1>3 DEF Next

\* The poll draws what becomes CurrentPollPoint and finishes while that is still so.
LEMMA PollRemembers ==
  ASSUME IInv, IInv', Remembered, PollStep, ~Abandon
  PROVE  Remembered'
<1>1. UNCHANGED <<api, checker>> /\ Running
  BY DEF PollStep, Draw, FindDevice, FetchOk, FetchFails, ReadDevice, WriteDevice,
         WriteNothing, DeviceFails, ClientFails, Record, RecordFails,
         SinglePollFinished, PollUnchanged
<1>2. ~Rebuilding /\ ~Rebuilding' /\ status # "starting"
  BY <1>1 DEF Remembered, Rebuilding, Running
<1>3. queue \in Queue /\ poll \in PollState
  BY DEF IInv, Sound, PollOK
<1>4. status' = status /\ (poll'.stage # "idle" => queue'.current = poll'.pp)
  <2>1. CASE Draw
    <3>1. queue'.current = queue.next
      BY <1>3, <2>1 DEF Draw, GetNextPollingPoint, SetNextPollPoint, Queue
    <3>2. /\ queue.next = NoPP => poll' = poll /\ poll.stage = "idle"
          /\ queue.next # NoPP => poll'.pp = queue.next
      BY <1>3, <2>1 DEF Draw, PollState
    <3> QED BY <2>1, <3>1, <3>2 DEF Draw
  <2>2. CASE FetchFails
    BY <2>2, IdlePollOK DEF FetchFails
  <2>3. CASE SinglePollFinished
    <3> DEFINE c == [writeSuccess |-> poll.writeSuccess, readSuccess |-> poll.readSuccess,
                     pointUpdate |-> FALSE, resetPriority |-> TRUE,
                     retryType |-> poll.retryType, notRequired |-> FALSE]
               n == PollingPointCompleteNotification(queue, poll.pp, poll.row, c)
    <3>1. poll' = IdlePoll /\ status' = IF n.panic THEN "panicked" ELSE status
      BY <2>3 DEF SinglePollFinished, Complete
    <3>2. poll.stage # "idle"
      BY <2>3 DEF SinglePollFinished
    <3>3. queue.current # NoPP
      BY <3>2, PolledOK DEF IInv, Remembered
    <3>4. ~n.panic
      BY <3>3 DEF PollingPointCompleteNotification
    <3> HIDE DEF n
    <3> QED BY <3>1, <3>4, IdlePollOK
  <2>4. CASE FindDevice \/ FetchOk
    BY <1>3, <2>4 DEF FindDevice, FetchOk, PollState, Remembered
  <2>5. CASE ReadDevice \/ WriteDevice \/ WriteNothing \/ DeviceFails \/ ClientFails
    BY <1>3, <2>5 DEF ReadDevice, WriteDevice, WriteNothing, DeviceFails, ClientFails,
                      PollUnchanged, PollState, Remembered
  <2>6. CASE Record \/ RecordFails
    BY <1>3, <2>6 DEF Record, RecordFails, PollUnchanged, PollState, Remembered
  <2> QED BY <2>1, <2>2, <2>3, <2>4, <2>5, <2>6 DEF PollStep
<1> QED BY <1>1, <1>2, <1>4 DEF Remembered, Alive, Rebuilding

\* What is removed from the standby list changes the list and the timers only.
LEMMA StandbyKeepsCurrent ==
  ASSUME NEW q \in Queue, NEW p \in Point, NEW r \in RemoveFromStandbyQueue(q, p)
  PROVE  /\ r.q.current = q.current /\ r.q.removeCurrent = q.removeCurrent
         /\ DOMAIN r.q = DOMAIN q
<1>1. CASE r = [q |-> q, pp |-> NoPP]
  BY <1>1
<1>2. CASE r # [q |-> q, pp |-> NoPP]
  <2>1. PICK o \in PP : r = [q  |-> [q EXCEPT !.standby[o] = @ - 1, !.repoll = @ \ {o}],
                            pp |-> o]
    BY <1>2, Zenon DEF RemoveFromStandbyQueue
  <2>2. r.q = [q EXCEPT !.standby[o] = @ - 1, !.repoll = @ \ {o}]
    BY <2>1
  <2> QED BY <2>2 DEF Queue
<1> QED BY <1>1, <1>2

\* The removals of a point and of a device leave CurrentPollPoint as it is.
LEMMA RemovalKeepsCurrent ==
  ASSUME NEW q \in Queue
  PROVE  /\ \A p \in Point : \A r \in RemovePollingPointByPointUUID(q, p) :
               r.q.current = q.current
         /\ \A d \in Device : RemovePollingPointByDeviceUUID(q, d).current = q.current
<1>1. ASSUME NEW p \in Point, NEW r \in RemovePollingPointByPointUUID(q, p)
      PROVE  r.q.current = q.current
  <2>1. CASE Of(q.current, p)
    BY <1>1, <2>1 DEF RemovePollingPointByPointUUID, Queue
  <2>2. CASE ~Of(q.current, p) /\ Of(q.next, p)
    <3> DEFINE q1 == [q EXCEPT !.next = NoPP]
    <3>1. q1 \in Queue /\ q1.current = q.current
      BY DEF Queue
    <3>2. PICK x \in SetNextPollPoint(q1) : r = [q |-> x, pp |-> q.next]
      BY <1>1, <2>2, Zenon DEF RemovePollingPointByPointUUID
    <3> HIDE DEF q1
    <3>3. x.current = q1.current
      BY <3>1 DEF SetNextPollPoint, Queue
    <3> QED BY <3>1, <3>2, <3>3
  <2>3. CASE ~Of(q.current, p) /\ ~Of(q.next, p)
    <3>1. CASE r \in RemoveFromStandbyQueue(q, p)
      BY <3>1, StandbyKeepsCurrent
    <3>2. CASE r \notin RemoveFromStandbyQueue(q, p)
      <4>1. PICK o : r = [q |-> RemoveFromHeap(q, o), pp |-> o]
        BY <1>1, <2>3, <3>2, Zenon DEF RemovePollingPointByPointUUID
      <4>2. r.q = RemoveFromHeap(q, o)
        BY <4>1
      <4> QED BY <4>2 DEF RemoveFromHeap, Queue
    <3> QED BY <3>1, <3>2
  <2> QED BY <2>1, <2>2, <2>3
<1> QED BY <1>1 DEF RemovePollingPointByDeviceUUID, Queue

\* A handler that removes points puts none back.
LEMMA HandlerRemembers ==
  ASSUME IInv, IInv', Remembered, OnlyRemovals,
         \/ DeleteDeviceRow
         \/ \E p \in Point : \/ UpdatePoint(p) \/ UpdatePointQueues(p) \/ DeletePoint(p)
                             \/ DeletePointRow(p) \/ FieldChanges(p)
         \/ \E d \in Device : DeleteDevice(d)
         \/ (\E a \in Actors : Save(a)) \/ UNCHANGED vars
  PROVE  Remembered'
<1> USE DEF Remembered, Alive, Rebuilding
<1>0. queue \in Queue /\ api \in ApiState /\ IdleApi \in ApiState
      /\ IdleApi.stage = "idle" /\ IdleApi.rows = NoRows
  BY IdleApiOK DEF IInv, Sound, ApiOK, IdleApi
<1>1. CASE DeleteDeviceRow \/ \E p \in Point : DeletePointRow(p)
  BY <1>0, <1>1 DEF DeleteDeviceRow, DeletePointRow, StepUnchanged
<1>2. ASSUME NEW p \in Point, UpdatePoint(p)
      PROVE  Remembered'
  <2>1. PICK e \in BOOLEAN, rd \in BOOLEAN :
           /\ Call(IF e THEN "update" ELSE "disable")
           /\ points' = [points EXCEPT ![p] =
                 [@ EXCEPT !.enable = e, !.read = rd, !.write = IsWriteable(Mode[p]),
                           !.wv = KeptValue(p)]]
    BY <1>2, Zenon DEF UpdatePoint
  <2>3. ~e /\ Running
    BY <2>1 DEF Call, OnlyRemovals
  <2>4. points \in [Point -> Row]
    BY DEF IInv, PointsOK
  <2>5. points'[p] = [points[p] EXCEPT !.enable = e, !.read = rd,
                          !.write = IsWriteable(Mode[p]), !.wv = KeptValue(p)]
    BY <2>1, <2>4
  <2>6. points[p] \in Row
    BY <2>4
  <2>7. points'[p].enable = e
    BY <2>5, <2>6 DEF Row
  <2>8. api' = Job("updated", p, points'[p])
    BY <1>2 DEF UpdatePoint
  <2>9. /\ api'.stage = "updated"
        /\ \A x \in Point : api'.rows[x] = IF x = p THEN points'[p] ELSE NoRow
    BY <1>0, <2>8 DEF Job, ApiState, NoRows
  <2>10. UNCHANGED <<queue, poll, checker, status>>
    BY <1>2 DEF UpdatePoint, CallUnchanged
  <2> QED BY <2>3, <2>7, <2>9, <2>10
<1>3. ASSUME NEW p \in Point, UpdatePointQueues(p)
      PROVE  Remembered'
  <2>1. api.stage = "updated" /\ api.rows[p] # NoRow /\ ~api.rows[p].enable
    BY <1>3 DEF UpdatePointQueues, At, Todo
  <2>2. \E r \in RemovePollingPointByPointUUID(queue, p) : queue' = r.q
    BY <1>3, <2>1 DEF UpdatePointQueues
  <2>3. queue'.current = queue.current
    BY <1>0, <2>2, RemovalKeepsCurrent
  <2>4. api' = IdleApi /\ UNCHANGED <<poll, checker, status>>
    BY <1>3, <2>1 DEF UpdatePointQueues, StepUnchanged
  <2> QED BY <1>0, <2>3, <2>4
<1>4. ASSUME NEW p \in Point, DeletePoint(p)
      PROVE  Remembered'
  <2>1. /\ \E r \in RemovePollingPointByPointUUID(queue, p) : queue' = r.q
        /\ api' = Job("removed", p, points[p])
        /\ UNCHANGED <<poll, checker, status>>
    BY <1>4 DEF DeletePoint, CallUnchanged
  <2>2. queue'.current = queue.current
    BY <1>0, <2>1, RemovalKeepsCurrent
  <2>3. api'.stage = "removed"
    BY <1>0, <2>1 DEF Job, ApiState
  <2> QED BY <2>1, <2>2, <2>3
<1>5. ASSUME NEW d \in Device, DeleteDevice(d)
      PROVE  Remembered'
  <2>1. /\ queue' = RemovePollingPointByDeviceUUID(queue, d)
        /\ api' = [IdleApi EXCEPT !.stage = "uninstalled", !.device = d]
        /\ UNCHANGED <<poll, checker, status>>
    BY <1>5 DEF DeleteDevice, CallUnchanged
  <2>2. queue'.current = queue.current
    BY <1>0, <2>1, RemovalKeepsCurrent
  <2>3. api'.stage = "uninstalled"
    BY <1>0, <2>1 DEF ApiState
  <2> QED BY <2>1, <2>2, <2>3
<1>6. CASE \/ \E p \in Point : FieldChanges(p)
           \/ (\E a \in Actors : Save(a)) \/ UNCHANGED vars
  BY <1>6 DEF FieldChanges, Save, vars
<1> QED BY <1>1, <1>2, <1>3, <1>4, <1>5, <1>6

\* A completion in a queue that knows of no removal has no use for CurrentPollPoint.
LEMMA NotificationForgets ==
  ASSUME NEW q \in Queue, ~q.removeCurrent, NEW o, NEW row, NEW c
  PROVE  LET n == PollingPointCompleteNotification(q, o, row, c)
         IN  ~n.panic /\ ~n.q.removeCurrent
<1> DEFINE n  == PollingPointCompleteNotification(q, o, row, c)
           q0 == [q EXCEPT !.repoll = @ \ {o}]
           d  == Dispose(Mode[FFPointUUID[o]], row, c)
           q1 == IF c.resetPriority THEN [q0 EXCEPT !.priority[o] = row.priority] ELSE q0
           q2 == IF d.queue THEN AddToPriorityQueue(q1, o) ELSE q1
           q3 == AddToStandbyQueue(q2, o, d.standby, d.repoll)
           q4 == [q3 EXCEPT !.current = NoPP]
<1> SUFFICES ~n.panic /\ ~n.q.removeCurrent
  OBVIOUS
<1>1. q4.removeCurrent = q.removeCurrent
  <2>1. DOMAIN q0 = DOMAIN q /\ "removeCurrent" \in DOMAIN q
        /\ q0.removeCurrent = q.removeCurrent
    BY DEF Queue
  <2> HIDE DEF q0
  <2>2. DOMAIN q1 = DOMAIN q /\ q1.removeCurrent = q.removeCurrent
    BY <2>1
  <2> HIDE DEF q1, d
  <2>3. DOMAIN q2 = DOMAIN q /\ q2.removeCurrent = q.removeCurrent
    BY <2>2, <2>1 DEF AddToPriorityQueue
  <2> HIDE DEF q2
  <2>4. DOMAIN q3 = DOMAIN q /\ q3.removeCurrent = q.removeCurrent
    BY <2>3, <2>1 DEF AddToStandbyQueue
  <2> HIDE DEF q3
  <2> QED BY <2>4, <2>1
<1>2. CASE row = NoRow
  BY <1>2 DEF PollingPointCompleteNotification, Queue
<1>3. CASE row # NoRow
  <2>1. ~n.panic /\ n.q = q4
    BY <1>3 DEF PollingPointCompleteNotification
  <2> HIDE DEF n, q0, q1, q2, q3, q4, d
  <2> QED BY <1>1, <2>1
<1> QED BY <1>2, <1>3

\* The rebuild completes points of a queue that knows of no removal, and no point is out.
LEMMA RebuildRemembers ==
  ASSUME IInv, IInv', Remembered,
         \/ RebuildPollingQueue \/ FetchNetwork \/ StartPolling \/ Restart
         \/ \E p \in Point : RebuildPoint(p)
  PROVE  Remembered'
<1> USE DEF Remembered, Alive, Rebuilding
<1>0. queue \in Queue /\ api \in ApiState /\ IdleApi \in ApiState
      /\ IdleApi.stage = "idle"
  BY IdleApiOK DEF IInv, Sound, ApiOK, IdleApi
<1>1. CASE RebuildPollingQueue
  <2>1. /\ queue' = EmptyQueue(queue) /\ api' = [api EXCEPT !.stage = "emptied"]
        /\ Rebuilding /\ UNCHANGED <<poll, checker, status>>
    BY <1>1 DEF RebuildPollingQueue, At, StepUnchanged
  <2>2. queue'.removeCurrent = queue.removeCurrent
    BY <1>0, <2>1 DEF EmptyQueue, EmptyLists, Queue
  <2>3. api'.stage = "emptied"
    BY <1>0, <2>1 DEF ApiState
  <2> QED BY <2>1, <2>2, <2>3
<1>2. CASE FetchNetwork
  BY <1>0, <1>2 DEF FetchNetwork, At, StepUnchanged, ApiState
<1>3. CASE StartPolling
  BY <1>0, <1>3 DEF StartPolling, At, StepUnchanged
<1>4. CASE Restart
  BY <1>0, <1>4, IdlePollOK DEF Restart, NewQueue, IdleChecker, NoRows, ApiState
<1>5. ASSUME NEW p \in Point, RebuildPoint(p)
      PROVE  Remembered'
  <2> DEFINE o == NewPollingPoint(p)
             q == WithPriority(queue, o, api.rows[p].priority)
  <2>1. /\ \/ queue' = AddToPriorityQueue(q, o) /\ UNCHANGED <<pending, status>>
           \/ Complete("api", q, o, api.rows[p], UpdateCompletion(p))
        /\ Rebuilding /\ api' = Done(api, p) /\ UNCHANGED <<poll, checker>>
    BY <1>5 DEF RebuildPoint, At, StepUnchanged
  <2>2. ~q.removeCurrent
    BY <1>0, <2>1 DEF WithPriority, Queue
  <2>3. q.removeCurrent = queue.removeCurrent /\ "removeCurrent" \in DOMAIN q
        /\ "heap" \in DOMAIN q
    BY <1>0 DEF WithPriority, Queue
  <2>6. q \in Queue
    <3>1. o \in PP
      BY <1>5, NewPollingPointOK DEF RebuildPoint
    <3>2. api.rows[p] \in Row
      BY <1>5 DEF RebuildPoint, Todo, IInv, ApiOK, RowsOK, Rows
    <3> QED BY <1>0, <3>1, <3>2 DEF WithPriority, Queue, Row
  <2> HIDE DEF o, q
  <2>4. ~queue'.removeCurrent /\ status' = status
    <3>1. CASE queue' = AddToPriorityQueue(q, o) /\ UNCHANGED <<pending, status>>
      BY <2>2, <2>6, <3>1 DEF AddToPriorityQueue, Queue
    <3>2. CASE Complete("api", q, o, api.rows[p], UpdateCompletion(p))
      <4> DEFINE n == PollingPointCompleteNotification(q, o, api.rows[p], UpdateCompletion(p))
      <4>1. ~n.panic /\ ~n.q.removeCurrent
        BY <2>2, <2>6, NotificationForgets
      <4>2. queue' = n.q /\ status' = IF n.panic THEN "panicked" ELSE status
        BY <3>2 DEF Complete
      <4> HIDE DEF n
      <4> QED BY <4>1, <4>2
    <3> QED BY <2>1, <3>1, <3>2
  <2>5. api'.stage = api.stage
    BY <1>0, <2>1 DEF Done, ApiState
  <2> QED BY <2>1, <2>4, <2>5
<1> QED BY <1>1, <1>2, <1>3, <1>4, <1>5

\* A timer and its callback move what rests to what waits.
LEMMA TimersRemember ==
  ASSUME IInv, Remembered, TimerStep
  PROVE  Remembered'
<1>1. queue \in Queue /\ UNCHANGED <<poll, api, checker, status>>
  BY DEF IInv, Sound, TimerStep, RepollFires, OrphanFires, RepollCallback,
         TimerUnchanged
<1>2. queue'.current = queue.current /\ queue'.removeCurrent = queue.removeCurrent
  <2>1. ASSUME NEW o \in PP, RepollFires(o) \/ OrphanFires(o)
        PROVE  <1>2
    BY <1>1, <2>1 DEF RepollFires, OrphanFires, Queue
  <2>2. ASSUME NEW o \in PP, RepollCallback(o)
        PROVE  <1>2
    <3> DEFINE q == [queue EXCEPT !.repoll = @ \ {o}]
    <3>1. PICK r \in RemoveFromStandbyQueue(q, FFPointUUID[o]) :
                 queue' = AddToPriorityQueue(r.q, o)
      BY <2>2 DEF RepollCallback
    <3>2. /\ q.current = queue.current /\ q.removeCurrent = queue.removeCurrent
          /\ q \in Queue
      BY <1>1 DEF Queue
    <3> HIDE DEF q
    <3>3. /\ r.q.current = q.current /\ r.q.removeCurrent = q.removeCurrent
          /\ DOMAIN r.q = DOMAIN q
      BY <3>1, <3>2, StandbyKeepsCurrent, UUIDAssumption
    <3>4. DOMAIN q = {"heap", "standby", "next", "current", "removeCurrent", "repoll",
                      "priority"}
      BY <3>2 DEF Queue
    <3>5. \/ queue' = r.q
          \/ queue' = [r.q EXCEPT !.heap = r.q.heap \cup {o}]
      BY <3>1 DEF AddToPriorityQueue
    <3> QED BY <3>2, <3>3, <3>4, <3>5
  <2> QED BY <2>1, <2>2 DEF TimerStep
<1> QED BY <1>1, <1>2 DEF Remembered, Alive, Rebuilding

\* Deleting and disabling points does not by itself bring the process down, at whatever
\* moment of a poll it comes and however often devices fail and the process is restarted,
\* as long as the host answers: the point that is out is CurrentPollPoint until its poll
\* ends.  The panic of a completion that finds a removal asked for and no
\* CurrentPollPoint takes an addition, a write, an update or a check besides
\* (queue_loader.go:66).
THEOREM RemovalsDoNotPanic ==
  ASSUME OnlyRemovals
  PROVE  Spec => []NoPanic
<1>1. Init => Remembered
  BY IdleApiOK, IdlePollOK DEF Init, Remembered, Alive, Rebuilding, NewQueue,
     IdleChecker, NoRows, ApiState
<1>2. IInv /\ IInv' /\ Remembered /\ [Next]_vars => Remembered'
  BY RemovalSteps, PollRemembers, HandlerRemembers, RebuildRemembers, TimersRemember
<1>3. Remembered => NoPanic
  BY DEF Remembered, NoPanic
<1> QED BY <1>1, <1>2, <1>3, InductiveInvariant, PTL DEF Spec
=============================================================================
