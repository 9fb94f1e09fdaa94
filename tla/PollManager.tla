----------------------------- MODULE PollManager -----------------------------
(***************************************************************************)
(* One network's poll manager at work: the poll goroutine                  *)
(* (pkg/polling.go), the API handlers (pkg/app.go), the re-poll timers     *)
(* (pollqueue/queue_loader.go) and the queue checker                       *)
(* (pollqueue/poll_manager.go) over one poll queue, the rows of the        *)
(* points in the host's database and the registers of the field devices.   *)
(*                                                                         *)
(* A step runs from the return of one blocking call (a gRPC call to the    *)
(* host, a request on the field bus, a tick) up to and including the next. *)
(* The only locks of the code are inside the two lists, so anything may    *)
(* happen between two steps of one actor.                                  *)
(***************************************************************************)
EXTENDS PollQueue

CONSTANTS Network,      \* the network, beside its devices
          PollOnStart,  \* [Point -> BOOLEAN], PollOnStartCheck
          Readback,     \* [Value -> Value], what the device answers to a write
          Zero,         \* the response value of a write that sends nothing
          InitRow,      \* the rows when the process starts
          InitRegister, \* the registers when the process starts
          Ops,          \* the API operations that occur
          Faults,       \* the calls that may fail
          MaxCalls,     \* bound: API calls
          MaxRestarts   \* bound: restarts of the process that no panic caused

AllOps == {"add", "update", "disable", "write", "delete", "device", "deleteDevice",
           "network", "check", "field"}

ASSUME ManagerAssumption ==
    /\ PollOnStart \in [Point -> BOOLEAN]
    /\ Readback \in [Value -> Value] /\ Zero \in Value
    /\ InitRow \in [Point -> Row] /\ InitRegister \in [Point -> Value]
    /\ \A p \in Point : InitRow[p].write => IsWriteable(Mode[p])
    /\ Ops \subseteq AllOps /\ Faults \subseteq {"grpc", "io", "transport"}
    /\ MaxCalls \in Nat /\ MaxRestarts \in Nat
    /\ Device # {} /\ Network \notin Device

VARIABLES queue,    \* NetworkPollManager.PollQueue
          firing,   \* polling points whose re-poll callback is about to run
          orphans,  \* polling points with a running timer they do not refer to
          poll,     \* the poll goroutine, in pollSingleNetwork
          api,      \* the API handler at work, or the rebuild of the queue
          checker,  \* the queue checker, in PollQueueErrorChecking
          pending,  \* the row each of the three is about to write back, by point
          points,   \* the rows in the database
          enabled,  \* the Enable flags of network and devices in the database
          register, \* the values in the field devices
          status,   \* of the process and, when it polls, of NetworkPollManager.Enable
          calls, restarts

vars == <<queue, firing, orphans, poll, api, checker, pending, points, enabled,
          register, status, calls, restarts>>

Actors == {"poll", "api", "checker"}
NoRows == [p \in Point |-> NoRow]

IdlePoll == [stage |-> "idle", pp |-> NoPP, row |-> NoRow,
             writeSuccess |-> FALSE, readSuccess |-> FALSE, value |-> Zero,
             retryType |-> "normal"]
\* rows: the points still to be handled, each with the row the handler holds.
IdleApi == [stage |-> "idle", rows |-> NoRows, device |-> CHOOSE d \in Device : TRUE]
Switch      == Device \cup {Network}
AllEnabled  == [x \in Switch |-> TRUE]
IdleChecker == [rows |-> NoRows, enabled |-> AllEnabled]

Todo(job) == {p \in Point : job.rows[p] # NoRow}
Job(stage, p, row) == [IdleApi EXCEPT !.stage = stage, !.rows[p] = row]
Done(job, p) == [job EXCEPT !.rows[p] = NoRow]

Live(p) == points[p].life = "live"
Enabled(p, flags) == flags[FFDeviceUUID[p]]
Polled == FFPointUUID[poll.pp]

\* Polling points that something still refers to; the others are garbage.
Referenced == {o \in PP : InStandby(queue, o)} \cup queue.heap \cup queue.repoll
              \cup firing \cup orphans \cup {queue.next, queue.current, poll.pp}
FreePP(p) == {o \in PP : FFPointUUID[o] = p} \ Referenced
NewPollingPoint(p) == CHOOSE o \in FreePP(p) : TRUE
WithPriority(q, o, priority) == [q EXCEPT !.priority[o] = priority]

\* The goroutine polls, with or without points: a manager that is stopped has none.
Running == status \in {"running", "stopped"}
Alive   == status # "panicked"
Free(a) == pending[a] = NoRows

-----------------------------------------------------------------------------
\* PollingPointCompleteNotification called by a; the write-back is a step of
\* its own.
Complete(a, q, o, row, c) ==
    LET n == PollingPointCompleteNotification(q, o, row, c) IN
    /\ queue' = n.q
    /\ status' = IF n.panic THEN "panicked" ELSE status
    /\ pending' = IF n.save THEN [pending EXCEPT ![a][FFPointUUID[o]] = n.row]
                  ELSE pending

\* Marshaller.UpdatePoint; the values are not the caller's to set.
UpdateRow(p, row) ==
    IF Live(p)
      THEN [points EXCEPT ![p] = [@ EXCEPT !.enable = row.enable,
                                    !.read = row.read, !.write = row.write]]
      ELSE points

Save(a) ==
    /\ Alive
    /\ \E p \in Point :
          /\ pending[a][p] # NoRow
          /\ \/ points' = UpdateRow(p, pending[a][p])
             \/ "grpc" \in Faults /\ points' = points
    /\ pending' = [pending EXCEPT ![a] = NoRows]
    /\ UNCHANGED <<queue, firing, orphans, poll, api, checker, enabled, register,
                   status, calls, restarts>>

-----------------------------------------------------------------------------
(* The poll goroutine *)

\* Mutant of Draw: nothing looks whether a point was drawn.
DrawUnchecked ==
    /\ Running /\ poll.stage = "idle" /\ Free("poll") /\ enabled[Network]
    /\ queue' \in GetNextPollingPoint(queue)
    /\ poll' = [poll EXCEPT !.stage = "drawn", !.pp = queue.next]
    /\ UNCHANGED <<firing, orphans, api, checker, pending, points, enabled,
                   register, status, calls, restarts>>

\* getAndCheckNetwork finds the network enabled and a point is drawn.
Draw ==
    /\ Running /\ poll.stage = "idle" /\ Free("poll") /\ enabled[Network]
    /\ queue' \in GetNextPollingPoint(queue)
    /\ poll' = IF queue.next = NoPP THEN poll
               ELSE [poll EXCEPT !.stage = "drawn", !.pp = queue.next]
    /\ UNCHANGED <<firing, orphans, api, checker, pending, points, enabled,
                   register, status, calls, restarts>>

\* The checks of the device, which is deleted with its points, and of the point.
FindDevice ==
    /\ Running /\ poll.stage = "drawn" /\ Enabled(Polled, enabled)
    /\ poll' = [poll EXCEPT !.stage = "found"]
    /\ UNCHANGED <<queue, firing, orphans, api, checker, pending, points, enabled,
                   register, status, calls, restarts>>

Fetchable(p) == /\ Live(p) /\ points[p].enable
                /\ points[p].read \/ points[p].write

FetchOk ==
    /\ Running /\ poll.stage = "found" /\ Fetchable(Polled)
    /\ poll' = [poll EXCEPT !.stage = "fetched", !.row = points[Polled]]
    /\ UNCHANGED <<queue, firing, orphans, api, checker, pending, points, enabled,
                   register, status, calls, restarts>>

Refused == \/ poll.stage = "drawn" /\ ~Enabled(Polled, enabled)
           \/ poll.stage = "found" /\ ~Fetchable(Polled)
           \/ poll.stage \in {"drawn", "found"} /\ "grpc" \in Faults

\* Mutant of FetchFails: the retry mode is honoured though the point is nil.
FetchFailsRetries ==
    /\ Running /\ Refused
    /\ queue' = AddToStandbyQueue([queue EXCEPT !.removeCurrent = FALSE], poll.pp,
                                  1, TRUE)
    /\ poll' = IdlePoll
    /\ UNCHANGED <<firing, orphans, api, checker, pending, points, enabled,
                   register, status, calls, restarts>>

\* No device or no point for the poll: SinglePollFinished with a nil point.
FetchFails ==
    /\ Running /\ Refused
    /\ queue' = [queue EXCEPT !.repoll = @ \ {poll.pp}, !.removeCurrent = FALSE]
    /\ poll' = IdlePoll
    /\ UNCHANGED <<firing, orphans, api, checker, pending, points, enabled,
                   register, status, calls, restarts>>

PollUnchanged == UNCHANGED <<queue, firing, orphans, api, checker, pending, enabled,
                             status, calls, restarts>>

ReadDevice ==
    /\ Running /\ poll.stage = "fetched" /\ poll.row.read /\ ~poll.row.write
    /\ poll' = [poll EXCEPT !.stage = "responded", !.readSuccess = TRUE,
                            !.value = register[Polled]]
    /\ UNCHANGED <<points, register>> /\ PollUnchanged

WriteDevice ==
    /\ Running /\ poll.stage = "fetched" /\ poll.row.write
    /\ IsWriteable(Mode[Polled]) /\ poll.row.wv # NoValue
    /\ register' = [register EXCEPT ![Polled] = Readback[poll.row.wv]]
    /\ poll' = [poll EXCEPT !.stage = "responded", !.writeSuccess = TRUE,
                            !.value = Readback[poll.row.wv]]
    /\ UNCHANGED points /\ PollUnchanged

\* "successful because there is no value to write"
WriteNothing ==
    /\ Running /\ poll.stage = "fetched" /\ poll.row.write
    /\ IsWriteable(Mode[Polled]) /\ poll.row.wv = NoValue
    /\ poll' = [poll EXCEPT !.stage = "responded", !.writeSuccess = TRUE]
    /\ UNCHANGED <<points, register>> /\ PollUnchanged

\* The request times out; a write may have been carried out all the same.
DeviceFails ==
    /\ Running /\ poll.stage = "fetched" /\ "io" \in Faults
    /\ poll.row.write => poll.row.wv # NoValue
    /\ \/ register' = register
       \/ /\ poll.row.write
          /\ register' = [register EXCEPT ![Polled] = Readback[poll.row.wv]]
    /\ poll' = [poll EXCEPT !.stage = "failed", !.retryType = "immediate"]
    /\ UNCHANGED points /\ PollUnchanged

\* No client for the network, or no address of the device.
ClientFails ==
    /\ Running /\ poll.stage = "fetched" /\ "transport" \in Faults
    /\ \E retry \in {"normal", "delayed"} :
          poll' = [poll EXCEPT !.stage = "failed", !.retryType = retry]
    /\ UNCHANGED <<points, register>> /\ PollUnchanged

IsChange == poll.value # poll.row.ov

\* internalPointUpdate: the row it returns replaces the one that was fetched.
Record ==
    /\ Running /\ poll.stage = "responded" /\ IsChange /\ Live(Polled)
    /\ points' = [points EXCEPT ![Polled].ov = poll.value]
    /\ poll' = [poll EXCEPT !.stage = "recorded", !.row = points'[Polled],
           !.readSuccess = @ \/ /\ Mode[Polled] \in {"write_once", "write_always"}
                                /\ poll.writeSuccess /\ poll.row.wv # NoValue]
    /\ UNCHANGED register /\ PollUnchanged

RecordFails ==
    /\ Running /\ poll.stage = "responded" /\ IsChange
    /\ ~Live(Polled) \/ "grpc" \in Faults
    /\ poll' = [poll EXCEPT !.stage = "recorded", !.row = NoRow]
    /\ UNCHANGED <<points, register>> /\ PollUnchanged

\* The return without SinglePollFinished on every 100th poll.
Abandon ==
    /\ Running /\ poll.stage = "recorded" /\ "grpc" \in Faults
    /\ poll' = IdlePoll
    /\ UNCHANGED <<points, register>> /\ PollUnchanged

SinglePollFinished ==
    /\ Running
    /\ poll.stage \in {"recorded", "failed"} \/ (poll.stage = "responded" /\ ~IsChange)
    /\ Complete("poll", queue, poll.pp, poll.row,
           [writeSuccess |-> poll.writeSuccess, readSuccess |-> poll.readSuccess,
            pointUpdate |-> FALSE, resetPriority |-> TRUE,
            retryType |-> poll.retryType, notRequired |-> FALSE])
    /\ poll' = IdlePoll
    /\ UNCHANGED <<firing, orphans, api, checker, points, enabled, register, calls,
                   restarts>>

-----------------------------------------------------------------------------
(* The re-poll timers: a timer fires, then its callback runs. *)

TimerUnchanged == UNCHANGED <<poll, api, checker, pending, points, enabled, register,
                              status, calls, restarts>>

RepollFires(o) ==
    /\ Alive /\ o \in queue.repoll \ firing
    /\ queue' = [queue EXCEPT !.repoll = @ \ {o}]
    /\ firing' = firing \cup {o}
    /\ UNCHANGED orphans /\ TimerUnchanged

OrphanFires(o) ==
    /\ Alive /\ o \in orphans \ firing
    /\ orphans' = orphans \ {o} /\ firing' = firing \cup {o}
    /\ UNCHANGED queue /\ TimerUnchanged

\* RepollTimer is set to nil even if it is a newer timer, which then runs on.
RepollCallback(o) ==
    /\ Alive /\ o \in firing
    /\ firing' = firing \ {o}
    /\ orphans' = IF o \in queue.repoll THEN orphans \cup {o} ELSE orphans
    /\ \E r \in RemoveFromStandbyQueue([queue EXCEPT !.repoll = @ \ {o}],
                                       FFPointUUID[o]) :
          queue' = AddToPriorityQueue(r.q, o)
    /\ TimerUnchanged

-----------------------------------------------------------------------------
(* The API handlers: bound, one at a time. *)

Call(op) == /\ Running /\ op \in Ops /\ api.stage = "idle" /\ Free("api")
            /\ calls > 0 /\ calls' = calls - 1
At(stage) == Alive /\ api.stage = stage /\ Free("api")

CallUnchanged == UNCHANGED <<firing, orphans, poll, checker, pending, register,
                             status, restarts>>
StepUnchanged == UNCHANGED <<firing, orphans, poll, checker, points, enabled,
                             register, calls, restarts>>

\* The arguments of the completion of an added or updated point.
UpdateCompletion(p) ==
    IF PollOnStart[p]
      THEN [writeSuccess |-> FALSE, readSuccess |-> FALSE, pointUpdate |-> TRUE,
            resetPriority |-> TRUE, retryType |-> "normal", notRequired |-> FALSE]
      ELSE [writeSuccess |-> TRUE, readSuccess |-> TRUE, pointUpdate |-> TRUE,
            resetPriority |-> FALSE, retryType |-> "normal", notRequired |-> TRUE]

\* A new polling point for p enters the queue q as an update of p.
Requeue(a, q, p, row) ==
    /\ FreePP(p) # {}
    /\ LET o == NewPollingPoint(p) IN
       Complete(a, WithPriority(q, o, "normal"), o, row, UpdateCompletion(p))

AddPoint(p) ==
    /\ Call("add") /\ points[p].life = "absent"
    /\ \E e \in BOOLEAN : points' = [points EXCEPT ![p] =
           [@ EXCEPT !.life = "live", !.enable = e, !.read = TRUE,
                     !.write = IsWriteable(Mode[p]) /\ PollOnStart[p]]]
    /\ api' = Job("added", p, points'[p])
    /\ UNCHANGED <<queue, enabled>> /\ CallUnchanged

AddPointQueues(p) ==
    /\ At("added") /\ p \in Todo(api)
    /\ IF api.rows[p].enable
         THEN \E r \in RemovePollingPointByPointUUID(queue, p) :
                 Requeue("api", r.q, p, api.rows[p])
         ELSE UNCHANGED <<queue, pending, status>>
    /\ api' = IdleApi /\ StepUnchanged

\* A point that is not writeable loses its write value.
KeptValue(p) == IF IsWriteable(Mode[p]) THEN points[p].wv ELSE NoValue

UpdatePoint(p) ==
    /\ \E e, rd \in BOOLEAN :
          /\ Call(IF e THEN "update" ELSE "disable") /\ Live(p)
          /\ points' = [points EXCEPT ![p] =
                [@ EXCEPT !.enable = e, !.read = rd, !.write = IsWriteable(Mode[p]),
                          !.wv = KeptValue(p)]]
    /\ api' = Job("updated", p, points'[p])
    /\ UNCHANGED <<queue, enabled>> /\ CallUnchanged

UpdatePointQueues(p) ==
    /\ At("updated") /\ p \in Todo(api)
    /\ \E r \in RemovePollingPointByPointUUID(queue, p) :
          IF api.rows[p].enable /\ Enabled(p, enabled)
            THEN Requeue("api", r.q, p, api.rows[p])
            ELSE queue' = r.q /\ UNCHANGED <<pending, status>>
    /\ api' = IdleApi /\ StepUnchanged

\* PointWrite stores the value.  A row that needs no write ends the call; a nil
\* OriginalValue is dereferenced for a write_once_then_read point whose value
\* is written again.
WritePoint(p) ==
    /\ Call("write") /\ Live(p)
    /\ \E v \in Value :
          LET changed == v # points[p].wv
              reached == points[p].enable /\ ~changed
                         /\ Mode[p] = "write_once_then_read"
              needed  == \/ changed
                         \/ Mode[p] \in {"write_once", "write_once_read_once"}
                         \/ reached /\ v # points[p].ov IN
          /\ points' = [points EXCEPT ![p].wv = v]
          /\ status' = IF reached /\ points[p].ov = NoValue THEN "panicked" ELSE status
          /\ api' = IF points[p].enable /\ needed
                      THEN Job("written", p, points'[p]) ELSE api
    /\ UNCHANGED <<queue, firing, orphans, poll, checker, pending, enabled, register,
                   restarts>>

\* Mutant of WritePointRequests: the mode is not looked at.
WritePointRequestsAlways(p) ==
    /\ At("written") /\ p \in Todo(api)
    /\ points' = UpdateRow(p, [api.rows[p] EXCEPT !.write = TRUE, !.read = TRUE])
    /\ api' = Job("requested", p, points'[p])
    /\ UNCHANGED <<queue, firing, orphans, poll, checker, pending, enabled, register,
                   status, calls, restarts>>

WritePointRequests(p) ==
    /\ At("written") /\ p \in Todo(api)
    /\ points' = UpdateRow(p, [api.rows[p] EXCEPT !.write = IsWriteable(Mode[p]),
                     !.read = Mode[p] \notin {"write_always", "write_once"}])
    /\ api' = Job("requested", p, points'[p])
    /\ UNCHANGED <<queue, firing, orphans, poll, checker, pending, enabled, register,
                   status, calls, restarts>>

WritePointQueues(p) ==
    /\ At("requested") /\ p \in Todo(api)
    /\ \E r \in RemovePollingPointByPointUUID(queue, p) :
          IF r.pp = NoPP THEN queue' = r.q /\ UNCHANGED <<pending, status>>
          ELSE Complete("api", r.q, r.pp, api.rows[p],
                  [writeSuccess |-> FALSE, readSuccess |-> FALSE,
                   pointUpdate |-> TRUE, resetPriority |-> FALSE,
                   retryType |-> "immediate", notRequired |-> FALSE])
    /\ api' = IdleApi /\ StepUnchanged

DeletePoint(p) ==
    /\ Call("delete") /\ Live(p)
    /\ \E r \in RemovePollingPointByPointUUID(queue, p) : queue' = r.q
    /\ api' = Job("removed", p, points[p])
    /\ UNCHANGED <<points, enabled>> /\ CallUnchanged

DeletePointRow(p) ==
    /\ At("removed") /\ p \in Todo(api)
    /\ points' = [points EXCEPT ![p].life = "deleted"]
    /\ api' = IdleApi
    /\ UNCHANGED <<queue, firing, orphans, poll, checker, pending, enabled, register,
                   status, calls, restarts>>

UpdateDevice(d) ==
    /\ Call("device")
    /\ \E e \in BOOLEAN :
          /\ enabled' = [enabled EXCEPT ![d] = e]
          /\ api' = [IdleApi EXCEPT !.stage = IF e THEN "enabling" ELSE "disabling",
                                    !.device = d]
    /\ UNCHANGED <<queue, points>> /\ CallUnchanged

DisableDevice ==
    /\ At("disabling")
    /\ queue' = RemovePollingPointByDeviceUUID(queue, api.device)
    /\ api' = IdleApi /\ UNCHANGED <<pending, status>> /\ StepUnchanged

\* The rows of the live points that satisfy a condition, as one gRPC call
\* returns them.
RowsOf(S) == [p \in Point |-> IF p \in S /\ Live(p) THEN points[p] ELSE NoRow]

EnableDevice ==
    /\ At("enabling")
    /\ LET rows == RowsOf({p \in Point : /\ FFDeviceUUID[p] = api.device
                                         /\ points[p].enable}) IN
       api' = IF rows = NoRows THEN IdleApi
              ELSE [api EXCEPT !.stage = "readding", !.rows = rows]
    /\ UNCHANGED <<queue, pending, status>> /\ StepUnchanged

\* Nothing is removed from the queue first.
ReAddPoint(p) ==
    /\ At("readding") /\ p \in Todo(api)
    /\ Requeue("api", queue, p, api.rows[p])
    /\ api' = IF Todo(api) = {p} THEN IdleApi ELSE Done(api, p)
    /\ StepUnchanged

\* Neither the next point nor the one that is out is taken out of polling.
DeleteDevice(d) ==
    /\ Call("deleteDevice") /\ \E p \in Point : FFDeviceUUID[p] = d /\ Live(p)
    /\ queue' = RemovePollingPointByDeviceUUID(queue, d)
    /\ api' = [IdleApi EXCEPT !.stage = "uninstalled", !.device = d]
    /\ UNCHANGED <<points, enabled>> /\ CallUnchanged

\* The points of a device are deleted with it.
DeleteDeviceRow ==
    /\ At("uninstalled")
    /\ points' = [p \in Point |->
           IF FFDeviceUUID[p] = api.device /\ Live(p)
             THEN [points[p] EXCEPT !.life = "deleted"] ELSE points[p]]
    /\ api' = IdleApi
    /\ UNCHANGED <<queue, firing, orphans, poll, checker, pending, enabled, register,
                   status, calls, restarts>>

\* A call to the host fails and the handler returns.
ApiFails ==
    /\ "grpc" \in Faults
    /\ \E stage \in {"added", "updated", "written", "removed", "uninstalled",
                  "enabling", "network"} : At(stage)
    /\ api' = IdleApi
    /\ UNCHANGED <<queue, pending, status>> /\ StepUnchanged

-----------------------------------------------------------------------------
(* StopPolling and StartPolling, by updateNetwork or as the process starts. *)

\* updateNetwork: the host has the record with its Enable flag ...
UpdateNetwork ==
    /\ Call("network")
    /\ \E e \in BOOLEAN : enabled' = [enabled EXCEPT ![Network] = e]
    /\ api' = [api EXCEPT !.stage = "network"]
    /\ UNCHANGED <<queue, points>> /\ CallUnchanged

\* ... and polling is stopped if it is on and must not be, or if the poll rate is another,
\* which is a comparison of pointers; then it is started, even for a disabled network ...
StopPolling ==
    /\ At("network")
    /\ \E restart \in BOOLEAN :
          LET on     == status = "running"
              stops  == on /\ ~enabled[Network]
              starts == ~stops /\ (restart \/ (~on /\ enabled[Network])) IN
          /\ IF stops \/ restart
               THEN queue' = EmptyQueue(queue) /\ status' = "stopped"
               ELSE UNCHANGED <<queue, status>>
          /\ api' = IF stops THEN [api EXCEPT !.stage = "stopping"]
                    ELSE IF starts THEN [api EXCEPT !.stage = "restarting"] ELSE IdleApi
    /\ UNCHANGED pending /\ StepUnchanged

\* ... which waits for a checker at work, with the queue emptied already.
StopChecker ==
    /\ At("stopping") \/ At("restarting")
    /\ Todo(checker) = {} /\ Free("checker")
    /\ api' = IF api.stage = "stopping" THEN IdleApi ELSE [api EXCEPT !.stage = "stopped"]
    /\ UNCHANGED <<queue, pending, status>> /\ StepUnchanged

\* SetAllDevicePollRateDurations ignores the error of its call and goes through the
\* devices of a nil network.
RatesFail ==
    /\ At("stopped") /\ "grpc" \in Faults
    /\ status' = "panicked" /\ UNCHANGED <<queue, api, pending>>
    /\ StepUnchanged

\* With the poll rates at hand RebuildPollingQueue stops polling once more and
\* fetches the network.
RebuildPollingQueue ==
    /\ At("stopped")
    /\ queue' = EmptyQueue(queue)
    /\ api' = [api EXCEPT !.stage = "emptied"]
    /\ UNCHANGED <<pending, status>> /\ StepUnchanged

FetchNetwork ==
    /\ At("emptied")
    /\ \E rows \in {RowsOf({p \in Point : points[p].enable /\ Enabled(p, enabled)})}
                   \cup (IF "grpc" \in Faults THEN {NoRows} ELSE {}) :
          api' = [api EXCEPT !.stage = "rebuilding", !.rows = rows]
    /\ UNCHANGED <<queue, pending, status>> /\ StepUnchanged

RebuildPoint(p) ==
    /\ At("rebuilding") /\ p \in Todo(api) /\ FreePP(p) # {}
    /\ LET o == NewPollingPoint(p)
           q == WithPriority(queue, o, api.rows[p].priority) IN
       IF PollOnStart[p]
         THEN queue' = AddToPriorityQueue(q, o) /\ UNCHANGED <<pending, status>>
         ELSE Complete("api", q, o, api.rows[p], UpdateCompletion(p))
    /\ api' = Done(api, p) /\ StepUnchanged

StartPolling ==
    /\ At("rebuilding") /\ Todo(api) = {}
    /\ queue' \in Start(queue)
    /\ status' = "running"
    /\ api' = IdleApi
    /\ UNCHANGED pending /\ StepUnchanged

\* The process dies, by a panic or otherwise, and is started again: the
\* database and the devices stay as they are.
Restart ==
    /\ status = "panicked" \/ restarts > 0
    /\ restarts' = IF status = "panicked" THEN restarts ELSE restarts - 1
    /\ queue' = NewQueue /\ firing' = {} /\ orphans' = {}
    /\ poll' = IdlePoll /\ checker' = IdleChecker
    /\ pending' = [a \in Actors |-> NoRows]
    /\ api' = [IdleApi EXCEPT !.stage = "stopped"]
    /\ status' = "starting"
    /\ UNCHANGED <<points, enabled, register, calls>>

-----------------------------------------------------------------------------
(* The queue checker: one call for the network, then point by point. *)

CheckerUnchanged == UNCHANGED <<firing, orphans, poll, api, points, enabled,
                                register, calls, restarts>>

\* In a disabled network both lists are emptied, and filled again point by point.
CheckQueue ==
    /\ status = "running" /\ "check" \in Ops /\ Todo(checker) = {} /\ Free("checker")
    /\ queue' = IF enabled[Network] THEN queue ELSE EmptyLists(queue)
    /\ checker' = IF RowsOf(Point) = NoRows THEN IdleChecker
                  ELSE [rows |-> RowsOf(Point), enabled |-> enabled]
    /\ UNCHANGED <<pending, status>> /\ CheckerUnchanged

CheckPoint(p) ==
    /\ Running /\ p \in Todo(checker) /\ Free("checker")
    /\ LET row == checker.rows[p] IN
       IF ~Enabled(p, checker.enabled)
         THEN /\ queue' = IF IsQueued(queue, p)
                   THEN RemovePollingPointByDeviceUUID(queue, FFDeviceUUID[p])
                   ELSE queue
              /\ UNCHANGED <<pending, status>>
       ELSE IF IsQueued(queue, p) = row.enable
         THEN UNCHANGED <<queue, pending, status>>
       ELSE IF row.enable
         THEN /\ FreePP(p) # {}
              /\ LET o == NewPollingPoint(p) IN
                 Complete("checker", WithPriority(queue, o, "normal"), o, row,
                    [writeSuccess |-> FALSE, readSuccess |-> FALSE,
                     pointUpdate |-> TRUE, resetPriority |-> TRUE,
                     retryType |-> "normal", notRequired |-> FALSE])
       ELSE /\ \E r \in RemovePollingPointByPointUUID(queue, p) : queue' = r.q
            /\ UNCHANGED <<pending, status>>
    /\ checker' = IF Todo(checker) = {p} THEN IdleChecker ELSE Done(checker, p)
    /\ CheckerUnchanged

-----------------------------------------------------------------------------
\* A register changes in the field, not by a write of the poll.
FieldChanges(p) ==
    /\ "field" \in Ops /\ Alive /\ calls > 0 /\ calls' = calls - 1
    /\ \E v \in Value \ {register[p]} : register' = [register EXCEPT ![p] = v]
    /\ UNCHANGED <<queue, firing, orphans, poll, api, checker, pending, points,
                   enabled, status, restarts>>

-----------------------------------------------------------------------------
Init ==
    /\ queue = NewQueue /\ firing = {} /\ orphans = {}
    /\ poll = IdlePoll /\ checker = IdleChecker
    /\ api = [IdleApi EXCEPT !.stage = "stopped"]
    /\ pending = [a \in Actors |-> NoRows]
    /\ points = InitRow /\ enabled = AllEnabled
    /\ register = InitRegister
    /\ status = "starting" /\ calls = MaxCalls /\ restarts = MaxRestarts

PollStep == \/ Draw \/ FindDevice \/ FetchOk \/ FetchFails \/ ReadDevice
            \/ WriteDevice \/ WriteNothing \/ DeviceFails \/ ClientFails \/ Record \/ RecordFails
            \/ Abandon \/ SinglePollFinished

ApiStep == \/ \E p \in Point : \/ AddPoint(p) \/ AddPointQueues(p)
                               \/ UpdatePoint(p) \/ UpdatePointQueues(p)
                               \/ WritePoint(p) \/ WritePointRequests(p)
                               \/ WritePointQueues(p)
                               \/ DeletePoint(p) \/ DeletePointRow(p)
                               \/ ReAddPoint(p) \/ RebuildPoint(p)
           \/ \E d \in Device : UpdateDevice(d) \/ DeleteDevice(d)
           \/ DisableDevice \/ EnableDevice \/ DeleteDeviceRow \/ ApiFails
           \/ UpdateNetwork \/ StopPolling \/ StopChecker \/ RatesFail
           \/ RebuildPollingQueue \/ FetchNetwork \/ StartPolling

TimerStep == \E o \in PP : RepollFires(o) \/ OrphanFires(o) \/ RepollCallback(o)

CheckerStep == CheckQueue \/ \E p \in Point : CheckPoint(p)

Next == \/ PollStep \/ ApiStep \/ TimerStep \/ CheckerStep \/ Restart
        \/ \E a \in Actors : Save(a)
        \/ \E p \in Point : FieldChanges(p)

Spec == Init /\ [][Next]_vars

-----------------------------------------------------------------------------
PollState == [stage : {"idle", "drawn", "found", "fetched", "responded", "recorded", "failed"},
              pp : PP \cup {NoPP}, row : Row \cup {NoRow},
              writeSuccess : BOOLEAN, readSuccess : BOOLEAN, value : Value,
              retryType : Retries]
Rows == [Point -> Row \cup {NoRow}]
ApiState == [stage : {"idle", "added", "updated", "written", "requested", "removed",
                      "disabling", "enabling", "readding", "uninstalled", "stopped",
                      "emptied", "rebuilding", "network", "stopping", "restarting"},
             rows : Rows, device : Device]

\* The type of every variable; and a polling point is out exactly while the poll
\* goroutine is in pollSingleNetwork, with a row exactly while it has fetched one.
TypeOK ==
    /\ queue \in Queue /\ firing \subseteq PP /\ orphans \subseteq PP
    /\ poll \in PollState
    /\ poll.pp = NoPP <=> poll.stage = "idle"
    /\ poll.stage \in {"fetched", "responded", "failed"} => poll.row \in Row
    /\ api \in ApiState
    /\ checker \in [rows : Rows, enabled : [Switch -> BOOLEAN]]
    /\ pending \in [Actors -> Rows]
    /\ points \in [Point -> Row] /\ enabled \in [Switch -> BOOLEAN]
    /\ register \in [Point -> Value]
    /\ status \in {"starting", "running", "stopped", "panicked"}
    /\ calls \in Nat /\ restarts \in Nat

\* No point waits twice in the priority queue, whoever adds it: the poll, an API
\* handler, the queue checker or a re-poll callback (poll_queue.go:40,
\* priority_queue.go:153).
QueueUnique == \A x, y \in queue.heap : FFPointUUID[x] = FFPointUUID[y] => x = y

\* A re-poll timer that can still be stopped belongs to a polling point of the
\* standby list: every way out of the list stops it, and none arms it without
\* the list (poll_point.go:18, queue_loader.go:256).
RepollInStandby == \A o \in queue.repoll : InStandby(queue, o)

\* No row asks for a write to a point whose mode only reads, be it in the
\* database, held by a handler across a blocking call, or about to be written
\* back: the poll has neither a read nor a write for such a row and would put the
\* point straight back into the queue (polling.go:144, polling.go:172).
MayWrite(p, row) == row # NoRow /\ row.write => IsWriteable(Mode[p])
OnlyWriteModesWrite ==
    /\ \A p \in Point : /\ MayWrite(p, points[p]) /\ MayWrite(p, api.rows[p])
                         /\ MayWrite(p, checker.rows[p])
                         /\ \A a \in Actors : MayWrite(p, pending[a][p])
    /\ poll.pp # NoPP => MayWrite(Polled, poll.row)
=============================================================================
