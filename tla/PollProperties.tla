--------------------------- MODULE PollProperties ---------------------------
(***************************************************************************)
(* What the poll manager is there for: every enabled point is in exactly   *)
(* one place and is polled again and again, what is written reaches the    *)
(* device, what is deleted leaves.  And the fairness that the scheduling   *)
(* of the code justifies.                                                  *)
(***************************************************************************)
EXTENDS PollManager

\* The places a point is in, with the polling point that is there: priority queue,
\* next, out for polling, and each entry of the standby list.
Places(p) ==
    LET mine == {o \in PP : FFPointUUID[o] = p} IN
    {<<"queue", o>> : o \in mine \cap queue.heap}
    \cup {<<"next", o>> : o \in mine \cap {queue.next}}
    \cup {<<"out", o>> : o \in mine \cap {poll.pp}}
    \cup UNION {{<<"standby", o, n>> : n \in 1..queue.standby[o]} : o \in mine}

Alone(p) == \A x, y \in Places(p) : x = y

\* Between its start and its end, polling neither loses nor doubles a point: each
\* enabled point is in the priority queue, next, out, or in standby, and in only
\* one of them (poll_queue.go:14, poll_queue.go:15).
Conserved ==
    status = "running" => \A p \in Point : Live(p) /\ points[p].enable =>
                              Places(p) # {} /\ Alone(p)

\* The same places as a user knows them, of a polling point and of a point, with the
\* queue q and the poll goroutine at its turn.
Whereabouts(q, turn, o) ==
    IF o = turn.pp
      THEN IF turn.stage \in {"drawn", "found", "fetched"} THEN "out" ELSE "asked"
    ELSE IF o = q.next THEN "next"
    ELSE IF o \in q.heap THEN "waiting"
    ELSE IF InStandby(q, o) THEN "resting" ELSE "away"
PlaceOf(q, turn, p) ==
    LET mine  == {o \in PP : FFPointUUID[o] = p}
        known == {Whereabouts(q, turn, o) : o \in mine} \ {"away"} IN
    IF known = {} THEN "away" ELSE CHOOSE x \in known : TRUE

ToBePolled == {p \in Point : InitRow[p].life = "live" /\ InitRow[p].enable}

\* Each step of polling is a step in the life of the points: one of them at a time goes
\* out, the one that was next, is asked, and comes back to wait or to rest; the callback
\* of a timer wakes its own point and no other; and polling starts when all points that
\* are due are in the queue (queue_loader.go:24, poll_queue.go:111, queue_loader.go:260).
Life == INSTANCE PointLifecycle
            WITH Due <- ToBePolled, up <- Running,
                 place <- [p \in Point |-> PlaceOf(queue, poll, p)]
Orderly == Life!Spec

\* No point is in two places at once (poll_queue.go:15).
NeverDoubled == \A p \in Point : Alone(p)

\* A point with an unserved write is owed one by its row, unless a handler or the
\* poll is at work on it: a write that is asked for while the point is out for
\* polling is not forgotten (queue_loader.go:76, poll_queue.go:16).
Written(p) == points[p].wv # NoValue => register[p] = Readback[points[p].wv]
AtWork(p) == \/ api.rows[p] # NoRow \/ Of(poll.pp, p)
             \/ \E x \in Actors : pending[x][p] # NoRow
WriteIsOwed == \A p \in Point :
    Mode[p] \in WriteModes /\ Running /\ Live(p) /\ points[p].enable =>
        Written(p) \/ points[p].write \/ AtWork(p)

\* The process does not dereference a nil CurrentPollPoint or OriginalValue.
NoPanic == Alive
-----------------------------------------------------------------------------
\* The poll goroutine ticks on; an API handler that has begun goes on; timers
\* fire; the supervisor restarts a process that has died.
ApiContinues ==
    \/ \E p \in Point : \/ AddPointQueues(p) \/ UpdatePointQueues(p)
                        \/ WritePointRequests(p) \/ WritePointQueues(p)
                        \/ DeletePointRow(p) \/ ReAddPoint(p) \/ RebuildPoint(p)
    \/ DisableDevice \/ EnableDevice \/ DeleteDeviceRow \/ StopPolling \/ StopChecker
    \/ RebuildPollingQueue \/ FetchNetwork \/ StartPolling

\* Points of one priority are drawn in the order of their entry (Less,
\* priority_queue.go:59), so none of them is passed over for ever.
DrawsNext(p) == Draw /\ Of(queue'.next, p)

Progress ==
    /\ WF_vars(PollStep) /\ WF_vars(ApiContinues)
    /\ \A a \in Actors : WF_vars(Save(a))
    /\ \A o \in PP : /\ WF_vars(RepollFires(o)) /\ WF_vars(OrphanFires(o))
                     /\ WF_vars(RepollCallback(o))
    /\ WF_vars(Restart /\ status = "panicked")
    /\ \A p \in Point : SF_vars(DrawsNext(p))

\* Every device answers again and again; so does the host.
Answers(p) == (ReadDevice \/ WriteDevice \/ WriteNothing) /\ Polled = p
DevicesAnswer == \A p \in Point : SF_vars(Answers(p))
HostAnswers == \A p \in Point : /\ SF_vars(FindDevice /\ Polled = p)
                                 /\ SF_vars(FetchOk /\ Polled = p)
                                 /\ SF_vars(Record /\ Polled = p)

\* A process that cannot start because the host does not answer is started until it
\* does.
HostStarts == SF_vars(RebuildPollingQueue)

Checking == WF_vars(CheckQueue) /\ \A p \in Point : WF_vars(CheckPoint(p))

PollingSpec   == Spec /\ Progress
AnsweringSpec == PollingSpec /\ DevicesAnswer
CheckingSpec  == PollingSpec /\ Checking /\ HostStarts
RecoveringSpec == AnsweringSpec /\ HostAnswers /\ HostStarts /\ Checking
-----------------------------------------------------------------------------
\* Every enabled point of a mode that is polled for ever is drawn again and again.
Cyclic(p) == Mode[p] \notin {"read_once", "write_once", "write_once_read_once"}
PolledAgain == \A p \in Point :
    []<>(Of(poll.pp, p) \/ ~(Cyclic(p) /\ Live(p) /\ points[p].enable))

\* A point that polling has lost - its rows could not be fetched or its poll was
\* abandoned - is found and put back by the queue checker, as long as polling is on and
\* the point, its device and its network are enabled (poll_manager.go:199).
Wanted(p) == /\ status = "running" /\ enabled[Network]
             /\ Live(p) /\ points[p].enable /\ Enabled(p, enabled)
LostIsFound == \A p \in Point : []<>(Places(p) # {} \/ ~Wanted(p))

\* The value last asked for is in the device in the end, and stays there.
WriteArrives == \A p \in Point :
    Mode[p] \in {"write_always", "write_and_maintain"} =>
        <>[](Live(p) /\ points[p].enable /\ points[p].wv # NoValue =>
                register[p] = Readback[points[p].wv])

\* A point that is deleted leaves the queue and the lists for good.
Gone(p) == Places(p) = {}
DeletedLeaves == \A p \in Point : [](points[p].life = "deleted" => <>[]Gone(p))
=============================================================================
