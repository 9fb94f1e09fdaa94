# Modbus polling: a TLA+ model of module-core-modbus

The repository is a Go module that polls the points of Modbus networks for a host
(rubix-os), which keeps the networks, devices and points in its database and is called
over gRPC. Its core is the poll manager of a network (`src/pollqueue`), the poll loop and
API handlers around it (`src/pkg`), and the Modbus client behind them (`src/smod`). This
directory models these, checks them on small instances with TLC, and proves invariants
with TLAPS for every value of the constants.

## The system: inventory

| Component | State | Operations | Correct when |
|---|---|---|---|
| Completion of a poll (`queue_loader.go:55-247`) | none of its own: the flags `ReadPollRequired`, `WritePollRequired` of the row | one switch over seven write modes | each outcome of a poll leaves the point in exactly one list, with the flags its mode calls for |
| Poll queue (`poll_queue.go`, `standby_queue.go`, `poll_point.go`) | priority queue, standby list, `QueueUnloader` (next point, current point, `RemoveCurrent`), a re-poll timer per polling point | add, remove by point or device, draw, empty, start | a point is in one place; a timer belongs to a standby entry; a removed point does not come back |
| Priority queue (`priority_queue.go`) | a slice under `container/heap` | push, pop, remove, update, empty, under a mutex | the most urgent point is given out first |
| Poll manager (`poll_manager.go`, `queue_loader.go`) | the queue, `Enable`, re-poll timers | start, stop, rebuild, complete, check every five minutes | no point is lost for ever |
| Queue checker (`poll_manager.go:209-237`) | a ticker, an unbuffered cancel channel, a goroutine | start, stop | one checker to a network that is polled, none otherwise; every stop returns |
| Lockup alert timers (`queue_loader.go:249-309`, `poll_point.go:18-27`) | a timer per queued point, the alert | arm, stop, expire | a point that waits for too long raises the alert |
| Poll loop (`pkg/polling.go`) | one goroutine per network | draw, fetch network, device and point, make a client, ask the device, record the value, complete | each enabled point is polled again and again, and a value to be written is written |
| API handlers (`pkg/app.go`) | a goroutine per request | add, update, write, delete points; add, update, delete devices and networks | a call in the middle of a poll is neither lost nor undone by it |
| Module life cycle (`pkg/enable.go`, `pkg/module.go`) | the list of poll managers, the polling context, the map of clients | Enable, Disable, and the adding, updating and deleting of networks | one manager to a network, none to a deleted one; what is out of the list gets no work |
| Requests (`pkg/utils.go`, `smod/modbus.go`) | a client per network | read and write registers, coils and single bits; narrow a value to a register | the present value is the one in the device; a write arrives and touches nothing else |
| Byte and word order (`smod/encoding.go`) | none | conversions of 16, 32 and 64 bits in four orders, mod10 | what is written is read back, in the order documented |
| Statistics (`polling_statistics.go`) | counters and times | update from the poll loop and the API | counts agree with the queue |

How they interact. The poll loop, the API handlers, the callbacks of the re-poll timers and
the queue checker are goroutines that share one `NetworkPollManager`. The only locks are
those inside the two lists, held for one list operation. They all end a piece of work with
`PollingPointCompleteNotification`, which moves the point and writes its row back to the
host; they all read rows from the host first and act on them later. Nothing serialises
the four, and the rows have no versions.

What makes this hard is therefore: a row read before a request to the device and written
back after it; `CurrentPollPoint` and `RemoveCurrent`, which speak for the poll loop but are
set and cleared by everybody's completions; a stop that hands over to a checker which may be
at work, and that a poll in flight outlives; a list of managers and a context that Enable, Disable and the handlers of networks
replace under running loops; the read and the write of a register of which one bit is
meant; a re-poll timer that has fired and waits to
run; a call to the host that fails between two changes; a crash between the write to the
device and the write-back. `PROJECT.json` lists each of these hazards at its line.

## The modules

| Module | Models |
|---|---|
| `WriteModes` | the switch over the write modes: outcome and row in, disposal out (where the point goes, and its flags). Pure. |
| `PollQueue` | the queue as one record and its operations as operators on it, with the completion notification. Pure; extends `WriteModes`. |
| `PollManager` | one network at work: poll goroutine, handlers, timers, checker, restart, as actions over the queue, the database rows and the registers. Extends `PollQueue`. |
| `PollProperties` | what the poll manager is there for, and the fairness the code's scheduling gives. |
| `PointLifecycle` | what a user may believe of the points of a network: each rests, waits, is the next one, is out or was asked, and a step moves one of them the way it may go. `PollManager` without calls implements it (`Orderly`). |
| `MCPoll` | values of the constants for TLC. |
| `PollHeap` | the priority queue as the array it is, with the `up` and `down` of `container/heap`. |
| `UrgencyOrder` | what the priority queue promises: a set, of which the most urgent is given out, and from which each removal takes what it names and nothing else. `PollHeap` implements it. |
| `MCHeap` | values of the constants of `PollHeap`. |
| `QueueChecker` | the checker's goroutine, ticker and cancel channel under the starts and stops of a network. |
| `ModuleLifecycle` | the networks of the module: host records, the list of managers, their starts and stops, their loops with their contexts, the map of clients. |
| `LockupTimers` | the timers of the lockup alert over the queue of `PollQueue`. Extends `PollQueue`. |
| `MCLockup` | values of its constants. |
| `Encoding` | the conversions between bytes and integers in four orders, and `Documented`, the order the schema documents. Pure. |
| `ModbusRequests` | the requests of one poll on a device with memory, single bits included, and the flags after it. Extends `Encoding` and `WriteModes`. |
| `MCRequests` | points of each object, data type and encoding for it. |
| `PollQueueProofs`, `PollManagerProofs`, `PollHeapProofs`, `ModuleLifecycleProofs`, `QueueCheckerProofs`, `LockupTimersProofs`, `ModbusRequestsProofs` | the theorems and their proofs. |
| `Loops` | lemmas by which what a loop computes is proved: the loops of the heap and of `deleteNetwork`, and those that count, as `Number` and `Power` do. |

`PollManager` takes the priority queue as a set from which some most urgent element is
popped; `PollHeap` shows that the array does just that. It takes a device as a register that
reads back `Readback[v]` for a written v; `ModbusRequests` says what that is, over bytes. It takes
the checker's ticks as given; `QueueChecker` is about how they are started and stopped.
In `ModuleLifecycle` the managers come and go, and the queue of each is one point: held, out on a poll, both
(a restart has queued it anew), or neither; polls put it back or lose it, checks add it, stops drop it.
`LockupTimers` composes the queue with timers that no other part reads.

### Steps and state

A step runs from the return of one blocking call - a gRPC call to the host, a request on
the bus, a tick - up to and including the next. What a goroutine does between two such
calls takes microseconds and is one step; everything may happen between two steps.

- `queue` is the record of the lists and the unloader. `standby` counts the entries of a
  polling point, since the list does not reject a second one. `repoll` holds the polling
  points whose `RepollTimer` is set and running.
- `firing` holds the polling points whose re-poll callback is about to run: `Stop` comes too
  late for these. `orphans` holds those with a running timer that `RepollTimer` no longer
  refers to: a callback sets the field to nil even if a newer timer was armed meanwhile.
- `poll` is where `pollSingleNetwork` is: `idle`, `drawn` (the row of the device is being fetched),
  `found` (that of the point is), `fetched` (the device is being asked), `responded`, `recorded` or `failed`.
- `api` is the handler at work, the points it works on and the rows it holds; rebuilding the
  queue, at the start of the process and in `updateNetwork`, is one more handler. `updateNetwork` stores
  the record (`UpdateNetwork`), empties the queue (`StopPolling`), waits for a checker at work
  (`StopChecker`), and starts polling again with a rebuild or leaves it stopped.
- `checker` is the snapshot that `PollQueueErrorChecking` works through, one point a step.
- `pending` holds the row each of the three is about to write back at the end of a
  completion (`queue_loader.go:243`); `Save` is that call.
- `points` and `enabled` (the Enable flags of the network and its devices) are the database, and
  `register` is the field. `status` is that of the process and of the manager's `Enable`; the goroutine of a
  stopped manager goes on, as in the code, and finds the queue empty or what a poll has put back.

In the other modules:

- `QueueChecker`: `todo` is what the handler at work has still to do, cut where it may block or
  be overtaken. `Select` evaluates the fields `timer` and `channel`, as Go does on entry of a
  `select`; the goroutine then waits on what it has evaluated, whatever the fields become.
- `ModuleLifecycle`: `managers` are those that the list or a goroutine still refers to,
  `list` is `NetworkPollManagers`. `ctx` of a loop is the context that was current when it began:
  `Enable` overwrites the cancel function, which leaves the loops of the context before
  (`lost`) without anyone to end them. A handler is cut at its calls to the host, those inside
  `StartPolling` too: `initiatePolling` has the manager in the list before its poll rates are asked for
  (`SetRates`), the network is asked for (`Rebuild`) and it is on (`StartPolling`). The calls that clear the errors of
  descendants change nothing in memory; one more moment of waiting is all they add. A poll ends, and puts its
  point back, whether or not its manager was stopped meanwhile, and a loop draws whatever its manager
  holds, as `pollSingleNetwork` looks neither at `Enable` nor at the list.
- `ModbusRequests`: `memory` is the device, cell by cell; `out` is a poll that has read the
  register of a bitwise point and sleeps before writing it. `rated` says that the row of the network has a
  `MaxPollRate`: without it the poll stores the default through the nil pointer instead of sleeping, and
  the process dies (`ReadThenDie`). A write repeated with the same value asks for a poll in some modes
  (`Again`), and in one it dereferences a nil `OriginalValue` (`UserWriteDies`). The ghost `stale` holds the points
  whose cells were changed since, by the field, by a write of an overlapping point, or by a request
  whose answer was lost.
- `LockupTimers`: `lockup` are the polling points whose `LockupAlertTimer` runs, `stray` that one
  runs which no polling point refers to. The ghost `twice` holds queued polling points whose point was next,
  out or in standby too since they were queued.

Polling point objects are values `PP` with a point UUID each: two of them may carry the
same UUID, as in the code. `NewPollingPoint` takes one that nothing refers to.

### What is abstracted

- A row is its life, the flags for enable, read and write, its priority, and the write and
  original values. The pointers of Go are values, a nil `*bool` reads as FALSE.
- `Marshaller.UpdatePoint` is external: as the handlers use it, it stores the three
  flags, and values are stored by `PointWrite` only.
- Mode, priority and `PollOnStartup` of a point are constants; its object type allows the
  mode (`isWriteable` in `app.go` and `IsWriteable` agree).
- The order within the standby list and ties in the heap are left open.
- `PointsUpdatedWhilePolling` is omitted: it is read and cleared but nothing inserts.
- API calls are handled one at a time (`api` is one handler), and only once polling has
  started.
- A poll on which nothing is to be read or written does not occur: `OnlyWriteModesWrite`
  and `Fetchable` exclude it, and the first of the two is proved.
- A byte has `Base` values. Values are counted in quarters, the finest a float64 has here, with
  halves the finest of a float32: narrowing loses something. The bits of a float are a one-to-one
  code of the values it holds, here two's complement of that count. A conversion out of range
  is what the build does: cut off or saturated.
- In `ModbusRequests` any point with a flag set is polled at any time, one poll after the other, and a user's
  write falls between polls: `PollManager` has the writes during a poll.
- In `PollManager` a device reads back what was written (`Readback` is the identity in the runs): what the
  width of a register and its format make of a value is in `ModbusRequests`.
- In `QueueChecker` the calls for one network come one after the other. In `ModuleLifecycle` polling
  is switched on in the configuration, and the host disables a module that it has enabled.
- In `LockupTimers` the rows do not change and a handler's work on the queue is one step, but for a
  restart, during which the loop draws on; points are read_only and of one priority, so the four alerts are one.

## The runs

Bounds: `Copies` polling points of each UUID (a new one is made only while one is free),
`MaxCalls` calls of the API or changes in the field, `MaxRestarts` restarts that no panic
caused, two values. In `PollHeap`, `MaxTime` seconds. In `QueueChecker` and `ModuleLifecycle`,
`Id`: tickers with their channels, and managers, that exist at one time (`Room` keeps a call waiting for
one). In `ModbusRequests`, `Base` 4, so that a register has four bits; `LastCell`, the last
address of a table; `MaxEvents`, user writes and changes in the field.

| Run | Instance | Question |
|---|---|---|
| `polling` | 3 points (write_once_then_read, write_and_maintain, read_only), no calls, time-outs and failing clients, one restart | `Conserved`: polling itself neither loses nor doubles a point. `Orderly`: it implements `PointLifecycle`. `PolledAgain`: each is polled again and again |
| `writes` | write_and_maintain and write_always, writes and changes in the field, time-outs | `WriteArrives`: the value last asked for is in the device in the end and stays |
| `deletes` | two points, one yet to be added, 3 adds and deletes of a point or of the device, all faults, one restart | `NeverDoubled`; `DeletedLeaves`: a deleted point leaves for good though timers and polls are at work on it |
| `checker` | one read_only point, one call of any handler, one that disables the network too, at every moment of a poll and a check, all faults, one restart | `LostIsFound`: a point lost by a failed call is put back. `TypeOK`, `QueueUnique`, `RepollInStandby`, `OnlyWriteModesWrite`: the inductive invariants, which the proofs extend to all instances |
| `heap` | 5 polling points on 2 devices, two of one UUID, 2 priorities, 2 seconds | `HeapOrdered`; `Urgent`: the array implements `UrgencyOrder` |
| `requests` | two points of one device: every encoding, the types that do what is documented, overlapping cells, two bits of a register, the last address; 6 cells in a table, requests refused, lost or answered wrongly | `TypeOK`; `PresentIsTrue`: the present value is the one in the device; `OnlyTheBit`: a bit is written alone, if the register still is as it was read; `WishesArrive`: what was asked for is in the device in the end |
| `checker_calls` | any sequence of starts, stops and restarts of one network | `OneChecker`; `CallsReturn`; `DiesStoppingOnly`: the checker's nil dereference happens only under a stop |
| `lifecycle` | 2 networks, 2 managers at a time, one caller | `OneManager`; `DeletedIsForgotten`; `OnlyUnderWay`: a manager out of the list keeps no point but that of a poll or a check under way; `ManagedIsPolled`; `TypeOK` |
| `lockup` | 2 read_only points, one call, the checker and late callbacks at any time | `QueuedIsWatched`: a point that waits is watched, or the alert is raised |

Why the bounds suffice: every hazard listed needs one point that is out, one that waits,
and one call between two steps of the poll; a second or third call is given where the
property is about the order of calls (`deletes`). Two polling points of one UUID (three for
the checker) are what a race between two actors can make. Five elements in the heap are enough for
what takes the place of a removed one to sink over two levels, and for one whose priority has changed to rise; that the last element has to rise
after a removal takes six, which the proof of `HeapOrdered` covers. The two values tell the old from the new. Two networks are the least for which the removal of one has to leave another in the slice, at either
end, and two managers for which one that is out of the list, still at its poll, lives beside the one
that is in it (`Room` keeps a call waiting until the loops of others have ended); the symmetry of `lockup` is sound because its points
differ in nothing and its property is an invariant. In `requests` the wished values
include a fraction and one that has to be cut to four bits, and the field's words read differently in
each of the four orders. `LostIsFound` is about points that are polled for ever: a read_once point
that owes nothing goes nowhere, by design of the mode. It asks nothing while polling is off, or the network, the device
or the point is disabled. Deadlock is not checked in `checker`: a network that is disabled and
stopped, with no call left and nothing queued, really has nothing more to do.

Every property of a passing run has a mutant of the code in `PROJECT.json` that violates
it; the operators of the mutants stand next to what they change, with a comment.

### Disagreements with the code's own comments

Three runs are expected to end in a violation, each of something a comment in the
repository says:

- `nil_current`: a point is deleted while it is out, another notification sets
  `CurrentPollPoint` to nil, and the completion of the poll dereferences it.
- `lost_write`: a write that arrives while its point is out is forgotten when the poll
  writes its older row back.
- `stalled`: a standby entry that has lost its timer hides the point from the queue checker,
  which takes it for queued; it is not polled again.

The models contain further ones, without a run of their own. Where a property of a passing
run makes an exception, this is why.

- The first branch for write_once_read_once (`queue_loader.go:141`) has no `break`: after a
  successful write the point enters the standby list and the priority queue.
- A failed fetch leaves `CurrentPollPoint` set; disabling that point sets `RemoveCurrent`, and the
  next point to complete is dropped in its place (`queue_loader.go:66`).
- A value other than 0 and 1 written to a bitwise point clears the whole register
  (`polling.go:189-196`; `OnlyTheBit` is about 0 and 1). A bit of mode write_always is never
  written, as the read it needs is not asked for (`polling.go:183`). A maintained bit is compared
  with its whole register and written for ever (`queue_loader.go:223`; `Wished`, `Settled`).
- Signed values go out through unsigned integers and are reported as those; fractions are cut
  off (`utils.go:195-202`; `Holds`). A 16-bit register is written in the order of Modbus whatever
  its encoding (`smod/modbus.go:259`). A float64 is read from two registers, always as 0, and written as
  a float32 (`smod/modbus.go:222`, `utils.go:205`). The run has no points of these kinds, apart from the
  signed ones whose values are in range.
- A network without `MaxPollRate` gets the default through the nil pointer when a bit is to be written: the process
  dies at every such poll (`polling.go:177`; `initiatePolling` allows for nil at `polling.go:32`). `WishesArrive`
  is about points of networks that have one (`PollsGoOn`).
- A write_once_then_read point that has no value yet and is written with its write value again dereferences its
  nil `OriginalValue` (`app.go:360`).
- What the field changes in a register between the read and the write of one of its bits is written
  over (`polling.go:181-197`; `OnlyTheBit` is about a register that is as it was read).
- A poll that is out when its manager is stopped puts the point back into the emptied queue
  (`queue_loader.go:66-241`); a loop whose context was lost, or whose network the host did not delete, draws it again
  (`enable.go:21`, `app.go:411`), and nothing stops that any more. `OnlyUnderWay` says that there is no other way.
- A stop that falls into a check sets the ticker to nil under the checker, which dereferences it
  next (`poll_manager.go:224`; `DiesStoppingOnly` and the exception of `CallsReturn`).
- A network that was added disabled has no manager and enabling it makes none; the same after a
  delete that the host refused (`app.go:164`; `ManagedIsPolled` is about networks with one).
- With two callers, a network deleted while Enable goes through its list gets a manager again
  (`enable.go:33`); `lifecycle` has one caller.
- The end of a poll stops the lockup timer of an entry that a late callback has queued meanwhile
  (`queue_loader.go:63`, the ghost `twice`). An add that the queue rejects has armed a timer before, which
  nothing stops: an alert for a point that does not wait (`queue_loader.go:250`).

### Fairness

- `Progress`: weak fairness of the poll goroutine (it ticks for ever), of a handler that
  has begun (its calls return), of each write-back, each timer and each callback, and of the
  restart after a panic (a supervisor). Strong fairness of drawing each point: within a
  priority the heap is ordered by time of entry (`Less`, shown by `Urgent`), so a point that
  is most urgent again and again is drawn. Points of different priorities have no
  such promise and the runs have one priority.
- `DevicesAnswer`, `HostAnswers`: a device (the host) that is asked again and again answers in
  the end. The faults stay possible for ever; only "never an answer" is excluded.
  `polling` and `writes` need the first. `stalled` grants both, and the queue checker, and still
  fails.
- `Checking`: the ticker of the queue checker. `HostStarts`: the start of polling kills the
  process when the host does not answer (`RatesFail`); it is started until the host does.

- `ModbusRequests!FairSpec`: each point that is written is polled, and its requests are answered, again and again;
  refused, lost and garbled ones stay possible for ever. A process that has died is started again.
- `QueueChecker!FairSpec`: a handler that can go on does, and so does the checker's goroutine; its check
  ends. Ticks have no fairness: `CallsReturn` does not need them.
- `ModuleLifecycle!FairSpec`: weak fairness of a handler that has begun, of a loop's turn, of a poll that
  is under way (with or without an answer), of the checks of a manager that is on, and of the end of a loop whose
  context is cancelled.

API calls have no fairness: users may stop calling at any moment.

## The proofs

`PollQueueProofs` shows that every operation of the queue preserves `Sound(q)`: the record
has its type, no UUID is in the priority queue twice, and each running `RepollTimer`
belongs to a standby entry. `DisposeProper` goes through the branches of the switch:
a timer is armed only with a standby entry, and a write is required only in a mode that
writes. `NotificationSound` puts the two together for the completion.

`PollManagerProofs` proves, from the assumptions on the constants and for every number of
points, devices, polling points, calls and restarts:

| Theorem | States | Under |
|---|---|---|
| `InductiveInvariant` | `Spec => []IInv` | |
| `TypeCorrect` | `[]TypeOK` | |
| `QueueUniqueHolds` | `[]QueueUnique` | |
| `RepollInStandbyHolds` | `[]RepollInStandby` | |
| `OnlyWriteModesWriteHolds` | `[]OnlyWriteModesWrite` | |
| `NeverDoubledHolds` | `[]NeverDoubled` | `NoRequeue`, `NoFallThrough` |
| `ConservedHolds` | `[]Conserved` | `Undisturbed` |
| `RemovalsDoNotPanic` | `[]NoPanic` | `OnlyRemovals` |
| `OrderlyHolds` | `Spec => Orderly` | `Undisturbed` |

The first five hold for all modes, calls and faults. `IInv` has one part for each variable. It says
more than the four invariants in one place: before a point is fetched the poll holds no row.
Without this the invariant is not inductive: `Draw` changes which point the poll is about, so a
row left over from the point before would be a row of the wrong point, and its write flag says
nothing about the new point's mode. That a timer implies an entry needs the type of the queue
with it (`standby` counts down on removal and stays a natural number only because it was
positive), so the three parts of `Sound` are proved together. There is one lemma per action,
grouped by actor; the lemmas `PollMoves`, `HandlerMoves`, `CallMoves` and `StepMoves` say once what
an action of each kind leaves alone.

Assumptions: each polling point has a point, each point a device and a mode; nil is no
polling point, row or value; rows in the database at the start require a write only in
modes that write (as `addPoint` makes them); there is a device.

`NeverDoubledHolds`, `ConservedHolds` and `OrderlyHolds` are about places: the priority queue, next, out, and the entries of the
standby list. A point whose re-poll callback is late is about to have a place, so the invariant
`PlacesInv` speaks of what is *held*, placed or with a late callback:

- `Tidy`: of the polling points of one UUID one is held, in one place, and one with a late callback
  has no second timer;
- `Announced`: a point that a handler is about to queue is not held yet;
- `Idlers`: the handlers that put back what may be there are not at work.

`KeptInv` adds, for `Conserved`, that each point that is due is in a place or about to be put into
one by the rebuild, and that each row held by the poll, a handler or a write-back asks for a
poll: a row that does not would end the polling of its point.

The hypotheses are the points at which the code does lose or double a point, or dies; none of them
can be dropped, since a run of TLC then finds the counterexample:

- `OnlyRemovals` (calls disable and delete points and delete devices, the field changes, devices time out, clients fail, the process
  restarts; no call to the host fails): here `RemoveCurrent` is set at any moment of a poll, and the completion that
  meets it finds the point. The invariant is `Remembered`: while a point is out `CurrentPollPoint` is this point. The run `nil_current` shows
  what one other completion does to it, which an add, an update, a write or the checker makes; and a host that does not answer
  kills the process as polling starts (`RatesFail`).
- `NoRequeue` (no update, write, check, enabling of a device or restart of a network): an update
  removes the point from one list and queues it anew while the callback of its timer is late;
  the checker queues a point that is out once `CurrentPollPoint` was cleared; enabling a device adds
  its points without removing them; a network's restart rebuilds the queue while a poll is out.
  Adding, disabling and deleting points, deleting devices, crashes and all faults remain.
- `NoFallThrough`: no point of mode write_once_read_once, whose completion enters two lists.
- `Undisturbed`: no calls; the host answers, since a point whose rows cannot be fetched is lost until
  the checker finds it; modes that are polled for ever, since a point of another that has no flag left
  is queued by a restart and dropped when it is drawn; and rows that have a flag set at the
  start, as `addPoint` leaves them, for the same reason. The devices may time out, clients fail, timers be late and the process
  restart at any moment. The run `polling` is an instance of it.

`OrderlyHolds` is the refinement of `PointLifecycle` by `PollManager`. The mapping takes a point to the place of its polling point
(`Whereabouts`, `PlaceOf`); since one is held at most (`Tidy`), the place of a point is that of any of its polling
points that is placed (`PlaceIsThere`). Each action then has one lemma: a draw is `Draw`, a request to the device, answered or not, is `Ask`,
the end of a poll `Return`, the callback of a timer `Wake`, a point of the rebuild `Enter`, the start of polling `Start`, a
restart of the process `Crash`, and the rest, the firing of a timer among it, moves no point (`StayingIsStutter`). That a callback wakes a
point which rests, and not one that waits already, needs `KeptInv`: the point is due, so it is placed, and a point with a late callback
is in no place but the standby list. That polling starts with every point that is due in the queue, `Start`, needs it
too. `LifeInv` adds what is left: nothing is out before polling has started, and the rows' `enable` is what it was in the beginning,
whatever is written back.

`PollHeapProofs` proves of the array under `container/heap`, for any number of polling points, ranks and
seconds: `HeapSafe` (`[]HeapOrdered`) and `HeapIsUrgent` (`Spec => Urgent`: every call on the array is a step of
`UrgencyOrder` on the set of its elements). The inductive invariant `HeapInv` is the order of the heap with
the facts that no polling point and no UUID is there twice. While `up` and `down` run the array is
no heap: the invariant of their loops is a heap but for one element, whose children do not
precede its parent. `HeapFix` sinks the element and lets it rise only if it did not sink. A removal
from the middle puts the last element in the place of another, from where it may have to do either.
The removal of a device walks the list of its points, taken before the first is removed.

`up`, `down` and the loop of `deleteNetwork` are recursive functions. The induction theorems of the library take
a predicate as a parameter, which no prover here can instantiate; `Loops` states induction with a
set in place of the predicate, from the well-foundedness of the natural numbers (`WFMin`,
`NatLessThanWellFounded`). `LoopDefined` shows that a tail-recursive function exists, `LoopInvariant` is the
rule of `while` for it: an invariant and a measure that decreases. `CountDefined` and `CountInduction` are
the same for a loop that counts to n: the bytes of a number, a power.

`ModuleLifecycleProofs` proves, for any networks and managers:

| Theorem | States | Under |
|---|---|---|
| `LifecycleTyped` | `[]TypeOK` | |
| `OnlyUnderWayHolds` | `OnlyUnderWay` | `OneCaller` |
| `OneManagerHolds` | `[]OneManager` | `OneCaller` |
| `DeletedIsForgottenHolds` | `[]DeletedIsForgotten` | `OneCaller` |

The first holds for any number of callers: its invariant `LInv` says that the slice names managers that exist, each once,
and that each step a call can be at has what it needs. This goes through the removal from the slice that
is looped over at the same time: `Removed` keeps the elements apart whatever their order, and, with one
manager to the network, takes out just that one (`RemovedLoop`). The other three need that calls do not
overlap: with two callers, `Enable` makes a manager for a network that is being deleted, which is a
disagreement listed above, and a start under way would fill the queue of a manager that has left the list. Their invariant `SInv`
says that a manager that is on is in the list, and for each step that a call can be at which
networks have a manager and which are still to get one.

`LockupTimersProofs` proves `QueuedIsWatchedHolds` (`[]QueuedIsWatched`) for any number of points, polling points and calls.
The invariant is stronger in two ways: a polling point that waits alone has a timer of its own, not
one of another polling point of its UUID; and what waits and is not in `twice` is in no other place. So an
operation that stops a timer - it leaves a list, or its poll ends - is either about another polling point,
or takes it out of the queue, or adds it again and arms a new timer.

`QueueCheckerProofs` proves `OneCheckerHolds` (`Spec => []OneChecker`) and `DiesStoppingOnlyHolds`
(`Spec => []DiesStoppingOnly`) for any set of tickers, from the one assumption that nil is
none of them. `OneChecker` speaks of the moments between two calls, so it is not inductive:
its `IInv` has one case for each step a handler can be at - what the fields hold, which
ticker runs, and that a checker is there exactly from `make` to the send that it meets, its
channel the manager's. From this follows also that the field is nil under a
running checker only while a stop waits to send.

`ModbusRequestsProofs` proves, for a byte of any base, any points, devices, wishes and faults, from
`BaseAssumption` (the base is an even number above zero) and `RequestsAssumption` (the types of the constants):

| Theorem | States | Under |
|---|---|---|
| `RoundTrip` | bytes laid out by a write are read back as they were | |
| `ReadsAsDocumented` | decoding follows `Documented`, the order of the schema | |
| `RequestsTyped` | `[]TypeOK` | |
| `PresentIsTrueHolds` | `[]PresentIsTrue` | `AsDocumented` |
| `OnlyTheBitHolds` | `OnlyTheBit` | `AsDocumented` |

The way there: what `Power`, `Number` and `Digits` compute, for every width; quotients, remainders and the bits of a
number; the orders of bytes; what a point decodes to is what was encoded for it; what `Put` leaves of the
other cells; and that a new bit in a register leaves its others as they were.

`PresentIsTrue` and `OnlyTheBit` share the invariant `Held`. A bitwise write reads the register, sleeps,
and sends back what it read with one bit changed. So `Held` has two parts beside the type: the value
in a row that is not stale is the device's (`ValueHeld`); and the register read before the sleep is a number
of its width, and is still the device's for each point that has a bit in it and is not stale (`ReadHeld`). Without the second
part neither is inductive: the late write could bring back another bit of long ago. A change in the field makes each such point
stale, and the polls of one network do not overlap, so nothing else comes between the read and the write.

`AsDocumented` keeps to the points for which the code does what is documented. Each part excludes one of the
disagreements above: no register is read as a float64; a writeable register of one word has an
encoding with the bytes in order; a bit is 0 or 1 and is of an integer register, not of a coil or a
float; a wish fits the type, that is, it is not negative or too large for what a signed point reports, nor is it a float32
that is reported before it is narrowed (`Fits`); and two bitwise points with a cell in common, one of them writeable,
are bits of the same register, at one address and of one type. `MCRequests` has `PointsAssumption`, by which TLC evaluates
that the points of the run satisfy it: 32-bit values in all four orders, 64-bit ones, coils and two bits of a register
are among them.

Only model-checked:

- the liveness properties (`PolledAgain`, `WriteArrives`, `DeletedLeaves`, `LostIsFound`, `CallsReturn`, `ManagedIsPolled`,
  `WishesArrive`): fairness and ENABLED are outside the prover;
- `Conserved`, `NeverDoubled` and `Orderly` beyond the hypotheses above, and `PresentIsTrue` and `OnlyTheBit` beyond
  `AsDocumented`: there they do not hold, so that nothing is left to prove.

## Not modelled

- The router decodes and dispatches; schemas are static; configuration, logging and debug
  output carry no state that polling depends on.
- The counters and averages of the statistics (`polling_statistics.go`): written for display, read
  by nothing. The alert among them is in `LockupTimers`.
- Poll rates, and with them `addDevice` and the intervals of tickers: a timer of the models fires at any
  time. The transport settings of a client. The pause of polling with an unavailable
  port and `ReAddDevicePoints`, which no code calls.
- `RemovePollingPointByNetworkUUID`, `UpdatePollingPointByPointUUID` of the queue,
  `networkRequest`, `getBitsFromFloat64`, `encodeBools`, `decodeBools`: no code calls them (the
  heap's update is modelled in `PollHeap`).
- Data races inside a step: the fields of `QueueUnloader`, the list of managers and the map of clients
  are read and written without a lock. The steps interleave at blocking calls only.
- Behaviour of single rows that no run has: a writeable point of type digital or mod10 has no write request and is
  retried at once for ever (`utils.go:209`); `hasBit` sees no bit 63, and no code checks the index of a bit
  against the width of its register (`utils.go:395`).
- A poll that hangs: the lockup timer of a point is stopped when it becomes the next one (`poll_queue.go:148`).
- The bus: two polls of one network at a time, which a poll in flight over a Disable and an Enable
  can lead to, interleave their requests in the code, not in `ModbusRequests`.

## What is left

Each invariant and each action property of a passing run is stated by a theorem, and so are the two refinements.
What could follow:

1. `NeverDoubled` and `Conserved` with the calls that `NoRequeue` excludes. The code would have to change first: an update would have to
   stop a late callback, and the checker to see the point that is out.
2. `Orderly` with adds and deletes: `PointLifecycle` would let points come and go, and `PlacesInv`, which already allows for them, would
   carry the proof.
3. Two polls of one network at a time over one device, as a composition of `ModuleLifecycle` with `ModbusRequests`.
