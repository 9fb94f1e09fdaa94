-------------------------- MODULE ModuleLifecycle --------------------------
(***************************************************************************)
(* The networks of the module and the loops that poll them (pkg/enable.go, *)
(* pkg/app.go, pkg/polling.go, pkg/modbus.go): the host's record of each   *)
(* network, the list of poll managers, a goroutine for every manager ever  *)
(* made, the context that ends goroutines, and the map of Modbus clients.  *)
(*                                                                         *)
(* The host serves every call in a goroutine; a handler is cut where it    *)
(* asks the host, and what it does to memory in between is one step.       *)
(*                                                                         *)
(* The queue of a manager is the matter of PollManager.  Here a network    *)
(* has one point, read at its poll rate, and a manager holds it somewhere  *)
(* in its queue (heap, next, standby or a re-poll timer), has it out on a  *)
(* poll, both (it was rebuilt meanwhile), or neither.  A turn of the loop  *)
(* that finds the point held but not yet due is no step.                   *)
(***************************************************************************)
EXTENDS Naturals, FiniteSets, SequencesExt

CONSTANTS Net,      \* networks, each under one uuid
          Id,       \* poll managers with their goroutines that exist at one time
          Caller,   \* goroutines that serve calls
          NoManager \* a call has no manager at hand

ASSUME LifecycleAssumption == IsFiniteSet(Net) /\ NoManager \notin Id

VARIABLES db,       \* the host's record of a network
          list,     \* m.NetworkPollManagers
          managers, \* every manager something refers to
          context,  \* m.pollingContext: not made, live or cancelled
          clients,  \* networks with an entry in m.mbClients
          made,     \* m.mbClients is not nil
          calls,    \* what each caller has still to do
          alive     \* FALSE: the process has panicked

vars == <<db, list, managers, context, clients, made, calls, alive>>

\* A poll manager: whether it is on (pm.Enable, with its checker waiting), holds its
\* point, has a check of its queue under way; its goroutine; and the context that ends
\* it: the one m.pollingCancel cancels, one whose cancel function was overwritten, one
\* that is cancelled.
Manager == [net : Net, on : BOOLEAN, held : BOOLEAN, check : BOOLEAN,
            loop : {"none", "idle", "asked", "drawn", "connect", "ended"},
            ctx : {"current", "lost", "done"}]

\* What a caller has still to do: the step it takes when the host has answered, for
\* which networks, with which Enable flag of an update, to which manager.
Todo(op, nets, on, man) == [op |-> op, nets |-> nets, on |-> on, man |-> man]
Nothing == Todo("none", <<>>, FALSE, NoManager)
Initiating(nets) == IF nets = <<>> THEN Nothing ELSE Todo("init", nets, TRUE, NoManager)

Init ==
    /\ db \in [Net -> {"absent", "disabled", "enabled"}]
    /\ list = <<>> /\ managers = <<>>
    /\ context = "none" /\ clients = {} /\ made = FALSE
    /\ calls = [c \in Caller |-> Nothing]
    /\ alive = TRUE

Start(c) == alive /\ calls[c] = Nothing
At(c, op) == alive /\ calls[c].op = op
Goes(c, todo) == calls' = [calls EXCEPT ![c] = todo]

Status(on) == IF on THEN "enabled" ELSE "disabled"

\* The managers there may be after StopPolling of those in ids: each is off and its queue
\* is empty, unless a check under way, which the stop waits for, has added the point
\* again.  A point that is out on a poll stays out.
Stopped(ids) ==
    {[i \in DOMAIN managers |->
         IF i \in ids THEN [managers[i] EXCEPT !.on = FALSE, !.check = FALSE, !.held = i \in again]
         ELSE managers[i]]
     : again \in SUBSET {i \in ids \cap DOMAIN managers : managers[i].check}}

\* Managers that can be forgotten: not in the list nor at hand in a call, and their
\* goroutine has returned.
Garbage == {i \in DOMAIN managers : /\ i \notin Range(list) /\ managers[i].loop = "ended"
                                    /\ \A c \in Caller : calls[c].man # i}
Free == Id \ (DOMAIN managers \ Garbage)

\* The bound on managers: k more can be made, besides those the callers are about to make.
Room(k) == Cardinality(Free) >=
             k + Cardinality(Net) * Cardinality({c \in Caller : calls[c] # Nothing})
-----------------------------------------------------------------------------
Existing == {n \in Net : db[n] # "absent"}

\* Enable asks for the networks of the plugin, the disabled ones too ...
Enable(c) ==
    /\ Start(c) /\ Room(Cardinality(Existing))
    /\ Goes(c, Todo("enable", SetToSeq(Existing), TRUE, NoManager))
    /\ UNCHANGED <<db, list, managers, context, clients, made, alive>>

\* Managers whose loops lose the current context.
Uncontexted(mans, ctx) ==
    [i \in DOMAIN mans |-> [mans[i] EXCEPT !.ctx = IF @ = "current" THEN ctx ELSE @]]

EnableWith(c, kept) ==
    /\ At(c, "enable")
    /\ context' = "live"
    /\ \E mans \in Stopped(Range(list)) : managers' = Uncontexted(mans, "lost")
    /\ list' = kept
    /\ clients' = {} /\ made' = TRUE
    /\ Goes(c, Initiating(calls[c].nets))
    /\ UNCHANGED <<db, alive>>

\* Mutant of EnableModule: new managers are added to the ones there are.
EnableModuleAgain(c) == EnableWith(c, list)

\* ... and forgets the managers, stopped, the clients and the cancel function.
EnableModule(c) == EnableWith(c, <<>>)

DisableStopping(c, ids) ==
    /\ Start(c) /\ context = "live"
    /\ context' = "done"
    /\ \E mans \in Stopped(ids) : managers' = Uncontexted(mans, "done")
    /\ list' = <<>> /\ clients' = {} /\ made' = FALSE
    /\ UNCHANGED <<db, calls, alive>>

\* Mutant of Disable: the managers are forgotten without being stopped.
DisableForgets(c) == DisableStopping(c, {})

\* The host disables a module that it has enabled.
Disable(c) == DisableStopping(c, Range(list))
-----------------------------------------------------------------------------
\* initiatePolling: a manager, in the list before it is started; which of the free
\* identities it takes makes no difference.  StartPolling asks for the devices ...
InitiatePolling(c) ==
    /\ At(c, "init") /\ Free # {}
    /\ LET i == CHOOSE i \in Free : TRUE IN
          /\ managers' = [j \in (DOMAIN managers \ Garbage) \cup {i} |->
                IF j = i THEN [net |-> Head(calls[c].nets), on |-> FALSE, held |-> FALSE,
                               check |-> FALSE, loop |-> "none",
                               ctx |-> IF context = "live" THEN "current" ELSE "done"]
                ELSE managers[j]]
          /\ list' = Append(list, i)
          /\ Goes(c, [calls[c] EXCEPT !.op = "rates", !.man = i])
    /\ UNCHANGED <<db, context, clients, made, alive>>

\* ... and dereferences the answer, which is nil when the host does not have the network
\* or fails; RebuildPollingQueue stops the manager and asks for the network again ...
SetRates(c) ==
    /\ At(c, "rates")
    /\ \/ /\ db[Head(calls[c].nets)] # "absent"
          /\ managers' \in Stopped({calls[c].man})
          /\ Goes(c, [calls[c] EXCEPT !.op = "rebuild"])
          /\ UNCHANGED alive
       \/ alive' = FALSE /\ UNCHANGED <<managers, calls>>
    /\ UNCHANGED <<db, list, context, clients, made>>

\* ... and adds its point, writing its row back if it is not to be polled on start, or
\* nothing when the answer is an error ...
Rebuild(c) ==
    /\ At(c, "rebuild")
    /\ \E filled \in BOOLEAN :
          /\ filled => db[Head(calls[c].nets)] # "absent"
          /\ managers' = [managers EXCEPT ![calls[c].man].held = @ \/ filled]
    /\ Goes(c, [calls[c] EXCEPT !.op = "start"])
    /\ UNCHANGED <<db, list, context, clients, made, alive>>

\* ... and the manager is on.  Starting the queue forgets the next point, if the loop of
\* the manager has had a turn since.  The manager of initiatePolling gets its loop, the
\* one of updateNetwork has one, and the network is saved.
StartPolling(c) ==
    /\ At(c, "start")
    /\ LET i == calls[c].man
           new == managers[i].loop = "none" IN
          /\ \E lost \in BOOLEAN :
                /\ lost => ~new
                /\ managers' = [managers EXCEPT ![i].on = TRUE, ![i].held = @ /\ ~lost,
                                                ![i].loop = IF new THEN "idle" ELSE @]
          /\ Goes(c, IF new THEN Initiating(Tail(calls[c].nets))
                     ELSE [calls[c] EXCEPT !.op = "save", !.man = NoManager])
    /\ UNCHANGED <<db, list, context, clients, made, alive>>
-----------------------------------------------------------------------------
\* The host gives a network it creates a uuid that nothing refers to.
AddNetwork(c, n, on) ==
    /\ Start(c) /\ context # "none" /\ Room(1)
    /\ db[n] = "absent" /\ n \notin clients
    /\ \A i \in DOMAIN managers : managers[i].net # n
    /\ db' = [db EXCEPT ![n] = Status(on)]
    /\ Goes(c, IF on THEN Initiating(<<n>>) ELSE Nothing)
    /\ UNCHANGED <<list, managers, context, clients, made, alive>>

\* updateNetwork: the host has the new record ...
UpdateNetwork(c, n, on) ==
    /\ Start(c) /\ context # "none" /\ db[n] # "absent"
    /\ db' = [db EXCEPT ![n] = Status(on)]
    /\ Goes(c, Todo("update", <<n>>, on, NoManager))
    /\ UNCHANGED <<list, managers, context, clients, made, alive>>

Managing(n) == {k \in DOMAIN list : managers[list[k]].net = n}
FirstManager(n) == list[CHOOSE k \in Managing(n) : \A j \in Managing(n) : k <= j]

\* ... the manager is stopped, or started, first stopped when the poll rate is another,
\* which is a comparison of pointers; without a manager the handler returns ...
ApplyStarting(c, revived) ==
    /\ At(c, "update")
    /\ LET n == Head(calls[c].nets)
           i == FirstManager(n)
           off == ~managers[i].on
       IN \/ /\ Managing(n) = {}
             /\ Goes(c, Nothing)
             /\ UNCHANGED managers
          \/ /\ Managing(n) # {} /\ ~calls[c].on /\ ~off
             /\ managers' \in Stopped({i})
             /\ Goes(c, [calls[c] EXCEPT !.op = "save"])
          \/ /\ Managing(n) # {} /\ (calls[c].on \/ off)
             /\ \E restart \in BOOLEAN :
                   /\ managers' \in Stopped(IF restart THEN {i} ELSE {})
                   /\ Goes(c, IF restart \/ (revived /\ off)
                              THEN [calls[c] EXCEPT !.op = "rates", !.man = i]
                              ELSE [calls[c] EXCEPT !.op = "save"])
    /\ UNCHANGED <<db, list, context, clients, made, alive>>

\* Mutant of ApplyUpdate: a manager is started only when its poll rate has changed.
ApplyUpdateRate(c) == ApplyStarting(c, FALSE)

\* ... when it is off and the network is enabled, or to be restarted ...
ApplyUpdate(c) == ApplyStarting(c, calls[c].on)

\* ... and the record is written once more.
SaveNetwork(c) ==
    /\ At(c, "save")
    /\ db' = [n \in Net |-> IF n = Head(calls[c].nets) /\ db[n] # "absent"
                            THEN Status(calls[c].on) ELSE db[n]]
    /\ Goes(c, Nothing)
    /\ UNCHANGED <<list, managers, context, clients, made, alive>>

\* The loop of deleteNetwork, over the slice as it was: the last element takes the place
\* of the one that goes, and a match beyond the new end is out of range.
Turns(r) == r.safe /\ r.k <= Len(r.slice)
Turn(n, r) ==
    IF managers[r.slice[r.k]].net # n THEN [r EXCEPT !.k = @ + 1]
    ELSE IF r.k > r.len THEN [r EXCEPT !.safe = FALSE]
    ELSE [r EXCEPT !.slice[r.k] = r.slice[r.len], !.len = @ - 1, !.k = @ + 1]
Slices == {r \in [slice : Seq(Id), len : Nat, k : Nat \ {0}, safe : BOOLEAN] :
               r.len <= Len(r.slice)}
Removed(n) ==
    LET removed[r \in Slices] == IF Turns(r) THEN removed[Turn(n, r)] ELSE r
    IN removed[[slice |-> list, len |-> Len(list), k |-> 1, safe |-> TRUE]]

DeleteLeaving(c, n, left) ==
    /\ Start(c) /\ context # "none" /\ db[n] # "absent"
    /\ list' = left
    /\ alive' = Removed(n).safe
    /\ managers' \in Stopped({list[k] : k \in Managing(n)})
    /\ Goes(c, Todo("delete", <<n>>, FALSE, NoManager))
    /\ UNCHANGED <<db, context, clients, made>>

\* Mutant of DeleteNetwork: the slice is cut without filling the gap.
DeleteNetworkCut(c, n) == DeleteLeaving(c, n, SubSeq(list, 1, Removed(n).len))

\* Mutant of DeleteNetwork: the gap is filled but the slice is not cut.
DeleteNetworkUncut(c, n) == DeleteLeaving(c, n, Removed(n).slice)

\* deleteNetwork: the manager is stopped and taken from the list ...
DeleteNetwork(c, n) == DeleteLeaving(c, n, SubSeq(Removed(n).slice, 1, Removed(n).len))

\* ... before the host is asked to delete the network, which may fail.
DeleteAtHost(c) ==
    /\ At(c, "delete")
    /\ \/ db' = [db EXCEPT ![Head(calls[c].nets)] = "absent"]
       \/ db' = db
    /\ Goes(c, Nothing)
    /\ UNCHANGED <<list, managers, context, clients, made, alive>>
-----------------------------------------------------------------------------
\* pollSingleNetwork: unless there are no managers at all, it asks the host for the
\* network, which must be there and enabled ...
AskNetwork(i) ==
    /\ alive /\ managers[i].loop = "idle"
    /\ list # <<>> /\ db[managers[i].net] = "enabled"
    /\ managers' = [managers EXCEPT ![i].loop = "asked"]
    /\ UNCHANGED <<db, list, context, clients, made, calls, alive>>

\* ... and draws the point its manager holds, on or not, in the list or not.
Draw(i) ==
    /\ alive /\ managers[i].loop = "asked"
    /\ managers' = [managers EXCEPT ![i].held = FALSE,
                                    ![i].loop = IF managers[i].held THEN "drawn" ELSE "idle"]
    /\ UNCHANGED <<db, list, context, clients, made, calls, alive>>

\* The network has no client yet: setClient connects.
Connect(i) ==
    /\ alive /\ managers[i].loop = "drawn" /\ managers[i].net \notin clients
    /\ managers' = [managers EXCEPT ![i].loop = "connect"]
    /\ UNCHANGED <<db, list, context, clients, made, calls, alive>>

\* The client is put into the map, which panics when the map is nil.
Connected(i) ==
    /\ alive /\ managers[i].loop = "connect"
    /\ alive' = made
    /\ clients' = IF made THEN clients \cup {managers[i].net} ELSE clients
    /\ managers' = [managers EXCEPT ![i].loop = "drawn"]
    /\ UNCHANGED <<db, list, context, made, calls>>

\* The poll is over: refused by the checks of device and point, or without a connection,
\* or asked of the device.  It puts the point back into the queue of its manager, stopped
\* meanwhile or not, or loses it, when the host has not answered.
PollEnds(i) ==
    /\ alive /\ managers[i].loop \in {"drawn", "connect"}
    /\ \E back \in BOOLEAN :
          managers' = [managers EXCEPT ![i].loop = "idle", ![i].held = @ \/ back]
    /\ UNCHANGED <<db, list, context, clients, made, calls, alive>>

\* The checker of a manager that is on asks the host for the network ...
CheckBegins(i) ==
    /\ alive /\ managers[i].on /\ ~managers[i].check /\ db[managers[i].net] # "absent"
    /\ managers' = [managers EXCEPT ![i].check = TRUE]
    /\ UNCHANGED <<db, list, context, clients, made, calls, alive>>

\* ... and adds the point that is missing.  A point that is out on a poll is missing only
\* if a restart of the manager has forgotten it.
CheckEnds(i) ==
    /\ alive /\ managers[i].check
    /\ \E added \in BOOLEAN :
          /\ managers[i].loop \notin {"drawn", "connect"} => added
          /\ managers' = [managers EXCEPT ![i].check = FALSE, ![i].held = @ \/ added]
    /\ UNCHANGED <<db, list, context, clients, made, calls, alive>>

\* The loop meets its cancelled context, which it may do later than a tick.
LoopEnds(i) ==
    /\ alive /\ managers[i].loop = "idle" /\ managers[i].ctx = "done"
    /\ managers' = [managers EXCEPT ![i].loop = "ended"]
    /\ UNCHANGED <<db, list, context, clients, made, calls, alive>>

\* The process is started anew; the host will enable it.
Restart ==
    /\ ~alive
    /\ alive' = TRUE
    /\ list' = <<>> /\ managers' = <<>>
    /\ context' = "none" /\ clients' = {} /\ made' = FALSE
    /\ calls' = [c \in Caller |-> Nothing]
    /\ UNCHANGED db

Serve(c) == \/ EnableModule(c) \/ InitiatePolling(c)
            \/ SetRates(c) \/ Rebuild(c) \/ StartPolling(c)
            \/ ApplyUpdate(c) \/ SaveNetwork(c) \/ DeleteAtHost(c)
Receive(c) == \/ Enable(c) \/ Disable(c)
              \/ \E n \in Net, on \in BOOLEAN : AddNetwork(c, n, on) \/ UpdateNetwork(c, n, on)
              \/ \E n \in Net : DeleteNetwork(c, n)
Poll(i) == Draw(i) \/ Connect(i) \/ Connected(i) \/ PollEnds(i)
Check(i) == CheckBegins(i) \/ CheckEnds(i)
Loop(i) == AskNetwork(i) \/ Poll(i) \/ Check(i) \/ LoopEnds(i)

Next == \/ \E c \in Caller : Receive(c) \/ Serve(c)
        \/ \E i \in DOMAIN managers : Loop(i)
        \/ Restart

Spec == Init /\ [][Next]_vars

\* Handlers, polls and checks come to an end, a loop comes around and ends when it may,
\* and the checker of a manager ticks.
FairSpec ==
    /\ Spec
    /\ \A c \in Caller : WF_vars(Serve(c))
    /\ \A i \in Id : /\ WF_vars(i \in DOMAIN managers /\ AskNetwork(i))
                     /\ WF_vars(i \in DOMAIN managers /\ Poll(i))
                     /\ WF_vars(i \in DOMAIN managers /\ Check(i))
                     /\ WF_vars(i \in DOMAIN managers /\ LoopEnds(i))
-----------------------------------------------------------------------------
Quiet == alive /\ \A c \in Caller : calls[c] = Nothing

TypeOK ==
    /\ list \in Seq(DOMAIN managers) /\ \A i \in DOMAIN managers : managers[i] \in Manager
    /\ IsInjective(list)
    /\ clients # {} => made
    /\ \A i \in DOMAIN managers : managers[i].check => managers[i].on

\* Between calls no network has two managers, whose loops would both poll it, however
\* often the module is enabled (enable.go:23, polling.go:29).
OneManager == Quiet => \A n \in Net : \A j, k \in Managing(n) : j = k

\* Between calls no manager is left for a network that is deleted: deleteNetwork is to
\* "remove the NetworkPollManager from the slice in polling instance" (app.go:402).
DeletedIsForgotten == Quiet => \A n \in Net : db[n] = "absent" => Managing(n) = {}

\* A loop may outlive the place of its manager in the list, under a lost context or
\* when the host did not delete the network, and nothing can stop it any more
\* (enable.go:21, app.go:411).  What it can still draw is what was under way when its
\* manager left the list: a poll that puts its point back (queue_loader.go:66-241) or a
\* check that adds it (poll_manager.go:199).  Nothing else gives it a point.
OnlyUnderWay ==
    [][\A i \in DOMAIN managers \cap DOMAIN managers' :
          i \notin Range(list') /\ managers'[i].held =>
             \/ i \notin Range(list) /\ managers[i].held
             \/ managers[i].loop \in {"drawn", "connect"}
             \/ i \in Range(list) /\ managers[i].check]_vars

Drawn(n) == \E i \in DOMAIN managers : managers[i].net = n /\ managers[i].loop = "drawn"
Live(n) == Quiet /\ context = "live" /\ db[n] = "enabled"

\* An enabled network with a manager is polled again and again, whatever disabling,
\* enabling, restarting and losing of points went before (app.go:175-183, enable.go:35).
ManagedIsPolled == \A n \in Net : []<>(Live(n) /\ Managing(n) # {} => Drawn(n))
=============================================================================
